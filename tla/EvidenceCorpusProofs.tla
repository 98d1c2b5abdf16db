------------------------- MODULE EvidenceCorpusProofs -------------------------
(***************************************************************************)
(* Proofs about ArtifactLifecycle and EvidenceCorpus: for any files,       *)
(* contents, evidence and callers, any number of calls, edits, failures    *)
(* and corpus builds.                                                      *)
(***************************************************************************)
EXTENDS EvidenceCorpus, SequenceTheorems, TLAPS

-----------------------------------------------------------------------------
(* The inductive invariant *)

\* Where a call has the lock of its artifact, and where it has a copy of its record.
Holding    == {"extract", "replace", "unlock"}
CopyPlaces == Holding \cup {"normalized", "offerNormalized", "mark", "remote", "offerParsed", "failed"}
\* Where an ingestion is in its list of files.
FilePlaces == {"file", "cascade", "copy", "register"}
Places     == CopyPlaces \cup FilePlaces \cup {"idle", "list", "retry", "backfill"}

Snapshots == UNION {[D -> Records] : D \in SUBSET Contents}
Outputs   == [there : BOOLEAN, version : Nat]
FileSlots == [path : PathSet, c : Contents \cup {NoFile}]
Frames ==
    [files : [DOMAIN Paths -> FileSlots] \cup {<<>>}, n : Nat, current : Snapshots,
     priors : SUBSET Contents, dependents : SUBSET (Evidence \cup Derived),
     c : Contents \cup {NoCall}, copy : Records \cup {NoCall}, backup : BOOLEAN,
     text : Contents \cup {NoFile}, todo : SUBSET Contents, ocr : BOOLEAN]

Typed ==
    /\ artifact \in Snapshots
    /\ local \in [Contents -> Outputs] /\ locked \subseteq Contents
    /\ source \in [Contents -> Contents \cup {NoFile}]
    /\ disk \in [PathSet -> Contents \cup {NoFile}]
    /\ pc \in [Callers -> Places] /\ frame \in [Callers -> Frames]

\* What a call that is at a place has in its frame.
FrameOk(place, f) ==
    /\ place \in CopyPlaces => f.c \in DOMAIN artifact /\ f.copy \in Records
    /\ place \in {"list", "file"} => f.dependents = {}
    /\ place = "cascade" =>
         /\ f.n \in DOMAIN f.files /\ f.files[f.n].c \in Contents
         /\ f.priors \subseteq DOMAIN f.current
         /\ f.dependents # {} => f.c \in Contents
    /\ place \in {"copy", "register"} =>
         /\ f.n \in DOMAIN f.files /\ f.c \in Contents /\ f.files[f.n].c = f.c
         /\ f.dependents = {}
FramesOk == \A i \in Callers : FrameOk(pc[i], frame[i])

\* The lock of an artifact excludes.
LockInv ==
    /\ \A i \in Callers : pc[i] \in Holding => frame[i].c \in locked
    /\ \A i, j \in Callers :
          pc[i] \in Holding /\ pc[j] \in Holding /\ frame[i].c = frame[j].c => i = j
    /\ \A i \in Callers : pc[i] = "unlock" => local[frame[i].c].there

\* Some record of the artifact says, or will say, that its local output is there;
\* and it is, except while the one that replaces it can put it back, or its lock
\* is left behind.
ClaimedBy(i, c) ==
    \/ /\ pc[i] \in CopyPlaces /\ frame[i].c = c
       /\ frame[i].copy.normalized \/ pc[i] = "normalized"
    \/ /\ pc[i] \in FilePlaces /\ c \in DOMAIN frame[i].current
       /\ frame[i].current[c].normalized
Claimed(c) ==
    \/ c \in DOMAIN artifact /\ artifact[c].normalized
    \/ \E i \in Callers : ClaimedBy(i, c)
Secured(c) ==
    /\ c \notin locked => local[c].there
    /\ \A i \in Callers : frame[i].c = c =>
          (pc[i] = "extract" => local[c].there) /\ (pc[i] = "replace" => frame[i].backup)
OutputInv == \A c \in Contents : Claimed(c) => Secured(c)

\* A copy that is as old as the stale record was made when the content was there.
CopyDated(i) ==
    pc[i] \in CopyPlaces =>
      /\ frame[i].copy.at <= artifact[frame[i].c].at
      /\ frame[i].copy.at = artifact[frame[i].c].at =>
            /\ frame[i].copy.status = artifact[frame[i].c].status
            /\ frame[i].copy.status = "stale" => frame[i].c \in restored
StaleSeen == \A c \in DOMAIN artifact : artifact[c].status = "stale" /\ OnDisk(c) => c \in restored
RestoredInv == StaleSeen /\ \A i \in Callers : CopyDated(i)

\* What the replacement of c has not reached yet, somebody is about to reach, or
\* was when it died.
Awaited(c, x) ==
    c \in cut \/ \E i \in Callers : pc[i] = "cascade" /\ frame[i].c = c /\ x \in frame[i].dependents
StaleAwaited ==
    \A c \in DOMAIN artifact :
       artifact[c].status = "stale" => \A x \in Dependents(c) : Awaited(c, x)
CitingAwaited ==
    \A e \in stale \cap Evidence, d \in Derived \ stale :
       e \in RefsOf[d] => Awaited(BehindOf[e], d)
CascadeOk(i) ==
    pc[i] = "cascade" =>
      \A e \in frame[i].dependents \cap Evidence :
          /\ BehindOf[e] = frame[i].c
          /\ \A d \in Derived \ stale : e \in RefsOf[d] => d \in frame[i].dependents
CascadeInv == StaleAwaited /\ CitingAwaited /\ \A i \in Callers : CascadeOk(i)

\* A unit is of a record that is not newer than the present one, and if it is the
\* present one the unit is its text.
Texts == {"metadata only", "cloud", "source", "local", "missing document"}
            \X (Nat \cup Contents \cup {NoFile})
Corpora == [of : Snapshots, units : UNION {[D -> Texts] : D \in SUBSET Contents}]
Settled(c) == c \notin torn /\ ~Replacing(c)
UnitsOk(b) ==
    \A c \in DOMAIN b.units :
        /\ c \in DOMAIN b.of /\ c \in DOMAIN artifact /\ b.of[c].at <= artifact[c].at
        /\ b.of[c] = artifact[c] /\ Settled(c) => b.units[c] = Text(c, artifact[c])
SnapshotOk(b) ==
    \A c \in DOMAIN b.of : c \in DOMAIN artifact /\ b.of[c].at <= artifact[c].at
CorpusInv ==
    /\ builds \in Seq(Corpora)
    /\ \A n \in DOMAIN builds : SnapshotOk(builds[n]) /\ UnitsOk(builds[n])
    /\ projection = NoCorpus \/ (projection \in Corpora /\ SnapshotOk(projection) /\ UnitsOk(projection))

LifecycleInv == Typed /\ FramesOk /\ LockInv /\ OutputInv /\ RestoredInv /\ CascadeInv
Inv == LifecycleInv /\ CorpusInv

-----------------------------------------------------------------------------
(* What the operators do *)

USE DEF files, apart, rest, bounds, Touching, FilePlaces

LEMMA SnapshotType ==
    ASSUME NEW s
    PROVE  s \in Snapshots <=> DOMAIN s \subseteq Contents /\ s \in [DOMAIN s -> Records]
<1>1. ASSUME s \in Snapshots PROVE DOMAIN s \subseteq Contents /\ s \in [DOMAIN s -> Records]
  <2>1. PICK D \in SUBSET Contents : s \in [D -> Records]
    BY <1>1 DEF Snapshots
  <2>. QED  BY <2>1
<1>2. ASSUME DOMAIN s \subseteq Contents, s \in [DOMAIN s -> Records] PROVE s \in Snapshots
  BY <1>2 DEF Snapshots
<1>. QED  BY <1>1, <1>2

LEMMA UpsertFacts ==
    ASSUME artifact \in Snapshots, NEW c \in Contents, NEW r \in Records, Upsert(c, r)
    PROVE  /\ artifact' \in Snapshots /\ DOMAIN artifact' = DOMAIN artifact \cup {c}
           /\ \A x \in DOMAIN artifact \ {c} : artifact'[x] = artifact[x]
           /\ artifact'[c].status = r.status /\ artifact'[c].text = r.text
           /\ artifact'[c].normalized = r.normalized
           /\ c \in DOMAIN artifact => artifact'[c].at = artifact[c].at + 1
           /\ torn' = torn \ {c}
<1>. DEFINE at == IF c \in DOMAIN artifact THEN artifact[c].at + 1 ELSE 1
            w == [r EXCEPT !.at = at]
<1>1. DOMAIN artifact \subseteq Contents /\ artifact \in [DOMAIN artifact -> Records]
  BY SnapshotType
<1>2. at \in Nat
  BY <1>1 DEF Records
<1>3. artifact' = [x \in DOMAIN artifact \cup {c} |-> IF x # c THEN artifact[x] ELSE w]
      /\ torn' = torn \ {c}
  BY DEF Upsert
<1>. HIDE DEF at
<1>4. w \in Records /\ w.status = r.status /\ w.text = r.text /\ w.normalized = r.normalized /\ w.at = at
  BY <1>2 DEF Records
<1>. HIDE DEF w
<1>5. artifact' \in [DOMAIN artifact \cup {c} -> Records]
  BY <1>1, <1>3, <1>4
<1>6. artifact' \in Snapshots
  BY <1>1, <1>5 DEF Snapshots
<1>7. artifact'[c] = w
  BY <1>3
<1>. QED  BY <1>3, <1>4, <1>6, <1>7 DEF at

LEMMA NoFrameType ==
    /\ NoFrame \in Frames /\ NoFrame.dependents = {} /\ NoFrame.current = <<>> /\ NoFrame.files = <<>>
<1>1. <<>> \in Seq(Records) /\ Len(<<>>) = 0 /\ 1 .. 0 = {}
  OBVIOUS
<1>2. <<>> \in [1 .. 0 -> Records]
  BY <1>1, LenProperties
<1>3. <<>> \in Snapshots
  BY <1>1, <1>2, SnapshotType
<1>. QED  BY <1>3 DEF NoFrame, Frames

\* Only caller i moves.
Moved(i) ==
    /\ pc' \in [Callers -> Places] /\ frame' \in [Callers -> Frames]
    /\ \A j \in Callers \ {i} : pc'[j] = pc[j] /\ frame'[j] = frame[j]

LEMMA Going ==
    ASSUME pc \in [Callers -> Places], frame \in [Callers -> Frames],
           NEW i \in Callers, NEW place \in Places, NEW f \in Frames, GoTo(i, place, f)
    PROVE  Moved(i) /\ pc'[i] = place /\ frame'[i] = f
BY DEF GoTo, Moved

LEMMA Ending ==
    ASSUME pc \in [Callers -> Places], frame \in [Callers -> Frames], NEW i \in Callers,
           Return(i) \/ Succeed(i) \/ Throw(i) \/ EndFailed(i)
    PROVE  Moved(i) /\ pc'[i] \in {"idle", "retry", "backfill"}
<1>1. PutDown(i) \in Frames
  BY DEF PutDown, Frames
<1>2. {"idle", "retry", "backfill"} \subseteq Places
  BY DEF Places
<1>3. CASE GoTo(i, "idle", NoFrame)
  BY <1>2, <1>3, Going, NoFrameType
<1>4. CASE GoTo(i, "retry", PutDown(i))
  BY <1>1, <1>2, <1>4, Going
<1>5. CASE GoTo(i, "backfill", PutDown(i))
  BY <1>1, <1>2, <1>5, Going
<1>6. Return(i) => GoTo(i, "idle", NoFrame)
  BY DEF Return
<1>7. Throw(i) => GoTo(i, "backfill", PutDown(i)) \/ GoTo(i, "idle", NoFrame)
  BY <1>6 DEF Throw
<1>8. Succeed(i) => \/ GoTo(i, "backfill", PutDown(i)) \/ GoTo(i, "retry", PutDown(i))
                    \/ GoTo(i, "idle", NoFrame)
  BY <1>6 DEF Succeed
<1>. QED  BY <1>3, <1>4, <1>5, <1>6, <1>7, <1>8 DEF EndFailed

-----------------------------------------------------------------------------
(* The kinds of steps *)

Still == UNCHANGED <<artifact, torn, disk, restored, stale, cut, local, source>>

\* A call begins, goes on or ends without a copy.
Rests(i) ==
    /\ Moved(i) /\ Still /\ UNCHANGED locked
    /\ pc[i] \notin Holding \cup {"normalized", "register"}
    /\ pc[i] = "cascade" => frame[i].dependents = {}
    /\ pc'[i] \notin CopyPlaces /\ FrameOk(pc'[i], frame'[i])
    /\ pc'[i] = "cascade" => frame'[i].dependents = {}
    /\ pc'[i] \in FilePlaces =>
          \/ frame'[i].current = artifact
          \/ pc[i] \in FilePlaces /\ frame'[i].current = frame[i].current

\* It copies the record of an artifact whose content is there.
Copies(i) ==
    /\ Moved(i) /\ Still
    /\ pc[i] \notin CopyPlaces \cup FilePlaces
    /\ Holds(frame'[i].c) /\ frame'[i].copy = artifact[frame'[i].c]
    /\ \/ pc'[i] = "mark" /\ UNCHANGED locked
       \/ /\ pc'[i] = "extract" /\ frame'[i].c \notin locked
          /\ locked' = locked \cup {frame'[i].c}

\* It writes the copy back.
WritesBack(i) ==
    /\ Moved(i) /\ UNCHANGED <<disk, restored, stale, cut, local, source, locked>>
    /\ pc[i] \in {"normalized", "mark", "remote", "failed"}
    /\ \E r \in Records :
          /\ Upsert(frame[i].c, r) /\ r.status # "stale"
          /\ r.normalized => frame[i].copy.normalized \/ pc[i] = "normalized"
          /\ frame[i].copy.text = "cloud" /\ frame[i].copy.status = "parsed" => r.text = "cloud"
    /\ \/ pc'[i] \in {"offerNormalized", "remote", "offerParsed"} /\ frame'[i] = frame[i]
       \/ pc'[i] \in {"idle", "retry", "backfill"}

\* Its parse fails.
Falls(i) ==
    /\ Moved(i) /\ Still /\ UNCHANGED locked
    /\ pc[i] \in {"remote", "offerParsed"} /\ pc'[i] = "failed" /\ frame'[i] = frame[i]

\* It replaces the copy of a Markdown file.
Puts(i) ==
    /\ Moved(i) /\ UNCHANGED <<artifact, torn, disk, restored, stale, cut, local, locked>>
    /\ pc[i] = "copy" /\ pc'[i] = "register" /\ frame'[i] = frame[i] /\ frame[i].c \in Contents
    /\ source' \in [Contents -> Contents \cup {NoFile}]
    /\ \A x \in Contents \ {frame[i].c} : source'[x] = source[x]

LEMMA BeginIngestKind ==
    ASSUME Typed, NEW i \in Callers, BeginIngest(i)
    PROVE  Rests(i)
<1>. DEFINE fs == [n \in DOMAIN Paths |-> [path |-> Paths[n], c |-> disk[Paths[n]]]]
            f == [NoFrame EXCEPT !.files = fs]
<1>1. fs \in [DOMAIN Paths -> FileSlots]
  BY DEF Typed, FileSlots, PathSet
<1>. HIDE DEF fs
<1>2. f \in Frames /\ f.dependents = {}
  BY <1>1, NoFrameType DEF Frames
<1>3. GoTo(i, "list", f) /\ pc[i] = "idle"
  BY DEF BeginIngest, Begin, fs
<1>. HIDE DEF f
<1>4. Moved(i) /\ pc'[i] = "list" /\ frame'[i] = f
  BY <1>2, <1>3, Going DEF Typed, Places
<1>. QED  BY <1>2, <1>3, <1>4 DEF BeginIngest, Rests, Still, Holding, CopyPlaces, FrameOk

LEMMA ReadCurrentKind ==
    ASSUME Typed, FramesOk, NEW i \in Callers, ReadCurrent(i)
    PROVE  Rests(i)
<1>. DEFINE f == [frame[i] EXCEPT !.current = artifact]
<1>1. f \in Frames /\ f.dependents = frame[i].dependents /\ f.current = artifact
  BY DEF Typed, Frames
<1>2. GoTo(i, "file", f) /\ pc[i] = "list"
  BY DEF ReadCurrent
<1>. HIDE DEF f
<1>3. Moved(i) /\ pc'[i] = "file" /\ frame'[i] = f
  BY <1>1, <1>2, Going DEF Typed, Places
<1>4. f.dependents = {}
  BY <1>1, <1>2 DEF FramesOk, FrameOk
<1>. QED  BY <1>1, <1>2, <1>3, <1>4 DEF ReadCurrent, Rests, Still, Holding, CopyPlaces, FrameOk

LEMMA ReadFileKind ==
    ASSUME Typed, FramesOk, NEW i \in Callers, ReadFile(i)
    PROVE  Rests(i)
<1>. DEFINE f == [frame[i] EXCEPT !.n = @ + 1]
            g == [frame[i] EXCEPT !.priors = Priors(i)]
<1>1. /\ frame[i] \in Frames /\ frame[i].n \in Nat /\ frame[i].dependents = {} /\ pc[i] = "file"
      /\ frame[i].n \in DOMAIN frame[i].files
  BY DEF Typed, Frames, ReadFile, FramesOk, FrameOk
<1>2. f \in Frames /\ f.dependents = {} /\ f.current = frame[i].current
  BY <1>1 DEF Frames
<1>3. Priors(i) \subseteq DOMAIN frame[i].current /\ DOMAIN frame[i].current \subseteq Contents
  BY <1>1, SnapshotType DEF Priors, Frames
<1>4. /\ g \in Frames /\ g.dependents = {} /\ g.current = frame[i].current
      /\ g.n = frame[i].n /\ g.files = frame[i].files /\ g.priors = Priors(i)
  BY <1>1, <1>3 DEF Frames
<1>5. CASE GoTo(i, "file", f)
  <2>. HIDE DEF f
  <2>1. Moved(i) /\ pc'[i] = "file" /\ frame'[i] = f
    BY <1>2, <1>5, Going DEF Typed, Places
  <2>. QED  BY <1>1, <1>2, <2>1 DEF ReadFile, Rests, Still, Holding, CopyPlaces, FrameOk
<1>6. CASE GoTo(i, "cascade", g) /\ File(i).c # NoFile
  <2>1. File(i).c \in Contents
    <3>1. frame[i].files \in [DOMAIN Paths -> FileSlots]
      BY <1>1 DEF Frames
    <3>. QED  BY <1>1, <1>6, <3>1 DEF File, FileSlots
  <2>. HIDE DEF g
  <2>2. Moved(i) /\ pc'[i] = "cascade" /\ frame'[i] = g
    BY <1>4, <1>6, Going DEF Typed, Places
  <2>3. FrameOk("cascade", g)
    BY <1>1, <1>3, <1>4, <2>1 DEF FrameOk, CopyPlaces, Holding, File
  <2>. QED  BY <1>1, <1>4, <2>2, <2>3 DEF ReadFile, Rests, Still, Holding, CopyPlaces
<1>. QED  BY <1>5, <1>6 DEF ReadFile

LEMMA MarkdownKinds ==
    ASSUME Typed, FramesOk, NEW i \in Callers
    PROVE  (ReadMarkdown(i) => Rests(i)) /\ (CopyMarkdown(i) => Puts(i))
<1>1. ASSUME ReadMarkdown(i) PROVE Rests(i)
  <2>. DEFINE f == [frame[i] EXCEPT !.c = File(i).c, !.text = disk[File(i).path]]
  <2>1. /\ frame[i] \in Frames /\ frame[i].dependents = {} /\ pc[i] = "cascade"
        /\ frame[i].n \in DOMAIN frame[i].files /\ File(i).c \in Contents
    BY <1>1 DEF Typed, ReadMarkdown, Cleared, FramesOk, FrameOk, File
  <2>2. File(i).path \in PathSet
    <3>1. frame[i].files \in [DOMAIN Paths -> FileSlots]
      BY <2>1 DEF Frames
    <3>. QED  BY <2>1, <3>1 DEF File, FileSlots
  <2>3. disk[File(i).path] \in Contents \cup {NoFile}
    BY <2>2 DEF Typed
  <2>4. /\ f \in Frames /\ f.c = File(i).c /\ f.dependents = {} /\ f.current = frame[i].current
        /\ f.n = frame[i].n /\ f.files = frame[i].files
    BY <2>1, <2>3 DEF Frames
  <2>5. GoTo(i, "copy", f)
    BY <1>1 DEF ReadMarkdown
  <2>. HIDE DEF f
  <2>6. Moved(i) /\ pc'[i] = "copy" /\ frame'[i] = f
    BY <2>4, <2>5, Going DEF Typed, Places
  <2>7. FrameOk("copy", f)
    BY <2>1, <2>4 DEF FrameOk, CopyPlaces, Holding, File
  <2>. QED  BY <1>1, <2>1, <2>4, <2>6, <2>7 DEF ReadMarkdown, Rests, Still, Holding, CopyPlaces
<1>2. ASSUME CopyMarkdown(i) PROVE Puts(i)
  <2>1. /\ pc[i] = "copy" /\ GoTo(i, "register", frame[i]) /\ frame[i] \in Frames
        /\ frame[i].c \in Contents /\ frame[i].text \in Contents \cup {NoFile}
        /\ source' = [source EXCEPT ![frame[i].c] = frame[i].text]
    BY <1>2 DEF CopyMarkdown, FramesOk, FrameOk, Typed, Frames
  <2>2. Moved(i) /\ pc'[i] = "register" /\ frame'[i] = frame[i]
    BY <2>1, Going DEF Typed, Places
  <2>3. /\ source' \in [Contents -> Contents \cup {NoFile}]
        /\ \A x \in Contents \ {frame[i].c} : source'[x] = source[x]
    BY <2>1 DEF Typed
  <2>. QED  BY <1>2, <2>1, <2>2, <2>3 DEF CopyMarkdown, Puts
<1>. QED  BY <1>1, <1>2

\* Ends of calls that have no lock.
LEMMA EndKind ==
    ASSUME Typed, FramesOk, NEW i \in Callers,
           FileIsGone(i) \/ EndIngest(i) \/ OfferNormalized(i) \/ OfferParsed(i) \/ EndRetry(i)
    PROVE  Rests(i)
<1>1. Return(i) \/ Succeed(i)
  BY DEF FileIsGone, EndIngest, OfferNormalized, OfferParsed, EndRetry
<1>2. Moved(i) /\ pc'[i] \in {"idle", "retry", "backfill"}
  BY <1>1, Ending DEF Typed
<1>3. Still /\ UNCHANGED locked
  BY DEF FileIsGone, EndIngest, OfferNormalized, OfferParsed, EndRetry, Still
<1>4. /\ pc[i] \in {"cascade", "file", "offerNormalized", "offerParsed", "retry"}
      /\ pc[i] = "cascade" => frame[i].dependents = {}
  BY DEF FileIsGone, Cleared, EndIngest, OfferNormalized, OfferParsed, EndRetry
<1>. QED  BY <1>2, <1>3, <1>4 DEF Rests, Holding, CopyPlaces, FrameOk

\* A copy is made, from a frame f.
LEMMA Copying ==
    ASSUME Typed, NEW i \in Callers, NEW c, Holds(c), NEW f \in Frames,
           NEW place \in {"mark", "extract"},
           GoTo(i, place, [f EXCEPT !.c = c, !.copy = artifact[c]])
    PROVE  /\ Moved(i) /\ pc'[i] = place
           /\ frame'[i].c = c /\ frame'[i].copy = artifact[c] /\ c \in Contents
<1>. DEFINE g == [f EXCEPT !.c = c, !.copy = artifact[c]]
<1>1. c \in Contents /\ artifact[c] \in Records
  BY SnapshotType DEF Holds, Typed
<1>2. g \in Frames /\ g.c = c /\ g.copy = artifact[c]
  BY <1>1 DEF Frames
<1>. HIDE DEF g
<1>3. GoTo(i, place, g) /\ place \in Places
  BY DEF g, Places, CopyPlaces, Holding
<1>. QED  BY <1>1, <1>2, <1>3, Going DEF Typed

LEMMA LockTaken ==
    ASSUME Typed, NEW i \in Callers, NEW c, NEW f \in Frames, TakeLock(i, c, f), Still,
           pc[i] \notin CopyPlaces \cup FilePlaces
    PROVE  Copies(i)
<1>1. Holds(c) /\ c \notin locked /\ locked' = locked \cup {c}
  BY DEF TakeLock, Normalizable
<1>2. Moved(i) /\ pc'[i] = "extract" /\ frame'[i].c = c /\ frame'[i].copy = artifact[c]
  BY <1>1, Copying DEF TakeLock
<1>. QED  BY <1>1, <1>2 DEF Copies

LEMMA BeginCopyKind ==
    ASSUME Typed, NEW i \in Callers, BeginNormalize(i) \/ BeginParse(i)
    PROVE  Copies(i)
<1>1. CASE BeginNormalize(i)
  <2>1. PICK c \in Contents : TakeLock(i, c, NoFrame)
    BY <1>1 DEF BeginNormalize
  <2>2. Still /\ pc[i] = "idle"
    BY <1>1 DEF BeginNormalize, Still
  <2>. QED  BY <2>1, <2>2, NoFrameType, LockTaken DEF CopyPlaces, Holding
<1>2. CASE BeginParse(i)
  <2>1. PICK c \in Contents :
           Parseable(c) /\ GoTo(i, "mark", [NoFrame EXCEPT !.c = c, !.copy = artifact[c]])
           /\ pc[i] = "idle" /\ Still /\ UNCHANGED locked
    BY <1>2 DEF BeginParse, Begin, Still
  <2>2. Holds(c)
    BY <2>1 DEF Parseable
  <2>3. Moved(i) /\ pc'[i] = "mark" /\ frame'[i].c = c /\ frame'[i].copy = artifact[c]
    BY <2>1, <2>2, NoFrameType, Copying
  <2>. QED  BY <2>1, <2>2, <2>3 DEF Copies, CopyPlaces, Holding
<1>. QED  BY <1>1, <1>2

LEMMA RetryKind ==
    ASSUME Typed, NEW i \in Callers, BeginRetry(i) \/ RetryOne(i)
    PROVE  Rests(i) \/ Copies(i)
<1>1. CASE BeginRetry(i)
  <2>. DEFINE todo == {c \in DOMAIN artifact : artifact[c].status = "failed"
                                               /\ artifact[c].path \notin Markdown}
              f == [NoFrame EXCEPT !.todo = todo]
  <2>1. todo \subseteq Contents
    BY SnapshotType DEF Typed
  <2>2. GoTo(i, "retry", f) /\ pc[i] = "idle" /\ Still /\ UNCHANGED locked
    BY <1>1 DEF BeginRetry, Begin, Still
  <2>. HIDE DEF todo
  <2>3. f \in Frames
    BY <2>1, NoFrameType DEF Frames
  <2>. HIDE DEF f
  <2>4. Moved(i) /\ pc'[i] = "retry"
    BY <2>2, <2>3, Going DEF Typed, Places
  <2>. QED  BY <2>2, <2>4 DEF Rests, Holding, CopyPlaces, FrameOk
<1>2. CASE RetryOne(i)
  <2>1. PICK c \in frame[i].todo :
           LET f == [frame[i] EXCEPT !.todo = @ \ {c}] IN
           \/ GoTo(i, "retry", f)
           \/ Holds(c) /\ GoTo(i, "mark", [f EXCEPT !.c = c, !.copy = artifact[c]])
           \/ Return(i)
    BY <1>2 DEF RetryOne
  <2>2. pc[i] = "retry" /\ Still /\ UNCHANGED locked
    BY <1>2 DEF RetryOne, Still
  <2>. DEFINE f == [frame[i] EXCEPT !.todo = @ \ {c}]
  <2>3. f \in Frames
    BY DEF Typed, Frames
  <2>. HIDE DEF f
  <2>4. CASE GoTo(i, "retry", f) \/ Return(i)
    <3>1. Moved(i) /\ pc'[i] \in {"retry", "idle", "backfill"}
      BY <2>3, <2>4, Going, Ending DEF Typed, Places
    <3>. QED  BY <2>2, <3>1 DEF Rests, Holding, CopyPlaces, FrameOk
  <2>5. CASE Holds(c) /\ GoTo(i, "mark", [f EXCEPT !.c = c, !.copy = artifact[c]])
    <3>1. Moved(i) /\ pc'[i] = "mark" /\ frame'[i].c = c /\ frame'[i].copy = artifact[c]
      BY <2>3, <2>5, Copying
    <3>. QED  BY <2>2, <2>5, <3>1 DEF Copies, CopyPlaces, Holding
  <2>. QED  BY <2>1, <2>4, <2>5 DEF f
<1>. QED  BY <1>1, <1>2

LEMMA BackfillKind ==
    ASSUME Typed, Backfilling
    PROVE  Rests(Indexer) \/ Copies(Indexer)
<1>0. Indexer \in Callers
  BY ArtifactAssumption DEF ArtifactAssumption
<1>. USE <1>0
<1>1. ToNormalize \subseteq Contents /\ ToRecognize \subseteq Contents
  BY SnapshotType DEF Typed, ToNormalize, ToRecognize
<1>2. ASSUME NEW f \in Frames, GoTo(Indexer, "backfill", f) \/ Return(Indexer),
             Still, UNCHANGED locked, pc[Indexer] \in {"idle", "backfill"}
      PROVE  Rests(Indexer)
  <2>1. Moved(Indexer) /\ pc'[Indexer] \in {"idle", "backfill", "retry"}
    BY <1>2, Going, Ending DEF Typed, Places
  <2>. QED  BY <1>2, <2>1 DEF Rests, Holding, CopyPlaces, FrameOk
<1>3. CASE BeginBackfill
  <2>1. [NoFrame EXCEPT !.todo = ToNormalize] \in Frames
    BY <1>1, NoFrameType DEF Frames
  <2>2. Still /\ UNCHANGED locked /\ pc[Indexer] = "idle"
        /\ GoTo(Indexer, "backfill", [NoFrame EXCEPT !.todo = ToNormalize])
    BY <1>3 DEF BeginBackfill, Still
  <2>. QED  BY <1>2, <2>1, <2>2
<1>4. CASE BackfillOCR
  <2>1. [NoFrame EXCEPT !.todo = ToRecognize, !.ocr = TRUE] \in Frames
    BY <1>1, NoFrameType DEF Frames
  <2>2. Still /\ UNCHANGED locked /\ pc[Indexer] = "backfill"
        /\ GoTo(Indexer, "backfill", [NoFrame EXCEPT !.todo = ToRecognize, !.ocr = TRUE])
    BY <1>4 DEF BackfillOCR, Still
  <2>. QED  BY <1>2, <2>1, <2>2
<1>5. CASE EndBackfill
  <2>1. Still /\ UNCHANGED locked /\ pc[Indexer] = "backfill" /\ Return(Indexer)
    BY <1>5 DEF EndBackfill, Still
  <2>. QED  BY <1>2, <2>1, NoFrameType
<1>6. CASE BackfillOne
  <2>1. PICK c \in frame[Indexer].todo :
           LET f == [frame[Indexer] EXCEPT !.todo = @ \ {c}] IN
           \/ TakeLock(Indexer, c, f)
           \/ Parseable(c) /\ GoTo(Indexer, "mark", [f EXCEPT !.c = c, !.copy = artifact[c]])
              /\ UNCHANGED locked
           \/ GoTo(Indexer, "backfill", f) /\ UNCHANGED locked
    BY <1>6 DEF BackfillOne
  <2>2. pc[Indexer] = "backfill" /\ Still
    BY <1>6 DEF BackfillOne, Still
  <2>. DEFINE f == [frame[Indexer] EXCEPT !.todo = @ \ {c}]
  <2>3. f \in Frames
    BY DEF Typed, Frames
  <2>. HIDE DEF f
  <2>4. CASE TakeLock(Indexer, c, f)
    BY <2>2, <2>3, <2>4, LockTaken DEF CopyPlaces, Holding
  <2>5. CASE Parseable(c) /\ GoTo(Indexer, "mark", [f EXCEPT !.c = c, !.copy = artifact[c]])
             /\ UNCHANGED locked
    <3>1. Holds(c)
      BY <2>5 DEF Parseable
    <3>2. Moved(Indexer) /\ pc'[Indexer] = "mark" /\ frame'[Indexer].c = c
          /\ frame'[Indexer].copy = artifact[c]
      BY <2>3, <2>5, <3>1, Copying
    <3>. QED  BY <2>2, <2>5, <3>1, <3>2 DEF Copies, CopyPlaces, Holding
  <2>6. CASE GoTo(Indexer, "backfill", f) /\ UNCHANGED locked
    BY <1>2, <2>2, <2>3, <2>6
  <2>. QED  BY <2>1, <2>4, <2>5, <2>6 DEF f
<1>. QED  BY <1>3, <1>4, <1>5, <1>6 DEF Backfilling

LEMMA WriteKind ==
    ASSUME Typed, FramesOk, NEW i \in Callers,
           PublishNormalized(i) \/ MarkParsing(i) \/ PublishParsed(i) \/ PublishFailed(i)
    PROVE  WritesBack(i)
<1>. DEFINE c == frame[i].c  copy == frame[i].copy
<1>1. pc[i] \in {"normalized", "mark", "remote", "failed"}
      /\ UNCHANGED <<disk, restored, stale, cut, local, source, locked>>
  BY DEF PublishNormalized, MarkParsing, PublishParsed, PublishFailed
<1>2. copy \in Records /\ frame[i] \in Frames
  BY <1>1 DEF FramesOk, FrameOk, CopyPlaces, Typed
<1>. DEFINE n == [copy EXCEPT !.status = "parsed", !.normalized = TRUE]
            kept == [n EXCEPT !.supplement = copy.path \notin Markdown]
            plain == [n EXCEPT !.text = "local", !.parser = "local"]
            marked == [copy EXCEPT !.status = "parsing", !.parser = "cloud"]
            parsed == [copy EXCEPT !.status = "parsed", !.parser = "cloud", !.text = "cloud",
                         !.error = FALSE, !.supplement = @ \/ copy.normalized]
            failed == [copy EXCEPT !.status = StatusAfterFailure(copy), !.error = TRUE,
                         !.parser = IF copy.status = "parsed" THEN @ ELSE "cloud"]
\* What every write is of.
<1>. DEFINE Ok(r) == /\ r \in Records /\ Upsert(c, r) /\ r.status # "stale"
                     /\ r.normalized => copy.normalized \/ pc[i] = "normalized"
                     /\ copy.text = "cloud" /\ copy.status = "parsed" => r.text = "cloud"
<1>3. ASSUME NEW place \in {"offerNormalized", "remote", "offerParsed"}, GoTo(i, place, frame[i])
      PROVE  Moved(i) /\ pc'[i] = place /\ frame'[i] = frame[i]
  <2>1. place \in Places
    BY DEF Places, CopyPlaces
  <2>. QED  BY <1>2, <1>3, <2>1, Going DEF Typed
<1>4. CASE PublishNormalized(i)
  <2>1. pc[i] = "normalized" /\ GoTo(i, "offerNormalized", frame[i])
        /\ Upsert(c, IF Keeps(copy) THEN kept ELSE plain)
    BY <1>4 DEF PublishNormalized
  <2>2. n \in Records /\ n.status = "parsed" /\ n.text = copy.text
    BY <1>2 DEF Records
  <2>3. kept \in Records /\ kept.status = "parsed" /\ kept.text = copy.text
    BY <2>2 DEF Records
  <2>4. plain \in Records /\ plain.status = "parsed"
    BY <2>2 DEF Records
  <2>. HIDE DEF n, kept, plain
  <2>5. Ok(kept) \/ Ok(plain)
    BY <2>1, <2>3, <2>4 DEF Keeps
  <2>. HIDE DEF Ok
  <2>6. \E r \in Records : Ok(r)
    BY <2>3, <2>4, <2>5
  <2>. QED  BY <1>1, <1>3, <2>1, <2>6 DEF WritesBack, Ok
<1>5. CASE MarkParsing(i)
  <2>1. GoTo(i, "remote", frame[i]) /\ Upsert(c, marked)
    BY <1>5 DEF MarkParsing
  <2>2. marked \in Records /\ marked.status = "parsing" /\ marked.text = copy.text
        /\ marked.normalized = copy.normalized
    BY <1>2 DEF Records
  <2>. HIDE DEF marked
  <2>3. Ok(marked)
    BY <2>1, <2>2
  <2>. HIDE DEF Ok
  <2>. QED  BY <1>1, <1>3, <2>1, <2>2, <2>3 DEF WritesBack, Ok
<1>6. CASE PublishParsed(i)
  <2>1. GoTo(i, "offerParsed", frame[i]) /\ Upsert(c, parsed)
    BY <1>6 DEF PublishParsed
  <2>2. parsed \in Records /\ parsed.status = "parsed" /\ parsed.text = "cloud"
        /\ parsed.normalized = copy.normalized
    BY <1>2 DEF Records
  <2>. HIDE DEF parsed
  <2>3. Ok(parsed)
    BY <2>1, <2>2
  <2>. HIDE DEF Ok
  <2>. QED  BY <1>1, <1>3, <2>1, <2>2, <2>3 DEF WritesBack, Ok
<1>7. CASE PublishFailed(i)
  <2>1. EndFailed(i) /\ Upsert(c, failed)
    BY <1>7 DEF PublishFailed
  <2>2. StatusAfterFailure(copy) \in {"parsed", "failed"}
    BY DEF StatusAfterFailure
  <2>3. failed \in Records /\ failed.status # "stale" /\ failed.text = copy.text
        /\ failed.normalized = copy.normalized
    BY <1>2, <2>2 DEF Records
  <2>. HIDE DEF failed
  <2>4. Ok(failed)
    BY <2>1, <2>3
  <2>5. Moved(i) /\ pc'[i] \in {"idle", "retry", "backfill"}
    BY <2>1, Ending DEF Typed
  <2>. HIDE DEF Ok
  <2>. QED  BY <1>1, <2>5, <2>3, <2>4 DEF WritesBack, Ok
<1>. QED  BY <1>4, <1>5, <1>6, <1>7

LEMMA FallKind ==
    ASSUME Typed, NEW i \in Callers, ParseFails(i)
    PROVE  Falls(i)
<1>1. GoTo(i, "failed", frame[i]) /\ Still /\ UNCHANGED locked /\ pc[i] \in {"remote", "offerParsed"}
  BY DEF ParseFails, Still
<1>2. Moved(i) /\ pc'[i] = "failed" /\ frame'[i] = frame[i]
  BY <1>1, Going DEF Typed, Places, CopyPlaces
<1>. QED  BY <1>1, <1>2 DEF Falls

\* What the steps with a lock do to the frame and the files.
LEMMA LockSteps ==
    ASSUME Typed, FramesOk, NEW i \in Callers, MoveAway(i) \/ MoveIn(i) \/ Unlock(i)
    PROVE  /\ Moved(i) /\ frame'[i].c = frame[i].c /\ frame'[i].copy = frame[i].copy
           /\ UNCHANGED <<artifact, torn, disk, restored, stale, cut, source>>
           /\ frame[i].c \in Contents /\ local' \in [Contents -> Outputs]
           /\ \A x \in Contents \ {frame[i].c} : local'[x] = local[x]
           /\ \/ /\ MoveAway(i) /\ pc[i] = "extract" /\ pc'[i] = "replace" /\ UNCHANGED locked
                 /\ frame'[i].backup = local[frame[i].c].there /\ OnDisk(frame[i].c)
              \/ /\ MoveIn(i) /\ pc[i] = "replace" /\ pc'[i] = "unlock" /\ UNCHANGED locked
                 /\ local'[frame[i].c].there
              \/ /\ Unlock(i) /\ pc[i] = "unlock" /\ pc'[i] = "normalized" /\ UNCHANGED local
                 /\ locked' = locked \ {frame[i].c}
<1>. DEFINE c == frame[i].c
<1>1. pc[i] \in Holding
      /\ UNCHANGED <<artifact, torn, disk, restored, stale, cut, source>>
  BY DEF MoveAway, MoveIn, Unlock, Holding
<1>2. c \in DOMAIN artifact /\ c \in Contents /\ frame[i] \in Frames
  BY <1>1, SnapshotType DEF FramesOk, FrameOk, CopyPlaces, Typed
<1>3. local[c] \in Outputs
  BY <1>2 DEF Typed
<1>4. CASE MoveAway(i)
  <2>. DEFINE f == [frame[i] EXCEPT !.backup = local[frame[i].c].there]
              out == [local[c] EXCEPT !.there = FALSE]
  <2>1. f \in Frames /\ f.c = c /\ f.copy = frame[i].copy /\ f.backup = local[c].there
    BY <1>2, <1>3 DEF Frames, Outputs
  <2>2. GoTo(i, "replace", f) /\ pc[i] = "extract" /\ StillHolds(i) /\ UNCHANGED locked
        /\ local' = [local EXCEPT ![c] = out]
    BY <1>4 DEF MoveAway
  <2>3. out \in Outputs
    BY <1>3 DEF Outputs
  <2>. HIDE DEF f, out
  <2>4. Moved(i) /\ pc'[i] = "replace" /\ frame'[i] = f
    BY <2>1, <2>2, Going DEF Typed, Places, CopyPlaces, Holding
  <2>5. OnDisk(c)
    <3>1. frame[i].copy.path \in PathSet
      BY <1>1 DEF FramesOk, FrameOk, CopyPlaces, Records
    <3>. QED  BY <2>2, <3>1 DEF StillHolds, OnDisk
  <2>6. local' \in [Contents -> Outputs] /\ \A x \in Contents \ {c} : local'[x] = local[x]
    BY <2>2, <2>3 DEF Typed
  <2>. QED  BY <1>1, <1>2, <1>4, <2>1, <2>2, <2>4, <2>5, <2>6
<1>5. CASE MoveIn(i)
  <2>. DEFINE out == [there |-> TRUE, version |-> local[c].version + 1]
  <2>1. GoTo(i, "unlock", frame[i]) /\ pc[i] = "replace" /\ UNCHANGED locked
        /\ local' = [local EXCEPT ![c] = out]
    BY <1>5 DEF MoveIn
  <2>2. out \in Outputs /\ out.there
    BY <1>3 DEF Outputs
  <2>. HIDE DEF out
  <2>3. Moved(i) /\ pc'[i] = "unlock" /\ frame'[i] = frame[i]
    BY <1>2, <2>1, Going DEF Typed, Places, CopyPlaces, Holding
  <2>4. local' \in [Contents -> Outputs] /\ local'[c] = out
        /\ \A x \in Contents \ {c} : local'[x] = local[x]
    BY <1>2, <2>1, <2>2 DEF Typed
  <2>. QED  BY <1>1, <1>2, <1>5, <2>1, <2>2, <2>3, <2>4
<1>6. CASE Unlock(i)
  <2>1. GoTo(i, "normalized", frame[i]) /\ pc[i] = "unlock" /\ UNCHANGED local
        /\ locked' = locked \ {c}
    BY <1>6 DEF Unlock
  <2>2. Moved(i) /\ pc'[i] = "normalized" /\ frame'[i] = frame[i]
    BY <1>2, <2>1, Going DEF Typed, Places, CopyPlaces, Holding
  <2>. QED  BY <1>1, <1>2, <1>6, <2>1, <2>2 DEF Typed
<1>. QED  BY <1>4, <1>5, <1>6

\* What a failed normalization does to them.
LEMMA NormalizeFailsFacts ==
    ASSUME Typed, FramesOk, NEW i \in Callers, NormalizeFails(i)
    PROVE  /\ Moved(i) /\ pc[i] \in {"extract", "replace"} /\ pc'[i] \in {"idle", "retry", "backfill"}
           /\ UNCHANGED <<artifact, disk, restored, stale, cut, source>>
           /\ frame[i].c \in Contents /\ local' \in [Contents -> Outputs]
           /\ \A x \in Contents \ {frame[i].c} : local'[x] = local[x]
           /\ pc[i] = "extract" => local' = local /\ torn' = torn
           /\ pc[i] = "replace" => /\ local'[frame[i].c].there = frame[i].backup
                                   /\ torn' = torn \cup {frame[i].c}
           /\ locked' = locked \ {frame[i].c}
<1>. DEFINE c == frame[i].c
            out == [local[c] EXCEPT !.there = frame[i].backup]
<1>1. pc[i] \in {"extract", "replace"} /\ Throw(i) /\ locked' = locked \ {c}
      /\ UNCHANGED <<artifact, disk, restored, stale, cut, source>>
      /\ torn' = (IF pc[i] = "replace" THEN torn \cup {c} ELSE torn)
      /\ local' = RollBack(i)
  BY DEF NormalizeFails
<1>2. c \in DOMAIN artifact /\ c \in Contents /\ frame[i] \in Frames
  BY <1>1, SnapshotType DEF FramesOk, FrameOk, CopyPlaces, Holding, Typed
<1>3. out \in Outputs /\ out.there = frame[i].backup
  BY <1>2 DEF Typed, Outputs, Frames
<1>4. Moved(i) /\ pc'[i] \in {"idle", "retry", "backfill"}
  BY <1>1, Ending DEF Typed
<1>5. local' = IF pc[i] = "replace" THEN [local EXCEPT ![c] = out] ELSE local
  BY <1>1 DEF RollBack
<1>. HIDE DEF out
<1>6. local' \in [Contents -> Outputs] /\ \A x \in Contents \ {c} : local'[x] = local[x]
      /\ pc[i] = "replace" => local'[c] = out
  BY <1>2, <1>3, <1>5 DEF Typed
<1>. QED  BY <1>1, <1>2, <1>3, <1>4, <1>5, <1>6

LEMMA StalePriorFacts ==
    ASSUME Typed, FramesOk, NEW i \in Callers, StalePrior(i)
    PROVE  \E c \in Contents, r \in Records :
              /\ Upsert(c, r) /\ r.status = "stale"
              /\ c \in DOMAIN frame[i].current /\ r.normalized = frame[i].current[c].normalized
              /\ Moved(i) /\ pc[i] = "cascade" /\ pc'[i] = "cascade"
              /\ frame[i].dependents = {}
              /\ frame'[i].c = c /\ frame'[i].dependents = Dependents(c)
              /\ frame'[i].current = frame[i].current /\ frame'[i].n = frame[i].n
              /\ frame'[i].files = frame[i].files /\ frame'[i].priors \subseteq frame[i].priors
              /\ restored' = (IF OnDisk(c) THEN restored \cup {c} ELSE restored \ {c})
              /\ UNCHANGED <<local, source, locked, disk, stale, cut>>
<1>1. PICK c \in frame[i].priors :
         /\ Upsert(c, [frame[i].current[c] EXCEPT !.status = "stale"])
         /\ GoTo(i, "cascade", [frame[i] EXCEPT !.priors = @ \ {c}, !.dependents = Dependents(c),
                                                !.c = c])
         /\ restored' = (IF OnDisk(c) THEN restored \cup {c} ELSE restored \ {c})
  BY DEF StalePrior
<1>. DEFINE r == [frame[i].current[c] EXCEPT !.status = "stale"]
            f == [frame[i] EXCEPT !.priors = @ \ {c}, !.dependents = Dependents(c), !.c = c]
<1>2. /\ pc[i] = "cascade" /\ frame[i].dependents = {} /\ frame[i] \in Frames
      /\ UNCHANGED <<local, source, locked, disk, stale, cut>>
  BY DEF StalePrior, Typed
<1>3. c \in DOMAIN frame[i].current /\ frame[i].current \in Snapshots
  BY <1>2 DEF FramesOk, FrameOk, Frames
<1>4. c \in Contents /\ frame[i].current[c] \in Records
  BY <1>3, SnapshotType
<1>5. r \in Records /\ r.status = "stale" /\ r.normalized = frame[i].current[c].normalized
  BY <1>4 DEF Records
<1>. HIDE DEF r
<1>6. Dependents(c) \subseteq Evidence \cup Derived
  BY DEF Dependents
<1>7. /\ f \in Frames /\ f.c = c /\ f.dependents = Dependents(c) /\ f.current = frame[i].current
      /\ f.n = frame[i].n /\ f.files = frame[i].files /\ f.priors \subseteq frame[i].priors
  BY <1>2, <1>4, <1>6 DEF Frames
<1>8. GoTo(i, "cascade", f)
  BY <1>1
<1>. HIDE DEF f
<1>9. Moved(i) /\ pc'[i] = "cascade" /\ frame'[i] = f
  BY <1>7, <1>8, Going DEF Typed, Places
<1>10. Upsert(c, r)
  BY <1>1 DEF r
<1>. QED  BY <1>1, <1>2, <1>3, <1>4, <1>5, <1>7, <1>9, <1>10

LEMMA StaleDependentFacts ==
    ASSUME Typed, NEW i \in Callers, StaleDependent(i)
    PROVE  \E x \in frame[i].dependents :
              /\ x \in Derived => frame[i].dependents \cap Evidence = {}
              /\ stale' = stale \cup {x}
              /\ Moved(i) /\ pc[i] = "cascade" /\ pc'[i] = "cascade"
              /\ frame'[i].dependents = frame[i].dependents \ {x} /\ frame'[i].c = frame[i].c
              /\ frame'[i].current = frame[i].current /\ frame'[i].n = frame[i].n
              /\ frame'[i].files = frame[i].files /\ frame'[i].priors = frame[i].priors
              /\ UNCHANGED <<artifact, torn, disk, restored, cut, local, source, locked>>
<1>1. PICK x \in frame[i].dependents :
         /\ x \in Derived => frame[i].dependents \cap Evidence = {}
         /\ stale' = stale \cup {x}
         /\ GoTo(i, "cascade", [frame[i] EXCEPT !.dependents = @ \ {x}])
  BY DEF StaleDependent
<1>. DEFINE f == [frame[i] EXCEPT !.dependents = @ \ {x}]
<1>2. /\ f \in Frames /\ f.dependents = frame[i].dependents \ {x} /\ f.c = frame[i].c
      /\ f.current = frame[i].current /\ f.n = frame[i].n /\ f.files = frame[i].files
      /\ f.priors = frame[i].priors
  BY DEF Typed, Frames
<1>3. GoTo(i, "cascade", f)
  BY <1>1
<1>. HIDE DEF f
<1>4. Moved(i) /\ pc'[i] = "cascade" /\ frame'[i] = f
  BY <1>2, <1>3, Going DEF Typed, Places
<1>5. pc[i] = "cascade" /\ UNCHANGED <<artifact, torn, disk, restored, cut, local, source, locked>>
  BY DEF StaleDependent
<1>. QED  BY <1>1, <1>2, <1>4, <1>5

LEMMA RegisterFacts ==
    ASSUME Typed, FramesOk, NEW i \in Callers, Register(i)
    PROVE  /\ File(i).c \in Contents
           /\ \E r \in Records : Upsert(File(i).c, r) /\ r.status # "stale" /\ ~r.normalized
           /\ Moved(i) /\ pc[i] \in {"cascade", "register"} /\ pc'[i] = "file"
           /\ pc[i] = "register" => frame[i].c = File(i).c
           /\ frame[i].n \in DOMAIN frame[i].files
           /\ frame[i].dependents = {} /\ frame'[i].dependents = {}
           /\ frame'[i].current = frame[i].current
           /\ UNCHANGED <<local, source, locked, disk, restored, stale, cut>>
<1>1. /\ pc[i] \in {"cascade", "register"} /\ frame[i] \in Frames /\ frame[i].n \in Nat
      /\ UNCHANGED <<local, source, locked, disk, restored, stale, cut>>
  BY DEF Register, Cleared, Typed, Frames
<1>. DEFINE file == File(i)
            r == NewRecord(file.path)
            f == [frame[i] EXCEPT !.n = @ + 1, !.c = NoCall, !.text = NoFile]
<1>2. /\ frame[i].n \in DOMAIN frame[i].files /\ file.c \in Contents
      /\ frame[i].dependents = {}
      /\ pc[i] = "register" => frame[i].c = file.c
  <2>1. CASE pc[i] = "register"
    BY <2>1 DEF FramesOk, FrameOk, File
  <2>2. CASE pc[i] = "cascade"
    BY <2>2 DEF FramesOk, FrameOk, File, Register, Cleared
  <2>. QED  BY <1>1, <2>1, <2>2
<1>3. file.path \in PathSet
  <2>1. frame[i].files \in [DOMAIN Paths -> FileSlots]
    BY <1>1, <1>2 DEF Frames
  <2>. QED  BY <1>2, <2>1 DEF File, FileSlots
<1>4. Upsert(file.c, r) /\ GoTo(i, "file", f)
  BY DEF Register
<1>5. r \in Records /\ r.status # "stale" /\ ~r.normalized
  BY <1>3 DEF NewRecord, Records
<1>6. f \in Frames /\ f.dependents = frame[i].dependents /\ f.current = frame[i].current
  <2>. DEFINE m == frame[i].n + 1
  <2>1. m \in Nat
    BY <1>1
  <2>. HIDE DEF m
  <2>2. f = [frame[i] EXCEPT !.n = m, !.c = NoCall, !.text = NoFile]
    BY DEF m
  <2>. HIDE DEF f
  <2>. QED  BY <1>1, <2>1, <2>2 DEF Frames
<1>. HIDE DEF f, r
<1>7. Moved(i) /\ pc'[i] = "file" /\ frame'[i] = f
  BY <1>4, <1>6, Going DEF Typed, Places
<1>. QED  BY <1>1, <1>2, <1>4, <1>5, <1>6, <1>7

LEMMA CrashFacts ==
    ASSUME Typed, NEW i \in Callers, Crash(i)
    PROVE  /\ Moved(i) /\ pc'[i] \in {"idle", "retry", "backfill"}
           /\ UNCHANGED <<disk, restored, artifact, local, source, locked, stale>>
           /\ cut' = IF pc[i] = "cascade" THEN cut \cup ({frame[i].c} \ {NoCall}) ELSE cut
           /\ torn' = IF pc[i] \in Touching THEN torn \cup {frame[i].c} ELSE torn
BY Ending DEF Crash, Typed

LEMMA EditFacts ==
    ASSUME Typed, NEW p \in PathSet, Edit(p)
    PROVE  /\ UNCHANGED <<artifact, local, source, locked, stale, pc, frame, cut, torn>>
           /\ disk' \in [PathSet -> Contents \cup {NoFile}]
           /\ restored \subseteq restored'
           /\ \A x : OnDisk(x)' => OnDisk(x) \/ x \in restored'
<1>1. PICK c \in (Contents \cup {NoFile}) \ {disk[p]} :
         disk' = [disk EXCEPT ![p] = c] /\ restored' = restored \cup {c}
  BY DEF Edit
<1>2. UNCHANGED <<artifact, local, source, locked, stale, pc, frame, cut, torn>>
  BY DEF Edit
<1>3. disk' \in [PathSet -> Contents \cup {NoFile}]
      /\ \A q \in PathSet : disk'[q] = c \/ disk'[q] = disk[q]
  BY <1>1 DEF Typed
<1>. QED  BY <1>1, <1>2, <1>3 DEF OnDisk

\* The steps of the lifecycle.
LEMMA Kinds ==
    ASSUME Typed, FramesOk, LifecycleNext
    PROVE  \/ \E i \in Callers :
                \/ Rests(i) \/ Copies(i) \/ WritesBack(i) \/ Falls(i) \/ Puts(i)
                \/ StalePrior(i) \/ StaleDependent(i) \/ Register(i)
                \/ MoveAway(i) \/ MoveIn(i) \/ Unlock(i) \/ NormalizeFails(i) \/ Crash(i)
           \/ \E p \in PathSet : Edit(p)
           \/ Still /\ UNCHANGED <<locked, pc, frame>>
<1>1. CASE Backfilling
  <2>1. Indexer \in Callers
    BY ArtifactAssumption DEF ArtifactAssumption
  <2>. QED  BY <1>1, <2>1, BackfillKind
<1>2. CASE RetryTimePasses
  BY <1>2 DEF RetryTimePasses, Still
<1>3. CASE \E p \in PathSet : Edit(p)
  BY <1>3
<1>4. ASSUME NEW i \in Callers,
             Working(i) \/ BeginIngest(i) \/ BeginNormalize(i) \/ BeginParse(i) \/ BeginRetry(i)
             \/ Crash(i)
      PROVE  \/ Rests(i) \/ Copies(i) \/ WritesBack(i) \/ Falls(i) \/ Puts(i)
             \/ StalePrior(i) \/ StaleDependent(i) \/ Register(i)
             \/ MoveAway(i) \/ MoveIn(i) \/ Unlock(i) \/ NormalizeFails(i) \/ Crash(i)
  BY <1>4, BeginIngestKind, ReadCurrentKind, ReadFileKind, MarkdownKinds, EndKind, BeginCopyKind, RetryKind,
     WriteKind, FallKind DEF Working
<1>. QED  BY <1>1, <1>2, <1>3, <1>4 DEF LifecycleNext

-----------------------------------------------------------------------------
(* Types, and what is in the frames *)

LEMMA OthersOk ==
    ASSUME FramesOk, NEW i \in Callers, Moved(i), DOMAIN artifact \subseteq DOMAIN artifact',
           FrameOk(pc[i], frame[i])'
    PROVE  FramesOk'
<1>1. ASSUME NEW j \in Callers \ {i} PROVE FrameOk(pc[j], frame[j])'
  <2>1. FrameOk(pc[j], frame[j]) /\ pc'[j] = pc[j] /\ frame'[j] = frame[j]
    BY DEF FramesOk, Moved
  <2>. QED  BY <2>1 DEF FrameOk
<1>. QED  BY <1>1 DEF FramesOk

LEMMA TypedStep ==
    ASSUME Typed, FramesOk, LifecycleNext
    PROVE  Typed' /\ FramesOk' /\ DOMAIN artifact \subseteq DOMAIN artifact'
<1>1. ASSUME NEW i \in Callers, Rests(i)
      PROVE  Typed' /\ FramesOk' /\ DOMAIN artifact \subseteq DOMAIN artifact'
  <2>1. Typed' /\ artifact' = artifact
    BY <1>1 DEF Rests, Moved, Still, Typed
  <2>2. FrameOk(pc[i], frame[i])'
    BY <1>1, <2>1 DEF Rests, FrameOk
  <2>. QED  BY <1>1, <2>1, <2>2, OthersOk DEF Rests
<1>2. ASSUME NEW i \in Callers, Copies(i)
      PROVE  Typed' /\ FramesOk' /\ DOMAIN artifact \subseteq DOMAIN artifact'
  <2>1. artifact' = artifact /\ Moved(i)
    BY <1>2 DEF Copies, Still
  <2>2. frame'[i].c \in DOMAIN artifact /\ frame'[i].c \in Contents
        /\ artifact[frame'[i].c] \in Records
    BY <1>2, SnapshotType DEF Copies, Holds, Typed
  <2>3. Typed'
    BY <1>2, <2>1, <2>2 DEF Copies, Moved, Still, Typed
  <2>4. FrameOk(pc[i], frame[i])'
    BY <1>2, <2>1, <2>2 DEF Copies, FrameOk
  <2>. QED  BY <2>1, <2>3, <2>4, OthersOk
<1>3. ASSUME NEW i \in Callers, WritesBack(i)
      PROVE  Typed' /\ FramesOk' /\ DOMAIN artifact \subseteq DOMAIN artifact'
  <2>1. PICK r \in Records : Upsert(frame[i].c, r)
    BY <1>3 DEF WritesBack
  <2>2. frame[i].c \in DOMAIN artifact /\ frame[i].copy \in Records /\ frame[i].c \in Contents
    BY <1>3, SnapshotType DEF WritesBack, FramesOk, FrameOk, CopyPlaces, Typed
  <2>3. artifact' \in Snapshots /\ DOMAIN artifact' = DOMAIN artifact
    <3>1. artifact' \in Snapshots /\ DOMAIN artifact' = DOMAIN artifact \cup {frame[i].c}
      BY <2>1, <2>2, UpsertFacts DEF Typed
    <3>. QED  BY <2>2, <3>1
  <2>4. Typed' /\ Moved(i)
    BY <1>3, <2>3 DEF WritesBack, Moved, Typed
  <2>5. FrameOk(pc[i], frame[i])'
    BY <1>3, <2>2, <2>3 DEF WritesBack, FrameOk, CopyPlaces, Holding
  <2>. QED  BY <2>3, <2>4, <2>5, OthersOk
<1>4. ASSUME NEW i \in Callers, Falls(i)
      PROVE  Typed' /\ FramesOk' /\ DOMAIN artifact \subseteq DOMAIN artifact'
  <2>1. Typed' /\ artifact' = artifact /\ Moved(i)
    BY <1>4 DEF Falls, Moved, Still, Typed
  <2>2. FrameOk(pc[i], frame[i]) /\ pc[i] \in CopyPlaces
    BY <1>4 DEF FramesOk, Falls, CopyPlaces
  <2>3. FrameOk(pc[i], frame[i])'
    BY <1>4, <2>1, <2>2 DEF Falls, FrameOk
  <2>. QED  BY <2>1, <2>3, OthersOk
<1>5. ASSUME NEW i \in Callers, StalePrior(i)
      PROVE  Typed' /\ FramesOk' /\ DOMAIN artifact \subseteq DOMAIN artifact'
  <2>1. PICK c \in Contents, r \in Records :
              /\ Upsert(c, r)
              /\ Moved(i) /\ pc[i] = "cascade" /\ pc'[i] = "cascade"
              /\ frame'[i].c = c /\ frame'[i].current = frame[i].current
              /\ frame'[i].n = frame[i].n /\ frame'[i].files = frame[i].files
              /\ frame'[i].priors \subseteq frame[i].priors
              /\ UNCHANGED <<local, source, locked, disk, stale, cut>>
    BY <1>5, StalePriorFacts
  <2>2. artifact' \in Snapshots /\ DOMAIN artifact \subseteq DOMAIN artifact'
    BY <2>1, UpsertFacts DEF Typed
  <2>3. Typed'
    BY <2>1, <2>2 DEF Moved, Typed
  <2>4. FrameOk(pc[i], frame[i])
    BY DEF FramesOk
  <2>5. FrameOk(pc[i], frame[i])'
    BY <2>1, <2>4 DEF FrameOk, CopyPlaces, Holding
  <2>. QED  BY <2>1, <2>2, <2>3, <2>5, OthersOk
<1>6. ASSUME NEW i \in Callers, StaleDependent(i)
      PROVE  Typed' /\ FramesOk' /\ DOMAIN artifact \subseteq DOMAIN artifact'
  <2>1. PICK x \in frame[i].dependents :
              /\ Moved(i) /\ pc[i] = "cascade" /\ pc'[i] = "cascade"
              /\ frame'[i].dependents = frame[i].dependents \ {x} /\ frame'[i].c = frame[i].c
              /\ frame'[i].current = frame[i].current /\ frame'[i].n = frame[i].n
              /\ frame'[i].files = frame[i].files /\ frame'[i].priors = frame[i].priors
              /\ UNCHANGED <<artifact, torn, disk, restored, cut, local, source, locked>>
    BY <1>6, StaleDependentFacts
  <2>2. Typed'
    BY <2>1 DEF Moved, Typed
  <2>3. FrameOk(pc[i], frame[i])
    BY DEF FramesOk
  <2>4. FrameOk(pc[i], frame[i])'
    BY <2>1, <2>3 DEF FrameOk, CopyPlaces, Holding
  <2>. QED  BY <2>1, <2>2, <2>4, OthersOk
<1>7. ASSUME NEW i \in Callers, Register(i)
      PROVE  Typed' /\ FramesOk' /\ DOMAIN artifact \subseteq DOMAIN artifact'
  <2>1. /\ File(i).c \in Contents /\ \E r \in Records : Upsert(File(i).c, r)
        /\ Moved(i) /\ pc'[i] = "file" /\ frame'[i].dependents = {}
        /\ UNCHANGED <<local, source, locked, disk, restored, stale, cut>>
    BY <1>7, RegisterFacts
  <2>2. artifact' \in Snapshots /\ DOMAIN artifact \subseteq DOMAIN artifact'
    BY <2>1, UpsertFacts DEF Typed
  <2>3. Typed'
    BY <2>1, <2>2 DEF Moved, Typed
  <2>4. FrameOk(pc[i], frame[i])'
    BY <2>1 DEF FrameOk, CopyPlaces, Holding
  <2>. QED  BY <2>1, <2>2, <2>3, <2>4, OthersOk
<1>8. ASSUME NEW i \in Callers, MoveAway(i) \/ MoveIn(i) \/ Unlock(i)
      PROVE  Typed' /\ FramesOk' /\ DOMAIN artifact \subseteq DOMAIN artifact'
  <2>1. /\ Moved(i) /\ frame'[i].c = frame[i].c /\ frame'[i].copy = frame[i].copy
        /\ UNCHANGED <<artifact, torn, disk, restored, stale, cut, source>>
        /\ local' \in [Contents -> Outputs] /\ pc[i] \in Holding
        /\ pc'[i] \in {"replace", "unlock", "normalized"} /\ locked' \subseteq locked
    BY <1>8, LockSteps DEF Holding
  <2>2. Typed'
    BY <2>1 DEF Moved, Typed
  <2>3. FrameOk(pc[i], frame[i])
    BY DEF FramesOk
  <2>4. FrameOk(pc[i], frame[i])'
    BY <2>1, <2>3 DEF FrameOk, CopyPlaces
  <2>. QED  BY <2>1, <2>2, <2>4, OthersOk
<1>9. ASSUME NEW i \in Callers, NormalizeFails(i) \/ Crash(i)
      PROVE  Typed' /\ FramesOk' /\ DOMAIN artifact \subseteq DOMAIN artifact'
  <2>1. /\ Moved(i) /\ pc'[i] \in {"idle", "retry", "backfill"}
        /\ UNCHANGED <<artifact, disk, source>>
        /\ local' \in [Contents -> Outputs] /\ locked' \subseteq locked
    <3>1. CASE NormalizeFails(i)
      BY <3>1, NormalizeFailsFacts
    <3>2. CASE Crash(i)
      BY <3>2, CrashFacts DEF Typed
    <3>. QED  BY <1>9, <3>1, <3>2
  <2>2. Typed'
    BY <2>1 DEF Moved, Typed
  <2>3. FrameOk(pc[i], frame[i])'
    BY <2>1 DEF FrameOk, CopyPlaces, Holding
  <2>. QED  BY <2>1, <2>2, <2>3, OthersOk
<1>10. ASSUME NEW p \in PathSet, Edit(p)
       PROVE  Typed' /\ FramesOk' /\ DOMAIN artifact \subseteq DOMAIN artifact'
  BY <1>10, EditFacts DEF Typed, FramesOk, FrameOk
<1>11. CASE Still /\ UNCHANGED <<locked, pc, frame>>
  BY <1>11 DEF Still, Typed, FramesOk, FrameOk
<1>12. ASSUME NEW i \in Callers, Puts(i)
       PROVE  Typed' /\ FramesOk' /\ DOMAIN artifact \subseteq DOMAIN artifact'
  <2>1. Typed' /\ artifact' = artifact /\ Moved(i)
    BY <1>12 DEF Puts, Moved, Typed
  <2>2. FrameOk(pc[i], frame[i])
    BY DEF FramesOk
  <2>3. FrameOk(pc[i], frame[i])'
    BY <1>12, <2>1, <2>2 DEF Puts, FrameOk, CopyPlaces, Holding
  <2>. QED  BY <2>1, <2>3, OthersOk
<1>. QED  BY <1>1, <1>2, <1>3, <1>4, <1>5, <1>6, <1>7, <1>8, <1>9, <1>10, <1>11, <1>12, Kinds

-----------------------------------------------------------------------------
(* The locks, and the outputs they protect *)

\* Steps of a caller that do not touch the outputs and leave it without a lock.
HandsOff(i) == Moved(i) /\ pc'[i] \notin Holding /\ UNCHANGED <<local, locked>>

LEMMA HandsOffKinds ==
    ASSUME Typed, FramesOk, NEW i \in Callers,
           \/ Rests(i) \/ WritesBack(i) \/ Falls(i) \/ Puts(i) \/ Crash(i)
           \/ StalePrior(i) \/ StaleDependent(i) \/ Register(i)
    PROVE  HandsOff(i)
<1>1. CASE Rests(i)
  BY <1>1 DEF Rests, Still, HandsOff, CopyPlaces
<1>2. CASE WritesBack(i)
  BY <1>2 DEF WritesBack, HandsOff, Holding
<1>3. CASE Falls(i)
  BY <1>3 DEF Falls, Still, HandsOff, Holding
<1>4. CASE StalePrior(i)
  BY <1>4, StalePriorFacts DEF HandsOff, Holding
<1>5. CASE StaleDependent(i)
  BY <1>5, StaleDependentFacts DEF HandsOff, Holding
<1>6. CASE Register(i)
  BY <1>6, RegisterFacts DEF HandsOff, Holding
<1>7. CASE Crash(i)
  BY <1>7, CrashFacts DEF HandsOff, Holding
<1>8. CASE Puts(i)
  BY <1>8 DEF Puts, HandsOff, Holding
<1>. QED  BY <1>1, <1>2, <1>3, <1>4, <1>5, <1>6, <1>7, <1>8

LEMMA LockStep ==
    ASSUME Typed, FramesOk, LockInv, LifecycleNext
    PROVE  LockInv'
<1>1. ASSUME NEW i \in Callers, HandsOff(i) PROVE LockInv'
  BY <1>1 DEF HandsOff, Moved, LockInv, Holding
<1>2. ASSUME NEW i \in Callers, Copies(i) PROVE LockInv'
  <2>1. Moved(i) /\ UNCHANGED local
    BY <1>2 DEF Copies, Still
  <2>2. CASE pc'[i] = "mark" /\ UNCHANGED locked
    BY <2>1, <2>2, <1>1 DEF HandsOff, Holding
  <2>3. CASE /\ pc'[i] = "extract" /\ frame'[i].c \notin locked
             /\ locked' = locked \cup {frame'[i].c}
    BY <2>1, <2>3 DEF Moved, LockInv, Holding
  <2>. QED  BY <1>2, <2>2, <2>3 DEF Copies
<1>3. ASSUME NEW i \in Callers, MoveAway(i) \/ MoveIn(i) PROVE LockInv'
  <2>1. /\ Moved(i) /\ frame'[i].c = frame[i].c /\ frame[i].c \in Contents
        /\ UNCHANGED locked /\ pc[i] \in Holding
        /\ \A x \in Contents \ {frame[i].c} : local'[x] = local[x]
        /\ \/ pc'[i] = "replace"
           \/ pc'[i] = "unlock" /\ local'[frame[i].c].there
    <3>1. pc[i] \in {"extract", "replace"}
      BY <1>3 DEF MoveAway, MoveIn
    <3>. QED  BY <1>3, <3>1, LockSteps DEF Holding
  <2>2. pc'[i] \in Holding
    BY <2>1 DEF Holding
  <2>3. \A j \in Callers : pc[j] \in Holding => frame[j].c \in Contents
    BY DEF LockInv, Typed
  <2>4. \A j \in Callers : pc'[j] \in Holding => pc[j] \in Holding /\ frame'[j].c = frame[j].c
    BY <2>1 DEF Moved
  <2>5. \A j \in Callers : pc'[j] = "unlock" => local'[frame'[j].c].there
    BY <2>1, <2>3, <2>4 DEF Moved, LockInv, Holding
  <2>. QED  BY <2>1, <2>4, <2>5 DEF LockInv
<1>4. ASSUME NEW i \in Callers, Unlock(i) \/ NormalizeFails(i) PROVE LockInv'
  <2>1. /\ Moved(i) /\ pc'[i] \notin Holding /\ pc[i] \in Holding /\ frame[i].c \in Contents
        /\ locked' = locked \ {frame[i].c}
        /\ \A x \in Contents \ {frame[i].c} : local'[x] = local[x]
    <3>1. CASE Unlock(i)
      <4>1. pc[i] = "unlock"
        BY <3>1 DEF Unlock
      <4>. QED  BY <3>1, <4>1, LockSteps DEF Holding
    <3>2. CASE NormalizeFails(i)
      BY <3>2, NormalizeFailsFacts DEF Holding
    <3>. QED  BY <1>4, <3>1, <3>2
  <2>2. \A j \in Callers : pc'[j] \in Holding =>
           /\ pc[j] \in Holding /\ frame'[j].c = frame[j].c /\ pc'[j] = pc[j]
           /\ frame[j].c # frame[i].c /\ frame[j].c \in locked /\ frame[j].c \in Contents
    BY <2>1 DEF Moved, LockInv, Typed
  <2>. QED  BY <2>1, <2>2 DEF LockInv, Holding
<1>5. ASSUME NEW p \in PathSet, Edit(p) PROVE LockInv'
  BY <1>5, EditFacts DEF LockInv
<1>6. CASE Still /\ UNCHANGED <<locked, pc, frame>>
  BY <1>6 DEF Still, LockInv
<1>. QED  BY <1>1, <1>2, <1>3, <1>4, <1>5, <1>6, Kinds, HandsOffKinds

\* An output that is secured remains so.
LEMMA SecuredStays ==
    ASSUME Typed, FramesOk, LockInv, LifecycleNext, NEW c \in Contents, Secured(c)
    PROVE  Secured(c)'
<1>1. ASSUME NEW i \in Callers, HandsOff(i) PROVE Secured(c)'
  BY <1>1 DEF HandsOff, Moved, Secured, Holding
<1>2. ASSUME NEW i \in Callers, Copies(i) PROVE Secured(c)'
  <2>1. Moved(i) /\ UNCHANGED local
    BY <1>2 DEF Copies, Still
  <2>2. CASE pc'[i] = "mark" /\ UNCHANGED locked
    BY <2>1, <2>2, <1>1 DEF HandsOff, Holding
  <2>3. CASE /\ pc'[i] = "extract" /\ frame'[i].c \notin locked
             /\ locked' = locked \cup {frame'[i].c}
    BY <2>1, <2>3 DEF Moved, Secured
  <2>. QED  BY <1>2, <2>2, <2>3 DEF Copies
<1>3. ASSUME NEW i \in Callers, MoveAway(i) \/ MoveIn(i) PROVE Secured(c)'
  <2>1. /\ Moved(i) /\ frame'[i].c = frame[i].c /\ frame[i].c \in Contents
        /\ UNCHANGED locked /\ pc[i] \in Holding
        /\ \A x \in Contents \ {frame[i].c} : local'[x] = local[x]
        /\ \/ pc'[i] = "replace" /\ pc[i] = "extract" /\ frame'[i].backup = local[frame[i].c].there
           \/ pc'[i] = "unlock"
    <3>1. pc[i] \in {"extract", "replace"}
      BY <1>3 DEF MoveAway, MoveIn
    <3>. QED  BY <1>3, <3>1, LockSteps DEF Holding
  <2>2. CASE c # frame[i].c
    BY <2>1, <2>2 DEF Moved, Secured
  <2>3. CASE c = frame[i].c
    <3>1. c \in locked' /\ \A j \in Callers \ {i} : frame[j].c = c => pc[j] \notin Holding
      BY <2>1, <2>3 DEF LockInv
    <3>2. \A j \in Callers \ {i} : frame'[j].c = c => pc'[j] \notin {"extract", "replace"}
      BY <2>1, <3>1 DEF Moved, Holding
    <3>3. pc'[i] # "extract" /\ (pc'[i] = "replace" => frame'[i].backup)
      BY <2>1, <2>3 DEF Secured
    <3>. QED  BY <3>1, <3>2, <3>3 DEF Secured
  <2>. QED  BY <2>2, <2>3
<1>4. ASSUME NEW i \in Callers, Unlock(i) \/ NormalizeFails(i) PROVE Secured(c)'
  <2>1. /\ Moved(i) /\ pc'[i] \notin Holding /\ pc[i] \in Holding /\ frame[i].c \in Contents
        /\ locked' = locked \ {frame[i].c}
        /\ \A x \in Contents \ {frame[i].c} : local'[x] = local[x]
        /\ pc[i] \in {"unlock", "extract"} => local' = local
        /\ pc[i] = "replace" => local'[frame[i].c].there = frame[i].backup
    <3>1. CASE Unlock(i)
      <4>1. pc[i] = "unlock"
        BY <3>1 DEF Unlock
      <4>. QED  BY <3>1, <4>1, LockSteps DEF Holding
    <3>2. CASE NormalizeFails(i)
      BY <3>2, NormalizeFailsFacts DEF Holding
    <3>. QED  BY <1>4, <3>1, <3>2
  <2>2. CASE c # frame[i].c
    BY <2>1, <2>2 DEF Moved, Secured, Holding
  <2>3. CASE c = frame[i].c
    <3>1. local'[c].there
      BY <2>1, <2>3 DEF Secured, LockInv, Holding
    <3>2. \A j \in Callers : frame'[j].c = c => pc'[j] \notin Holding
      BY <2>1, <2>3 DEF LockInv, Moved
    <3>. QED  BY <3>1, <3>2 DEF Secured, Holding
  <2>. QED  BY <2>2, <2>3
<1>5. ASSUME NEW p \in PathSet, Edit(p) PROVE Secured(c)'
  BY <1>5, EditFacts DEF Secured
<1>6. CASE Still /\ UNCHANGED <<locked, pc, frame>>
  BY <1>6 DEF Still, Secured
<1>. QED  BY <1>1, <1>2, <1>3, <1>4, <1>5, <1>6, Kinds, HandsOffKinds

\* A claim rests on one that was there before, or its output is secured.
LEMMA ClaimStep ==
    ASSUME Typed, FramesOk, LockInv, LifecycleNext, NEW c \in Contents, Claimed(c)'
    PROVE  Claimed(c) \/ Secured(c)'
<1>1. ASSUME NEW i \in Callers, Moved(i), ClaimedBy(i, c)' => Claimed(c),
             c \in DOMAIN artifact' /\ artifact'[c].normalized => Claimed(c)
      PROVE  Claimed(c)
  <2>1. \A j \in Callers \ {i} : ClaimedBy(j, c)' => ClaimedBy(j, c)
    BY <1>1 DEF Moved, ClaimedBy
  <2>. QED  BY <1>1, <2>1 DEF Claimed
<1>2. artifact' = artifact => (c \in DOMAIN artifact' /\ artifact'[c].normalized => Claimed(c))
  BY DEF Claimed
<1>3. ASSUME NEW i \in Callers, Rests(i) PROVE Claimed(c)
  <2>1. artifact' = artifact /\ Moved(i)
    BY <1>3 DEF Rests, Still
  <2>2. ASSUME ClaimedBy(i, c)' PROVE Claimed(c)
    <3>1. /\ pc'[i] \in FilePlaces /\ c \in DOMAIN frame'[i].current
          /\ frame'[i].current[c].normalized
      BY <1>3, <2>2 DEF Rests, ClaimedBy
    <3>2. \/ frame'[i].current = artifact
          \/ pc[i] \in FilePlaces /\ frame'[i].current = frame[i].current
      BY <1>3, <3>1 DEF Rests
    <3>. QED  BY <3>1, <3>2 DEF Claimed, ClaimedBy
  <2>. QED  BY <1>1, <1>2, <2>1, <2>2
<1>4. ASSUME NEW i \in Callers, Copies(i) PROVE Claimed(c)
  <2>1. artifact' = artifact /\ Moved(i)
    BY <1>4 DEF Copies, Still
  <2>2. ASSUME ClaimedBy(i, c)' PROVE Claimed(c)
    BY <1>4, <2>2 DEF Copies, ClaimedBy, Claimed, Holds
  <2>. QED  BY <1>1, <1>2, <2>1, <2>2
<1>5. ASSUME NEW i \in Callers, WritesBack(i) PROVE Claimed(c)
  <2>1. PICK r \in Records :
            /\ Upsert(frame[i].c, r)
            /\ r.normalized => frame[i].copy.normalized \/ pc[i] = "normalized"
    BY <1>5 DEF WritesBack
  <2>2. pc[i] \in CopyPlaces /\ frame[i].c \in Contents /\ Moved(i)
    BY <1>5, SnapshotType DEF WritesBack, CopyPlaces, FramesOk, FrameOk, Typed
  <2>3. /\ DOMAIN artifact' = DOMAIN artifact \cup {frame[i].c}
        /\ \A x \in DOMAIN artifact \ {frame[i].c} : artifact'[x] = artifact[x]
        /\ artifact'[frame[i].c].normalized = r.normalized
    BY <2>1, <2>2, UpsertFacts DEF Typed
  <2>4. c \in DOMAIN artifact' /\ artifact'[c].normalized => Claimed(c)
    BY <2>1, <2>2, <2>3 DEF Claimed, ClaimedBy
  <2>5. ClaimedBy(i, c)' => ClaimedBy(i, c)
    BY <1>5, <2>2 DEF WritesBack, ClaimedBy, CopyPlaces, Holding
  <2>. QED  BY <1>1, <2>2, <2>4, <2>5 DEF Claimed
<1>6. ASSUME NEW i \in Callers, Falls(i) \/ Puts(i) PROVE Claimed(c)
  <2>1. artifact' = artifact /\ Moved(i)
    BY <1>6 DEF Falls, Puts, Still
  <2>2. ClaimedBy(i, c)' => ClaimedBy(i, c)
    BY <1>6 DEF Falls, Puts, ClaimedBy, CopyPlaces, Holding
  <2>. QED  BY <1>1, <1>2, <2>1, <2>2 DEF Claimed
<1>7. ASSUME NEW i \in Callers, StalePrior(i) PROVE Claimed(c)
  <2>1. PICK d \in Contents, r \in Records :
              /\ Upsert(d, r) /\ Moved(i) /\ pc[i] = "cascade" /\ pc'[i] = "cascade"
              /\ d \in DOMAIN frame[i].current /\ r.normalized = frame[i].current[d].normalized
              /\ frame'[i].current = frame[i].current
    BY <1>7, StalePriorFacts
  <2>2. /\ DOMAIN artifact' = DOMAIN artifact \cup {d}
        /\ \A x \in DOMAIN artifact \ {d} : artifact'[x] = artifact[x]
        /\ artifact'[d].normalized = r.normalized
    BY <2>1, UpsertFacts DEF Typed
  <2>3. c \in DOMAIN artifact' /\ artifact'[c].normalized => Claimed(c)
    BY <2>1, <2>2 DEF Claimed, ClaimedBy
  <2>4. ClaimedBy(i, c)' => ClaimedBy(i, c)
    BY <2>1 DEF ClaimedBy, CopyPlaces, Holding
  <2>. QED  BY <1>1, <2>1, <2>3, <2>4 DEF Claimed
<1>8. ASSUME NEW i \in Callers, StaleDependent(i) PROVE Claimed(c)
  <2>1. /\ Moved(i) /\ pc[i] = "cascade" /\ pc'[i] = "cascade"
        /\ frame'[i].current = frame[i].current /\ artifact' = artifact
    BY <1>8, StaleDependentFacts
  <2>2. ClaimedBy(i, c)' => ClaimedBy(i, c)
    BY <2>1 DEF ClaimedBy, CopyPlaces, Holding
  <2>. QED  BY <1>1, <1>2, <2>1, <2>2 DEF Claimed
<1>9. ASSUME NEW i \in Callers, Register(i) PROVE Claimed(c)
  <2>1. /\ Moved(i) /\ pc[i] \in FilePlaces /\ pc'[i] = "file"
        /\ frame'[i].current = frame[i].current /\ File(i).c \in Contents
    BY <1>9, RegisterFacts
  <2>2. PICK r \in Records : Upsert(File(i).c, r) /\ ~r.normalized
    BY <1>9, RegisterFacts
  <2>3. /\ DOMAIN artifact' = DOMAIN artifact \cup {File(i).c}
        /\ \A x \in DOMAIN artifact \ {File(i).c} : artifact'[x] = artifact[x]
        /\ ~artifact'[File(i).c].normalized
    BY <2>1, <2>2, UpsertFacts DEF Typed
  <2>4. c \in DOMAIN artifact' /\ artifact'[c].normalized => Claimed(c)
    BY <2>3 DEF Claimed
  <2>5. ClaimedBy(i, c)' => ClaimedBy(i, c)
    BY <2>1 DEF ClaimedBy, CopyPlaces, Holding
  <2>. QED  BY <1>1, <2>1, <2>4, <2>5 DEF Claimed
<1>10. ASSUME NEW i \in Callers, MoveAway(i) \/ MoveIn(i) PROVE Claimed(c)
  <2>1. pc[i] \in {"extract", "replace"}
    BY <1>10 DEF MoveAway, MoveIn
  <2>2. /\ Moved(i) /\ frame'[i].c = frame[i].c /\ frame'[i].copy = frame[i].copy
        /\ artifact' = artifact /\ pc'[i] \in {"replace", "unlock"}
    BY <1>10, <2>1, LockSteps
  <2>3. ClaimedBy(i, c)' => ClaimedBy(i, c)
    BY <2>1, <2>2 DEF ClaimedBy, CopyPlaces, Holding
  <2>. QED  BY <1>1, <1>2, <2>2, <2>3 DEF Claimed
<1>11. ASSUME NEW i \in Callers, Unlock(i) PROVE Claimed(c) \/ Secured(c)'
  <2>1. pc[i] = "unlock"
    BY <1>11 DEF Unlock
  <2>2. /\ Moved(i) /\ frame'[i].c = frame[i].c /\ pc'[i] = "normalized"
        /\ artifact' = artifact /\ local' = local
    BY <1>11, <2>1, LockSteps
  <2>3. CASE c = frame[i].c
    <3>1. local'[c].there /\ \A j \in Callers \ {i} : frame'[j].c = c => pc'[j] \notin Holding
      BY <2>1, <2>2, <2>3 DEF LockInv, Moved, Holding
    <3>. QED  BY <2>2, <3>1 DEF Secured, Holding
  <2>4. CASE c # frame[i].c
    <3>1. ~ClaimedBy(i, c)'
      BY <2>2, <2>4 DEF ClaimedBy
    <3>. QED  BY <1>1, <1>2, <2>2, <3>1
  <2>. QED  BY <2>3, <2>4
<1>12. ASSUME NEW i \in Callers, NormalizeFails(i) \/ Crash(i) PROVE Claimed(c)
  <2>1. Moved(i) /\ artifact' = artifact /\ pc'[i] \in {"idle", "retry", "backfill"}
    BY <1>12, NormalizeFailsFacts, CrashFacts
  <2>2. ~ClaimedBy(i, c)'
    BY <2>1 DEF ClaimedBy, CopyPlaces, Holding
  <2>. QED  BY <1>1, <1>2, <2>1, <2>2
<1>13. ASSUME NEW p \in PathSet, Edit(p) PROVE Claimed(c)
  BY <1>13, EditFacts DEF Claimed, ClaimedBy
<1>14. CASE Still /\ UNCHANGED <<locked, pc, frame>>
  BY <1>14 DEF Still, Claimed, ClaimedBy
<1>. QED  BY <1>3, <1>4, <1>5, <1>6, <1>7, <1>8, <1>9, <1>10, <1>11, <1>12, <1>13, <1>14, Kinds

LEMMA OutputStep ==
    ASSUME Typed, FramesOk, LockInv, OutputInv, LifecycleNext
    PROVE  OutputInv'
<1>1. ASSUME NEW c \in Contents, Claimed(c)' PROVE Secured(c)'
  BY <1>1, ClaimStep, SecuredStays DEF OutputInv
<1>. QED  BY <1>1 DEF OutputInv

-----------------------------------------------------------------------------
(* Copies of stale records *)

\* Records only get newer, and what has come back is not forgotten meanwhile.
Aged ==
    \A x \in DOMAIN artifact :
        \/ artifact'[x] = artifact[x] /\ (x \in restored => x \in restored')
        \/ artifact'[x].at = artifact[x].at + 1

LEMMA AgedStep ==
    ASSUME Typed, FramesOk, NEW i \in Callers, Moved(i), Aged, RestoredInv, StaleSeen',
           \/ pc'[i] \notin CopyPlaces
           \/ pc[i] \in CopyPlaces /\ frame'[i].c = frame[i].c /\ frame'[i].copy = frame[i].copy
           \/ CopyDated(i)'
    PROVE  RestoredInv'
<1>1. ASSUME NEW j \in Callers, pc[j] \in CopyPlaces, frame'[j].c = frame[j].c,
             frame'[j].copy = frame[j].copy
      PROVE  CopyDated(j)'
  <2>1. frame[j].c \in DOMAIN artifact /\ frame[j].copy \in Records
    BY <1>1 DEF FramesOk, FrameOk
  <2>2. frame[j].copy.at \in Nat /\ artifact[frame[j].c].at \in Nat
    BY <2>1, SnapshotType DEF Typed, Records
  <2>3. CopyDated(j)
    BY DEF RestoredInv
  <2>. QED  BY <1>1, <2>1, <2>2, <2>3 DEF Aged, CopyDated
<1>2. \A j \in Callers \ {i} : CopyDated(j)'
  <2>1. ASSUME NEW j \in Callers \ {i}, pc[j] \in CopyPlaces PROVE CopyDated(j)'
    BY <1>1, <2>1 DEF Moved
  <2>2. ASSUME NEW j \in Callers \ {i}, pc[j] \notin CopyPlaces PROVE CopyDated(j)'
    BY <2>2 DEF Moved, CopyDated
  <2>. QED  BY <2>1, <2>2
<1>3. CopyDated(i)'
  <2>1. CASE pc'[i] \notin CopyPlaces
    BY <2>1 DEF CopyDated
  <2>2. CASE pc[i] \in CopyPlaces /\ frame'[i].c = frame[i].c /\ frame'[i].copy = frame[i].copy
    BY <1>1, <2>2
  <2>. QED  BY <2>1, <2>2
<1>. QED  BY <1>2, <1>3 DEF RestoredInv

LEMMA UpsertAges ==
    ASSUME Typed, NEW c \in Contents, NEW r \in Records, Upsert(c, r),
           \A x \in Contents \ {c} : x \in restored => x \in restored'
    PROVE  Aged
<1>1. /\ \A x \in DOMAIN artifact \ {c} : artifact'[x] = artifact[x]
      /\ c \in DOMAIN artifact => artifact'[c].at = artifact[c].at + 1
  BY UpsertFacts DEF Typed
<1>2. DOMAIN artifact \subseteq Contents
  BY SnapshotType DEF Typed
<1>. QED  BY <1>1, <1>2 DEF Aged

\* A record that is written as not stale.
LEMMA WrittenLive ==
    ASSUME Typed, StaleSeen, NEW c \in Contents, NEW r \in Records, Upsert(c, r),
           r.status # "stale", UNCHANGED <<disk, restored>>
    PROVE  StaleSeen'
<1>1. /\ DOMAIN artifact' = DOMAIN artifact \cup {c}
      /\ \A x \in DOMAIN artifact \ {c} : artifact'[x] = artifact[x]
      /\ artifact'[c].status # "stale"
  BY UpsertFacts DEF Typed
<1>. QED  BY <1>1 DEF StaleSeen, OnDisk

LEMMA RestoredStep ==
    ASSUME Typed, FramesOk, RestoredInv, LifecycleNext
    PROVE  RestoredInv'
<1>. USE DEF RestoredInv
<1>1. ASSUME UNCHANGED <<artifact, disk, restored>> PROVE Aged /\ StaleSeen'
  BY <1>1 DEF Aged, StaleSeen, OnDisk
<1>2. ASSUME NEW i \in Callers,
             Rests(i) \/ StaleDependent(i) \/ NormalizeFails(i) \/ Crash(i) \/ Puts(i)
      PROVE  RestoredInv'
  <2>1. /\ UNCHANGED <<artifact, disk, restored>> /\ Moved(i)
        /\ pc'[i] \notin CopyPlaces
    <3>1. CASE Rests(i)
      BY <3>1 DEF Rests, Still
    <3>2. CASE StaleDependent(i)
      BY <3>2, StaleDependentFacts DEF CopyPlaces, Holding
    <3>3. CASE NormalizeFails(i)
      BY <3>3, NormalizeFailsFacts DEF CopyPlaces, Holding
    <3>4. CASE Crash(i)
      BY <3>4, CrashFacts DEF CopyPlaces, Holding
    <3>5. CASE Puts(i)
      BY <3>5 DEF Puts, CopyPlaces, Holding
    <3>. QED  BY <1>2, <3>1, <3>2, <3>3, <3>4, <3>5
  <2>. QED  BY <1>1, <2>1, AgedStep
<1>3. ASSUME NEW i \in Callers, Falls(i) PROVE RestoredInv'
  <2>1. /\ UNCHANGED <<artifact, disk, restored>> /\ Moved(i) /\ pc[i] \in CopyPlaces
        /\ frame'[i] = frame[i]
    BY <1>3 DEF Falls, Still, CopyPlaces
  <2>. QED  BY <1>1, <2>1, AgedStep
<1>4. ASSUME NEW i \in Callers, MoveAway(i) \/ MoveIn(i) \/ Unlock(i) PROVE RestoredInv'
  <2>1. /\ UNCHANGED <<artifact, disk, restored>> /\ Moved(i) /\ pc[i] \in CopyPlaces
        /\ frame'[i].c = frame[i].c /\ frame'[i].copy = frame[i].copy
    BY <1>4, LockSteps DEF CopyPlaces, Holding
  <2>. QED  BY <1>1, <2>1, AgedStep
<1>5. ASSUME NEW i \in Callers, Copies(i) PROVE RestoredInv'
  <2>1. UNCHANGED <<artifact, disk, restored>> /\ Moved(i)
    BY <1>5 DEF Copies, Still
  <2>2. /\ frame'[i].c \in DOMAIN artifact /\ frame'[i].copy = artifact[frame'[i].c]
        /\ artifact[frame'[i].c] \in Records /\ OnDisk(frame'[i].c)
    <3>1. Holds(frame'[i].c) /\ frame'[i].copy = artifact[frame'[i].c]
      BY <1>5 DEF Copies
    <3>2. artifact[frame'[i].c] \in Records
      BY <3>1, SnapshotType DEF Holds, Typed
    <3>. QED  BY <3>1, <3>2 DEF Holds, OnDisk, Records
  <2>3. CopyDated(i)'
    BY <2>1, <2>2 DEF CopyDated, StaleSeen, Records
  <2>. QED  BY <1>1, <2>1, <2>3, AgedStep
<1>6. ASSUME NEW i \in Callers, WritesBack(i) PROVE RestoredInv'
  <2>1. PICK r \in Records : Upsert(frame[i].c, r) /\ r.status # "stale"
    BY <1>6 DEF WritesBack
  <2>2. /\ frame[i].c \in Contents /\ pc[i] \in CopyPlaces /\ Moved(i)
        /\ UNCHANGED <<disk, restored>>
        /\ pc'[i] \notin CopyPlaces \/ frame'[i] = frame[i]
    BY <1>6, SnapshotType DEF WritesBack, CopyPlaces, Holding, FramesOk, FrameOk, Typed
  <2>3. Aged
    BY <2>1, <2>2, UpsertAges
  <2>4. StaleSeen'
    BY <2>1, <2>2, WrittenLive
  <2>. QED  BY <2>2, <2>3, <2>4, AgedStep
<1>7. ASSUME NEW i \in Callers, Register(i) PROVE RestoredInv'
  <2>1. PICK r \in Records : Upsert(File(i).c, r) /\ r.status # "stale"
    BY <1>7, RegisterFacts
  <2>2. /\ File(i).c \in Contents /\ Moved(i) /\ UNCHANGED <<disk, restored>>
        /\ pc'[i] \notin CopyPlaces
    BY <1>7, RegisterFacts DEF CopyPlaces, Holding
  <2>3. Aged
    BY <2>1, <2>2, UpsertAges
  <2>4. StaleSeen'
    BY <2>1, <2>2, WrittenLive
  <2>. QED  BY <2>2, <2>3, <2>4, AgedStep
<1>8. ASSUME NEW i \in Callers, StalePrior(i) PROVE RestoredInv'
  <2>1. PICK c \in Contents, r \in Records :
            /\ Upsert(c, r) /\ Moved(i) /\ pc'[i] = "cascade"
            /\ restored' = (IF OnDisk(c) THEN restored \cup {c} ELSE restored \ {c})
            /\ UNCHANGED disk
    BY <1>8, StalePriorFacts
  <2>2. Aged
    BY <2>1, UpsertAges
  <2>3. /\ DOMAIN artifact' = DOMAIN artifact \cup {c}
        /\ \A x \in DOMAIN artifact \ {c} : artifact'[x] = artifact[x]
    BY <2>1, UpsertFacts DEF Typed
  <2>4. StaleSeen'
    BY <2>1, <2>3 DEF StaleSeen, OnDisk
  <2>5. pc'[i] \notin CopyPlaces
    BY <2>1 DEF CopyPlaces, Holding
  <2>. QED  BY <2>1, <2>2, <2>4, <2>5, AgedStep
<1>9. ASSUME NEW p \in PathSet, Edit(p) PROVE RestoredInv'
  <2>1. /\ UNCHANGED <<artifact, pc, frame>> /\ restored \subseteq restored'
        /\ \A x : OnDisk(x)' => OnDisk(x) \/ x \in restored'
    BY <1>9, EditFacts
  <2>2. StaleSeen'
    BY <2>1 DEF StaleSeen
  <2>3. \A i \in Callers : CopyDated(i)'
    BY <2>1 DEF CopyDated
  <2>. QED  BY <2>2, <2>3
<1>10. CASE Still /\ UNCHANGED <<locked, pc, frame>>
  BY <1>10 DEF Still, StaleSeen, CopyDated, OnDisk
<1>. QED  BY <1>2, <1>3, <1>4, <1>5, <1>6, <1>7, <1>8, <1>9, <1>10, Kinds

-----------------------------------------------------------------------------
(* Cascades *)

\* Steps that end no cascade before it is through, and add nothing to it.
OffCascade(i) ==
    /\ Moved(i) /\ UNCHANGED <<stale, cut>>
    /\ pc[i] = "cascade" => frame[i].dependents = {}
    /\ pc'[i] = "cascade" => frame'[i].dependents = {}
\* And mark nothing stale.
NoneGoesStale ==
    \A c \in DOMAIN artifact' :
       artifact'[c].status = "stale" => c \in DOMAIN artifact /\ artifact[c].status = "stale"

LEMMA LiveWrite ==
    ASSUME Typed, NEW c \in Contents, NEW r \in Records, Upsert(c, r), r.status # "stale"
    PROVE  NoneGoesStale
<1>1. /\ DOMAIN artifact' = DOMAIN artifact \cup {c}
      /\ \A x \in DOMAIN artifact \ {c} : artifact'[x] = artifact[x]
      /\ artifact'[c].status # "stale"
  BY UpsertFacts DEF Typed
<1>. QED  BY <1>1 DEF NoneGoesStale

LEMMA OffCascadeKinds ==
    ASSUME Typed, FramesOk, NEW i \in Callers,
           \/ Rests(i) \/ Copies(i) \/ WritesBack(i) \/ Falls(i) \/ Puts(i) \/ Register(i)
           \/ MoveAway(i) \/ MoveIn(i) \/ Unlock(i) \/ NormalizeFails(i)
    PROVE  OffCascade(i) /\ NoneGoesStale
<1>1. artifact' = artifact => NoneGoesStale
  BY DEF NoneGoesStale
<1>2. CASE Rests(i)
  BY <1>1, <1>2 DEF Rests, Still, OffCascade
<1>3. CASE Copies(i)
  BY <1>1, <1>3 DEF Copies, Still, OffCascade
<1>4. CASE WritesBack(i)
  <2>1. OffCascade(i)
    BY <1>4 DEF WritesBack, OffCascade
  <2>2. frame[i].c \in Contents
    BY <1>4, SnapshotType DEF WritesBack, CopyPlaces, FramesOk, FrameOk, Typed
  <2>. QED  BY <1>4, <2>1, <2>2, LiveWrite DEF WritesBack
<1>5. CASE Falls(i) \/ Puts(i)
  BY <1>1, <1>5 DEF Falls, Puts, Still, OffCascade
<1>6. CASE Register(i)
  BY <1>6, RegisterFacts, LiveWrite DEF OffCascade
<1>7. CASE MoveAway(i) \/ MoveIn(i) \/ Unlock(i)
  BY <1>1, <1>7, LockSteps DEF OffCascade
<1>8. CASE NormalizeFails(i)
  BY <1>1, <1>8, NormalizeFailsFacts DEF OffCascade
<1>. QED  BY <1>2, <1>3, <1>4, <1>5, <1>6, <1>7, <1>8

LEMMA AwaitedStays ==
    ASSUME Typed, FramesOk, LifecycleNext, NEW c \in Contents, NEW x, Awaited(c, x)
    PROVE  Awaited(c, x)' \/ x \in stale'
<1>1. ASSUME NEW i \in Callers, Moved(i), cut' = cut, pc[i] = "cascade" => frame[i].dependents = {}
      PROVE  Awaited(c, x)'
  BY <1>1 DEF Moved, Awaited
<1>2. ASSUME NEW i \in Callers, OffCascade(i) PROVE Awaited(c, x)'
  BY <1>1, <1>2 DEF OffCascade
<1>3. ASSUME NEW i \in Callers, StalePrior(i) PROVE Awaited(c, x)'
  <2>1. Moved(i) /\ cut' = cut /\ frame[i].dependents = {}
    BY <1>3, StalePriorFacts
  <2>. QED  BY <1>1, <2>1
<1>4. ASSUME NEW i \in Callers, StaleDependent(i) PROVE Awaited(c, x)' \/ x \in stale'
  <2>1. PICK y \in frame[i].dependents :
              /\ stale' = stale \cup {y} /\ Moved(i) /\ pc'[i] = "cascade" /\ cut' = cut
              /\ frame'[i].dependents = frame[i].dependents \ {y} /\ frame'[i].c = frame[i].c
    BY <1>4, StaleDependentFacts
  <2>. QED  BY <2>1 DEF Moved, Awaited
<1>5. ASSUME NEW i \in Callers, Crash(i) PROVE Awaited(c, x)'
  <2>1. Moved(i) /\ cut' = IF pc[i] = "cascade" THEN cut \cup ({frame[i].c} \ {NoCall}) ELSE cut
    BY <1>5, CrashFacts
  <2>2. c # NoCall
    BY ArtifactAssumption DEF ArtifactAssumption
  <2>3. CASE c \in cut \/ (pc[i] = "cascade" /\ frame[i].c = c)
    BY <2>1, <2>2, <2>3 DEF Awaited
  <2>4. CASE \E j \in Callers \ {i} : pc[j] = "cascade" /\ frame[j].c = c /\ x \in frame[j].dependents
    BY <2>1, <2>4 DEF Awaited, Moved
  <2>. QED  BY <2>3, <2>4 DEF Awaited
<1>6. ASSUME NEW p \in PathSet, Edit(p) PROVE Awaited(c, x)'
  BY <1>6, EditFacts DEF Awaited
<1>7. CASE Still /\ UNCHANGED <<locked, pc, frame>>
  BY <1>7 DEF Still, Awaited
<1>. QED  BY <1>2, <1>3, <1>4, <1>5, <1>6, <1>7, Kinds, OffCascadeKinds

\* What is stale remains so, and has fewer dependents.
LEMMA FewerDependents ==
    ASSUME stale \subseteq stale', NEW c, NEW x \in Dependents(c)'
    PROVE  x \in Dependents(c) /\ x \notin stale'
BY DEF Dependents

LEMMA CascadeKept ==
    ASSUME Typed, FramesOk, LifecycleNext, CascadeInv, stale \subseteq stale',
           \A c \in DOMAIN artifact' : artifact'[c].status = "stale" =>
              \/ c \in DOMAIN artifact /\ artifact[c].status = "stale"
              \/ \A x \in Dependents(c)' : Awaited(c, x)',
           \A e \in (stale' \ stale) \cap Evidence, d \in Derived \ stale' :
              e \in RefsOf[d] => Awaited(BehindOf[e], d)',
           \A i \in Callers : CascadeOk(i)'
    PROVE  CascadeInv'
<1>1. ASSUME NEW c \in DOMAIN artifact', artifact'[c].status = "stale", NEW x \in Dependents(c)'
      PROVE  Awaited(c, x)'
  <2>1. CASE c \in DOMAIN artifact /\ artifact[c].status = "stale"
    <3>1. x \in Dependents(c) /\ x \notin stale'
      BY FewerDependents
    <3>2. Awaited(c, x) /\ c \in Contents
      BY <2>1, <3>1, SnapshotType DEF CascadeInv, StaleAwaited, Typed
    <3>. QED  BY <3>1, <3>2, AwaitedStays
  <2>. QED  BY <1>1, <2>1
<1>2. ASSUME NEW e \in stale' \cap Evidence, NEW d \in Derived \ stale', e \in RefsOf[d]
      PROVE  Awaited(BehindOf[e], d)'
  <2>1. CASE e \in stale
    <3>1. Awaited(BehindOf[e], d) /\ BehindOf[e] \in Contents
      BY <1>2, <2>1, ArtifactAssumption DEF CascadeInv, CitingAwaited, ArtifactAssumption
    <3>. QED  BY <3>1, AwaitedStays
  <2>. QED  BY <1>2, <2>1
<1>. QED  BY <1>1, <1>2 DEF CascadeInv, StaleAwaited, CitingAwaited

LEMMA CascadeStep ==
    ASSUME Typed, FramesOk, CascadeInv, LifecycleNext
    PROVE  CascadeInv'
<1>1. ASSUME NEW i \in Callers, Moved(i), stale \subseteq stale', CascadeOk(i)'
      PROVE  \A j \in Callers : CascadeOk(j)'
  <2>1. ASSUME NEW j \in Callers \ {i} PROVE CascadeOk(j)'
    <3>1. CascadeOk(j) /\ pc'[j] = pc[j] /\ frame'[j] = frame[j]
      BY <1>1 DEF CascadeInv, Moved
    <3>. QED  BY <1>1, <3>1 DEF CascadeOk
  <2>. QED  BY <1>1, <2>1
<1>2. ASSUME NEW i \in Callers, OffCascade(i), NoneGoesStale PROVE CascadeInv'
  <2>1. CascadeOk(i)' /\ stale' = stale /\ Moved(i)
    BY <1>2 DEF OffCascade, CascadeOk
  <2>2. \A j \in Callers : CascadeOk(j)'
    BY <1>1, <2>1
  <2>. QED  BY <1>2, <2>1, <2>2, CascadeKept DEF NoneGoesStale
<1>3. ASSUME NEW i \in Callers, StalePrior(i) PROVE CascadeInv'
  <2>1. PICK c \in Contents, r \in Records :
              /\ Upsert(c, r) /\ Moved(i) /\ pc'[i] = "cascade"
              /\ frame'[i].c = c /\ frame'[i].dependents = Dependents(c) /\ UNCHANGED <<stale, cut>>
    BY <1>3, StalePriorFacts
  <2>2. /\ DOMAIN artifact' = DOMAIN artifact \cup {c}
        /\ \A x \in DOMAIN artifact \ {c} : artifact'[x] = artifact[x]
    BY <2>1, UpsertFacts DEF Typed
  <2>3. \A x \in Dependents(c)' : Awaited(c, x)'
    BY <2>1, FewerDependents DEF Awaited
  <2>4. CascadeOk(i)'
    <3>1. ASSUME NEW e \in Dependents(c) \cap Evidence
          PROVE  /\ BehindOf[e] = c
                 /\ \A d \in Derived \ stale : e \in RefsOf[d] => d \in Dependents(c)
      <4>1. e \in {y \in Evidence \ stale : BehindOf[y] = c}
        BY <3>1, ArtifactAssumption DEF Dependents, ArtifactAssumption
      <4>. QED  BY <4>1 DEF Dependents
    <3>. QED  BY <2>1, <3>1 DEF CascadeOk
  <2>5. \A j \in Callers : CascadeOk(j)'
    BY <1>1, <2>1, <2>4
  <2>. QED  BY <2>1, <2>2, <2>3, <2>5, CascadeKept
<1>4. ASSUME NEW i \in Callers, StaleDependent(i) PROVE CascadeInv'
  <2>1. PICK x \in frame[i].dependents :
              /\ stale' = stale \cup {x} /\ Moved(i) /\ pc[i] = "cascade" /\ pc'[i] = "cascade"
              /\ frame'[i].dependents = frame[i].dependents \ {x} /\ frame'[i].c = frame[i].c
              /\ UNCHANGED <<artifact, cut>>
    BY <1>4, StaleDependentFacts
  <2>2. CascadeOk(i)
    BY DEF CascadeInv
  <2>3. CascadeOk(i)'
    BY <2>1, <2>2 DEF CascadeOk
  <2>4. ASSUME NEW e \in (stale' \ stale) \cap Evidence, NEW d \in Derived \ stale', e \in RefsOf[d]
        PROVE  Awaited(BehindOf[e], d)'
    <3>1. e = x /\ d # x
      BY <2>1, <2>4
    <3>2. BehindOf[e] = frame[i].c /\ d \in frame[i].dependents
      BY <2>1, <2>2, <2>4, <3>1 DEF CascadeOk
    <3>. QED  BY <2>1, <3>1, <3>2 DEF Awaited
  <2>5. \A j \in Callers : CascadeOk(j)'
    BY <1>1, <2>1, <2>3
  <2>. QED  BY <2>1, <2>4, <2>5, CascadeKept
<1>5. ASSUME NEW i \in Callers, Crash(i) PROVE CascadeInv'
  <2>1. Moved(i) /\ pc'[i] \in {"idle", "retry", "backfill"} /\ UNCHANGED <<artifact, stale>>
    BY <1>5, CrashFacts
  <2>2. CascadeOk(i)'
    BY <2>1 DEF CascadeOk
  <2>3. \A j \in Callers : CascadeOk(j)'
    BY <1>1, <2>1, <2>2
  <2>. QED  BY <2>1, <2>3, CascadeKept
<1>6. ASSUME UNCHANGED <<artifact, stale, cut, pc, frame>> PROVE CascadeInv'
  BY <1>6 DEF CascadeInv, StaleAwaited, CitingAwaited, CascadeOk, Awaited, Dependents
<1>7. ASSUME NEW p \in PathSet, Edit(p) PROVE CascadeInv'
  BY <1>6, <1>7, EditFacts
<1>8. CASE Still /\ UNCHANGED <<locked, pc, frame>>
  BY <1>6, <1>8 DEF Still
<1>. QED  BY <1>2, <1>3, <1>4, <1>5, <1>7, <1>8, Kinds, OffCascadeKinds

-----------------------------------------------------------------------------
(* The corpus, while records and files change *)

LEMMA RecordsAge ==
    ASSUME Typed, FramesOk, LifecycleNext, NEW x \in DOMAIN artifact
    PROVE  artifact'[x] = artifact[x] \/ artifact'[x].at = artifact[x].at + 1
<1>1. ASSUME NEW c \in Contents, NEW r \in Records, Upsert(c, r)
      PROVE  artifact'[x] = artifact[x] \/ artifact'[x].at = artifact[x].at + 1
  BY <1>1, UpsertFacts DEF Typed
<1>2. ASSUME NEW i \in Callers, WritesBack(i)
      PROVE  artifact'[x] = artifact[x] \/ artifact'[x].at = artifact[x].at + 1
  <2>1. frame[i].c \in Contents
    BY <1>2, SnapshotType DEF WritesBack, CopyPlaces, FramesOk, FrameOk, Typed
  <2>. QED  BY <1>1, <1>2, <2>1 DEF WritesBack
<1>3. ASSUME NEW i \in Callers, StalePrior(i) \/ Register(i)
      PROVE  artifact'[x] = artifact[x] \/ artifact'[x].at = artifact[x].at + 1
  BY <1>1, <1>3, StalePriorFacts, RegisterFacts
<1>4. ASSUME NEW i \in Callers,
             \/ Rests(i) \/ Copies(i) \/ Falls(i) \/ Puts(i) \/ StaleDependent(i)
             \/ MoveAway(i) \/ MoveIn(i) \/ Unlock(i) \/ NormalizeFails(i) \/ Crash(i)
      PROVE  artifact' = artifact
  BY <1>4, StaleDependentFacts, LockSteps, NormalizeFailsFacts, CrashFacts
     DEF Rests, Copies, Falls, Puts, Still
<1>5. ASSUME NEW p \in PathSet, Edit(p) PROVE artifact' = artifact
  BY <1>5, EditFacts
<1>6. Still => artifact' = artifact
  BY DEF Still
<1>. QED  BY <1>2, <1>3, <1>4, <1>5, <1>6, Kinds

\* While an artifact is settled and its record stays the same, so does its text.
LEMMA SettledText ==
    ASSUME Typed, FramesOk, LifecycleNext, NEW c \in DOMAIN artifact,
           artifact'[c] = artifact[c], Settled(c)'
    PROVE  Settled(c) /\ local'[c] = local[c] /\ source'[c] = source[c]
<1>. DEFINE Same == local'[c] = local[c] /\ source'[c] = source[c]
<1>0. c \in Contents /\ artifact[c].at \in Nat
  <2>1. c \in Contents /\ artifact[c] \in Records
    BY SnapshotType DEF Typed
  <2>. QED  BY <2>1 DEF Records
<1>1. ASSUME NEW i \in Callers, Moved(i), c \notin torn, ~(frame[i].c = c /\ pc[i] \in Touching)
      PROVE  Settled(c)
  BY <1>1 DEF Moved, Settled, Replacing
<1>2. c \notin torn' /\ \A i \in Callers : ~(frame'[i].c = c /\ pc'[i] \in Touching)
  BY DEF Settled, Replacing
<1>3. ASSUME NEW d \in Contents, NEW r \in Records, Upsert(d, r)
      PROVE  c # d /\ c \notin torn
  <2>0. d \in DOMAIN artifact => artifact'[d].at = artifact[d].at + 1
    BY <1>3, UpsertFacts DEF Typed
  <2>1. c # d
    <3>1. ASSUME c = d PROVE FALSE
      <4>1. artifact'[c].at = artifact[c].at + 1 /\ artifact'[c].at = artifact[c].at
        BY <2>0, <3>1
      <4>. QED  BY <1>0, <4>1
    <3>. QED  BY <3>1
  <2>. QED  BY <1>2, <1>3, <2>1, UpsertFacts DEF Typed
<1>4. ASSUME NEW i \in Callers, Rests(i) \/ Copies(i) \/ Falls(i) PROVE Settled(c) /\ Same
  <2>1. Moved(i) /\ torn' = torn /\ Same /\ pc[i] \notin Touching
    BY <1>4 DEF Rests, Copies, Falls, Still, Holding, CopyPlaces
  <2>. QED  BY <1>1, <1>2, <2>1
<1>5. ASSUME NEW i \in Callers, WritesBack(i) PROVE Settled(c) /\ Same
  <2>1. frame[i].c \in Contents /\ Moved(i) /\ Same
    BY <1>5, SnapshotType DEF WritesBack, CopyPlaces, FramesOk, FrameOk, Typed
  <2>2. c # frame[i].c /\ c \notin torn
    BY <1>3, <1>5, <2>1 DEF WritesBack
  <2>. QED  BY <1>1, <2>1, <2>2
<1>6. ASSUME NEW i \in Callers, StalePrior(i) PROVE Settled(c) /\ Same
  <2>1. Moved(i) /\ Same /\ pc[i] = "cascade" /\ c \notin torn
    BY <1>3, <1>6, StalePriorFacts
  <2>. QED  BY <1>1, <2>1
<1>7. ASSUME NEW i \in Callers, StaleDependent(i) PROVE Settled(c) /\ Same
  <2>1. Moved(i) /\ Same /\ pc[i] = "cascade" /\ torn' = torn
    BY <1>7, StaleDependentFacts
  <2>. QED  BY <1>1, <1>2, <2>1
<1>8. ASSUME NEW i \in Callers, Register(i) PROVE Settled(c) /\ Same
  <2>1. /\ File(i).c \in Contents /\ Moved(i) /\ Same
        /\ pc[i] \in Touching => frame[i].c = File(i).c
        /\ \E r \in Records : Upsert(File(i).c, r)
    BY <1>8, RegisterFacts
  <2>2. c # File(i).c /\ c \notin torn
    BY <1>3, <2>1
  <2>. QED  BY <1>1, <2>1, <2>2
<1>9. ASSUME NEW i \in Callers, MoveAway(i) \/ MoveIn(i) \/ Unlock(i) PROVE Settled(c) /\ Same
  <2>1. /\ Moved(i) /\ frame'[i].c = frame[i].c /\ UNCHANGED <<torn, source>> /\ pc'[i] \in Touching
        /\ \A x \in Contents \ {frame[i].c} : local'[x] = local[x]
    BY <1>9, LockSteps
  <2>. QED  BY <1>0, <1>1, <1>2, <2>1
<1>10. ASSUME NEW i \in Callers, NormalizeFails(i) PROVE Settled(c) /\ Same
  <2>1. /\ Moved(i) /\ pc[i] \in {"extract", "replace"} /\ UNCHANGED source
        /\ \A x \in Contents \ {frame[i].c} : local'[x] = local[x]
        /\ pc[i] = "extract" => local' = local /\ torn' = torn
        /\ pc[i] = "replace" => torn' = torn \cup {frame[i].c}
    BY <1>10, NormalizeFailsFacts
  <2>2. CASE pc[i] = "extract"
    BY <1>1, <1>2, <2>1, <2>2
  <2>3. CASE pc[i] = "replace"
    BY <1>0, <1>1, <1>2, <2>1, <2>3
  <2>. QED  BY <2>1, <2>2, <2>3
<1>11. ASSUME NEW i \in Callers, Crash(i) PROVE Settled(c) /\ Same
  <2>1. Moved(i) /\ UNCHANGED <<local, source>>
        /\ torn' = IF pc[i] \in Touching THEN torn \cup {frame[i].c} ELSE torn
    BY <1>11, CrashFacts
  <2>. QED  BY <1>1, <1>2, <2>1
<1>12. ASSUME UNCHANGED <<torn, pc, frame, local, source>> PROVE Settled(c) /\ Same
  BY <1>2, <1>12 DEF Settled, Replacing
<1>13. ASSUME NEW p \in PathSet, Edit(p) PROVE Settled(c) /\ Same
  BY <1>12, <1>13, EditFacts
<1>14. CASE Still /\ UNCHANGED <<locked, pc, frame>>
  BY <1>12, <1>14 DEF Still
<1>15. ASSUME NEW i \in Callers, Puts(i) PROVE Settled(c) /\ Same
  <2>1. /\ Moved(i) /\ frame'[i].c = frame[i].c /\ UNCHANGED <<torn, local>> /\ pc'[i] \in Touching
        /\ pc[i] \notin Touching /\ \A x \in Contents \ {frame[i].c} : source'[x] = source[x]
    BY <1>15 DEF Puts
  <2>. QED  BY <1>0, <1>1, <1>2, <2>1
<1>. QED  BY <1>4, <1>5, <1>6, <1>7, <1>8, <1>9, <1>10, <1>11, <1>13, <1>14, <1>15, Kinds

\* What is asked of a corpus after a step, of a corpus that is there before it.
UnitsOkNext(b) ==
    \A c \in DOMAIN b.units :
        /\ c \in DOMAIN b.of /\ c \in DOMAIN artifact' /\ b.of[c].at <= artifact'[c].at
        /\ b.of[c] = artifact'[c] /\ Settled(c)' => b.units[c] = Text(c, artifact[c])'
SnapshotOkNext(b) ==
    \A c \in DOMAIN b.of : c \in DOMAIN artifact' /\ b.of[c].at <= artifact'[c].at

LEMMA TextSame ==
    ASSUME NEW c, artifact'[c] = artifact[c], local'[c] = local[c], source'[c] = source[c]
    PROVE  Text(c, artifact[c])' = Text(c, artifact[c])
BY DEF Text

LEMMA UnitsStay ==
    ASSUME Typed, FramesOk, LifecycleNext, NEW b, b.of \in Snapshots,
           SnapshotOk(b), UnitsOk(b)
    PROVE  SnapshotOkNext(b) /\ UnitsOkNext(b)
<1>1. ASSUME NEW c \in DOMAIN b.of
      PROVE  /\ c \in DOMAIN artifact /\ c \in DOMAIN artifact'
             /\ b.of[c].at \in Nat /\ artifact[c].at \in Nat
             /\ b.of[c].at <= artifact[c].at /\ b.of[c].at <= artifact'[c].at
             /\ b.of[c] = artifact'[c] => artifact'[c] = artifact[c]
  <2>1. c \in DOMAIN artifact /\ c \in DOMAIN artifact' /\ b.of[c].at <= artifact[c].at
    BY <1>1, TypedStep DEF SnapshotOk
  <2>2. b.of[c] \in Records /\ artifact[c] \in Records
    BY <1>1, <2>1, SnapshotType DEF Typed
  <2>3. b.of[c].at \in Nat /\ artifact[c].at \in Nat
    BY <2>2 DEF Records
  <2>4. artifact'[c] = artifact[c] \/ artifact'[c].at = artifact[c].at + 1
    BY <2>1, RecordsAge
  <2>5. CASE artifact'[c] = artifact[c]
    BY <2>1, <2>3, <2>5
  <2>6. CASE artifact'[c].at = artifact[c].at + 1
    <3>1. b.of[c].at <= artifact'[c].at /\ b.of[c].at # artifact'[c].at
      BY <2>1, <2>3, <2>6
    <3>. QED  BY <2>1, <2>3, <3>1
  <2>. QED  BY <2>4, <2>5, <2>6
<1>2. ASSUME NEW c \in DOMAIN b.units
      PROVE  /\ c \in DOMAIN b.of
             /\ b.of[c] = artifact'[c] /\ Settled(c)' => b.units[c] = Text(c, artifact[c])'
  <2>1. c \in DOMAIN b.of /\ (b.of[c] = artifact[c] /\ Settled(c) => b.units[c] = Text(c, artifact[c]))
    BY <1>2 DEF UnitsOk
  <2>2. ASSUME b.of[c] = artifact'[c], Settled(c)'
        PROVE  b.units[c] = Text(c, artifact[c])'
    <3>1. c \in DOMAIN artifact /\ artifact'[c] = artifact[c]
      BY <1>1, <2>1, <2>2
    <3>2. Settled(c) /\ local'[c] = local[c] /\ source'[c] = source[c]
      BY <2>2, <3>1, SettledText
    <3>3. Text(c, artifact[c])' = Text(c, artifact[c])
      BY <3>1, <3>2, TextSame
    <3>. QED  BY <2>1, <2>2, <3>1, <3>2, <3>3
  <2>. QED  BY <2>1, <2>2
<1>. QED  BY <1>1, <1>2 DEF SnapshotOkNext, UnitsOkNext

\* Steps of the corpus leave the artifacts and their files alone.
LEMMA UnitsSame ==
    ASSUME UNCHANGED <<artifact, torn, pc, frame, local, source>>, NEW b
    PROVE  /\ UnitsOk(b) => UnitsOkNext(b)
           /\ SnapshotOk(b) => SnapshotOkNext(b)
<1>1. \A c : Settled(c)' <=> Settled(c)
  BY DEF Settled, Replacing
<1>2. \A c : Text(c, artifact[c])' = Text(c, artifact[c])
  BY DEF Text
<1>. QED  BY <1>1, <1>2 DEF UnitsOk, UnitsOkNext, SnapshotOk, SnapshotOkNext

LEMMA CorpusNext ==
    ASSUME builds' \in Seq(Corpora),
           \A n \in DOMAIN builds' : SnapshotOkNext(builds'[n]) /\ UnitsOkNext(builds'[n]),
           \/ projection' = NoCorpus
           \/ projection' \in Corpora /\ SnapshotOkNext(projection') /\ UnitsOkNext(projection')
    PROVE  CorpusInv'
<1>1. \A n \in DOMAIN builds' : (SnapshotOk(builds[n]) /\ UnitsOk(builds[n]))'
  BY DEF SnapshotOk, UnitsOk, SnapshotOkNext, UnitsOkNext
<1>2. \/ projection' = NoCorpus
      \/ projection' \in Corpora /\ SnapshotOk(projection)' /\ UnitsOk(projection)'
  BY DEF SnapshotOk, UnitsOk, SnapshotOkNext, UnitsOkNext
<1>3. (projection = NoCorpus)' <=> projection' = NoCorpus
  BY DEF NoCorpus
<1>. QED  BY <1>1, <1>2, <1>3 DEF CorpusInv

LEMMA EmptyUnits ==
    /\ <<>> \in UNION {[D -> Texts] : D \in SUBSET Contents} /\ DOMAIN <<>> = {}
    /\ NoCorpus.units = <<>>
<1>1. <<>> \in Seq(Texts) /\ Len(<<>>) = 0 /\ 1 .. 0 = {}
  OBVIOUS
<1>2. <<>> \in [1 .. 0 -> Texts] /\ DOMAIN <<>> = {}
  BY <1>1, LenProperties
<1>3. NoCorpus.units = <<>>
  BY DEF NoCorpus
<1>. QED  BY <1>1, <1>2, <1>3

LEMMA CorpusLifecycleStep ==
    ASSUME Typed, FramesOk, CorpusInv, LifecycleNext, UNCHANGED corpusVars
    PROVE  CorpusInv'
<1>1. builds' = builds /\ projection' = projection
  BY DEF corpusVars
<1>2. ASSUME NEW n \in DOMAIN builds PROVE SnapshotOkNext(builds[n]) /\ UnitsOkNext(builds[n])
  <2>1. builds[n] \in Corpora
    BY <1>2 DEF CorpusInv
  <2>2. builds[n].of \in Snapshots /\ SnapshotOk(builds[n]) /\ UnitsOk(builds[n])
    BY <1>2, <2>1 DEF CorpusInv, Corpora
  <2>. QED  BY <2>2, UnitsStay
<1>3. CASE projection \in Corpora /\ SnapshotOk(projection) /\ UnitsOk(projection)
  <2>1. SnapshotOkNext(projection) /\ UnitsOkNext(projection)
    BY <1>3, UnitsStay DEF Corpora
  <2>. QED  BY <1>1, <1>2, <1>3, <2>1, CorpusNext DEF CorpusInv
<1>4. CASE projection = NoCorpus
  BY <1>1, <1>2, <1>4, CorpusNext DEF CorpusInv
<1>. QED  BY <1>3, <1>4 DEF CorpusInv

LEMMA TextType ==
    ASSUME Typed, NEW c \in Contents, NEW r \in Records
    PROVE  Text(c, r) \in Texts
<1>1. r.text \in {"none", "source", "local", "cloud"}
  BY DEF Records
<1>2. source[c] \in Contents \cup {NoFile} /\ local[c].version \in Nat
  BY DEF Typed, Outputs
<1>. QED  BY <1>1, <1>2 DEF Text, Texts

\* A corpus of the present records has units as good as those it starts with.
LEMMA NewBuild ==
    ASSUME Typed, NEW us, us \in UNION {[D -> Texts] : D \in SUBSET Contents},
           DOMAIN us = {} \/ (projection.of = artifact /\ us = projection.units /\ UnitsOk(projection))
    PROVE  Build(us) \in Corpora /\ SnapshotOk(Build(us)) /\ UnitsOk(Build(us))
<1>1. Build(us).of = artifact /\ Build(us).units = us /\ Build(us) \in Corpora
  BY DEF Build, Corpora, Typed
<1>2. \A c \in DOMAIN artifact : artifact[c].at <= artifact[c].at
  <2>1. ASSUME NEW c \in DOMAIN artifact PROVE artifact[c].at <= artifact[c].at
    <3>1. artifact[c] \in Records
      BY SnapshotType DEF Typed
    <3>2. artifact[c].at \in Nat
      BY <3>1 DEF Records
    <3>. QED  BY <3>2
  <2>. QED  BY <2>1
<1>3. SnapshotOk(Build(us))
  BY <1>1, <1>2 DEF SnapshotOk
<1>4. UnitsOk(Build(us))
  BY <1>1 DEF UnitsOk
<1>. QED  BY <1>1, <1>3, <1>4

LEMMA BeginStep ==
    ASSUME Typed, CorpusInv, BeginBuild \/ BeginRebuild,
           UNCHANGED <<artifact, torn, pc, frame, local, source>>
    PROVE  CorpusInv'
<1>1. /\ projection' = projection /\ builds \in Seq(Corpora)
      /\ projection = NoCorpus \/ (projection \in Corpora /\ SnapshotOkNext(projection) /\ UnitsOkNext(projection))
      /\ \A n \in DOMAIN builds : SnapshotOkNext(builds[n]) /\ UnitsOkNext(builds[n])
  BY UnitsSame DEF BeginBuild, BeginRebuild, CorpusInv
<1>2. CASE BeginBuild
  <2>. DEFINE b == Build(Loaded)
  <2>1. builds' = Append(builds, b)
    BY <1>2 DEF BeginBuild
  <2>2. /\ Loaded \in UNION {[D -> Texts] : D \in SUBSET Contents}
        /\ \/ DOMAIN Loaded = {}
           \/ projection.of = artifact /\ Loaded = projection.units /\ UnitsOk(projection)
    BY EmptyUnits DEF Loaded, CorpusInv, Corpora
  <2>3. b \in Corpora /\ SnapshotOk(b) /\ UnitsOk(b)
    BY <2>2, NewBuild
  <2>. HIDE DEF b
  <2>4. SnapshotOkNext(b) /\ UnitsOkNext(b)
    BY <2>3, UnitsSame
  <2>5. /\ builds' \in Seq(Corpora) /\ DOMAIN builds' = 1 .. Len(builds) + 1
        /\ DOMAIN builds = 1 .. Len(builds) /\ Len(builds) \in Nat
        /\ builds'[Len(builds) + 1] = b
        /\ \A n \in 1 .. Len(builds) : builds'[n] = builds[n]
    BY <1>1, <2>1, <2>3, AppendProperties, LenProperties
  <2>6. \A n \in DOMAIN builds' : SnapshotOkNext(builds'[n]) /\ UnitsOkNext(builds'[n])
    BY <1>1, <2>4, <2>5
  <2>. QED  BY <1>1, <2>5, <2>6, CorpusNext
<1>3. CASE BeginRebuild
  <2>. DEFINE b == Build(<<>>)
  <2>1. builds' = <<b>>
    BY <1>3 DEF BeginRebuild
  <2>2. b \in Corpora /\ SnapshotOk(b) /\ UnitsOk(b)
    BY EmptyUnits, NewBuild
  <2>. HIDE DEF b
  <2>3. SnapshotOkNext(b) /\ UnitsOkNext(b)
    BY <2>2, UnitsSame
  <2>4. builds' \in Seq(Corpora) /\ \A n \in DOMAIN builds' : builds'[n] = b
    BY <2>1, <2>2
  <2>. QED  BY <1>1, <2>3, <2>4, CorpusNext
<1>. QED  BY <1>2, <1>3

LEMMA ReadUnitStep ==
    ASSUME Typed, CorpusInv, ReadUnit, UNCHANGED <<artifact, torn, pc, frame, local, source>>
    PROVE  CorpusInv'
<1>1. /\ projection' = projection /\ builds \in Seq(Corpora) /\ builds # <<>>
      /\ projection = NoCorpus \/ (projection \in Corpora /\ SnapshotOkNext(projection) /\ UnitsOkNext(projection))
      /\ \A n \in DOMAIN builds : SnapshotOkNext(builds[n]) /\ UnitsOkNext(builds[n])
  BY UnitsSame DEF ReadUnit, CorpusInv
<1>2. /\ Len(builds) \in Nat \ {0} /\ DOMAIN builds = 1 .. Len(builds) /\ 1 \in DOMAIN builds
      /\ builds[1] \in Corpora
  BY <1>1, EmptySeq, LenProperties, ElementOfSeq
<1>. DEFINE b == builds[1]
<1>3. PICK c \in Unread(b) :
         builds' = [builds EXCEPT ![1].units =
                      [x \in DOMAIN @ \cup {c} |-> IF x = c THEN Text(c, b.of[c]) ELSE @[x]]]
  BY DEF ReadUnit
<1>. DEFINE us == [x \in DOMAIN b.units \cup {c} |-> IF x = c THEN Text(c, b.of[c]) ELSE b.units[x]]
            new == [b EXCEPT !.units = us]
<1>4. /\ c \in DOMAIN b.of /\ b.of \in Snapshots
      /\ b.units \in UNION {[D -> Texts] : D \in SUBSET Contents}
  BY <1>2, <1>3 DEF Unread, Corpora
<1>5. c \in Contents /\ b.of[c] \in Records
  BY <1>4, SnapshotType
<1>6. us \in UNION {[D -> Texts] : D \in SUBSET Contents}
  <2>1. PICK D \in SUBSET Contents : b.units \in [D -> Texts]
    BY <1>4
  <2>2. Text(c, b.of[c]) \in Texts
    BY <1>5, TextType
  <2>3. us \in [D \cup {c} -> Texts] /\ D \cup {c} \in SUBSET Contents
    BY <1>5, <2>1, <2>2
  <2>. QED  BY <2>3
<1>7. builds' = [builds EXCEPT ![1] = new]
  BY <1>3
<1>8. /\ DOMAIN us = DOMAIN b.units \cup {c} /\ us[c] = Text(c, b.of[c])
      /\ \A x \in DOMAIN b.units : x # c => us[x] = b.units[x]
  OBVIOUS
<1>9. /\ UnitsOk(b) /\ SnapshotOk(b)
  BY <1>2 DEF CorpusInv
<1>. HIDE DEF us
<1>10. new \in Corpora /\ new.of = b.of /\ new.units = us
  BY <1>2, <1>6 DEF Corpora
<1>. HIDE DEF new
<1>11. SnapshotOk(new)
  BY <1>9, <1>10 DEF SnapshotOk
<1>12. UnitsOk(new)
  <2>1. ASSUME NEW x \in DOMAIN us
        PROVE  /\ x \in DOMAIN b.of /\ x \in DOMAIN artifact /\ b.of[x].at <= artifact[x].at
               /\ b.of[x] = artifact[x] /\ Settled(x) => us[x] = Text(x, artifact[x])
    <3>1. CASE x = c
      BY <1>4, <1>8, <1>9, <3>1 DEF SnapshotOk
    <3>2. CASE x # c
      BY <1>8, <1>9, <2>1, <3>2 DEF UnitsOk
    <3>. QED  BY <3>1, <3>2
  <2>. QED  BY <1>10, <2>1 DEF UnitsOk
<1>13. SnapshotOkNext(new) /\ UnitsOkNext(new)
  BY <1>11, <1>12, UnitsSame
<1>14. /\ builds' \in Seq(Corpora) /\ DOMAIN builds' = DOMAIN builds
       /\ \A n \in DOMAIN builds : builds'[n] = IF n = 1 THEN new ELSE builds[n]
  BY <1>1, <1>2, <1>7, <1>10, ExceptSeq
<1>15. \A n \in DOMAIN builds' : SnapshotOkNext(builds'[n]) /\ UnitsOkNext(builds'[n])
  BY <1>1, <1>13, <1>14
<1>. QED  BY <1>1, <1>14, <1>15, CorpusNext

LEMMA ProceedStep ==
    ASSUME Typed, CorpusInv, Proceed, UNCHANGED <<artifact, torn, pc, frame, local, source>>
    PROVE  CorpusInv'
<1>1. /\ projection' = projection /\ builds \in Seq(Corpora)
      /\ projection = NoCorpus \/ (projection \in Corpora /\ SnapshotOkNext(projection) /\ UnitsOkNext(projection))
      /\ \A n \in DOMAIN builds : SnapshotOkNext(builds[n]) /\ UnitsOkNext(builds[n])
  BY UnitsSame DEF Proceed, CorpusInv
<1>2. /\ Len(builds) \in Nat /\ Len(builds) > 1 /\ DOMAIN builds = 1 .. Len(builds)
      /\ \A n \in 1 .. Len(builds) : builds[n] \in Corpora
  BY <1>1, LenProperties, ElementOfSeq DEF Proceed
<1>. DEFINE prior == builds[1]
            b == builds[2]
            known == {c \in Unread(b) : Reusable(c, prior, b)}
            us == [c \in DOMAIN b.units \cup known |->
                      IF c \in known THEN prior.units[c] ELSE b.units[c]]
            new == [b EXCEPT !.units = us]
            later == SubSeq(builds, 3, Len(builds))
<1>3. builds' = <<new>> \o later /\ Complete(prior)
  BY DEF Proceed
<1>4. /\ prior \in Corpora /\ b \in Corpora
      /\ UnitsOk(prior) /\ UnitsOk(b) /\ SnapshotOk(b)
  BY <1>2 DEF CorpusInv
<1>5. \A c \in known : /\ c \in DOMAIN b.of /\ c \in DOMAIN prior.of /\ prior.of[c] = b.of[c]
                       /\ c \in DOMAIN prior.units
  BY <1>3 DEF Unread, Reusable, Complete
<1>6. /\ DOMAIN us = DOMAIN b.units \cup known
      /\ \A c \in known : us[c] = prior.units[c]
      /\ \A c \in DOMAIN us : c \notin known => c \in DOMAIN b.units /\ us[c] = b.units[c]
  OBVIOUS
<1>7. us \in UNION {[D -> Texts] : D \in SUBSET Contents}
  <2>1. PICK D \in SUBSET Contents : b.units \in [D -> Texts]
    BY <1>4 DEF Corpora
  <2>2. PICK E \in SUBSET Contents : prior.units \in [E -> Texts]
    BY <1>4 DEF Corpora
  <2>3. known \subseteq E
    BY <1>5, <2>2
  <2>. HIDE DEF known
  <2>4. us \in [D \cup known -> Texts] /\ D \cup known \in SUBSET Contents
    BY <2>1, <2>2, <2>3
  <2>. QED  BY <2>4
<1>. HIDE DEF us, known
<1>8. new \in Corpora /\ new.of = b.of /\ new.units = us
  BY <1>4, <1>7 DEF Corpora
<1>. HIDE DEF new
<1>9. SnapshotOk(new)
  BY <1>4, <1>8 DEF SnapshotOk
<1>10. UnitsOk(new)
  <2>1. ASSUME NEW x \in DOMAIN us
        PROVE  /\ x \in DOMAIN b.of /\ x \in DOMAIN artifact /\ b.of[x].at <= artifact[x].at
               /\ b.of[x] = artifact[x] /\ Settled(x) => us[x] = Text(x, artifact[x])
    <3>1. CASE x \in known
      BY <1>4, <1>5, <1>6, <3>1 DEF SnapshotOk, UnitsOk
    <3>2. CASE x \notin known
      BY <1>4, <1>6, <2>1, <3>2 DEF UnitsOk
    <3>. QED  BY <3>1, <3>2
  <2>. QED  BY <1>8, <2>1 DEF UnitsOk
<1>11. SnapshotOkNext(new) /\ UnitsOkNext(new)
  BY <1>9, <1>10, UnitsSame
<1>12. /\ later \in Seq(Corpora) /\ Len(later) = Len(builds) - 2
       /\ \A n \in 1 .. Len(builds) - 2 : later[n] = builds[n + 2]
  <2>1. /\ later \in Seq(Corpora)
        /\ Len(later) = IF 3 <= Len(builds) THEN Len(builds) - 3 + 1 ELSE 0
        /\ \A n \in 1 .. Len(builds) - 3 + 1 : later[n] = builds[3 + n - 1]
    BY <1>2, SubSeqProperties
  <2>. QED  BY <1>2, <2>1
<1>. HIDE DEF later
<1>13. <<new>> \in Seq(Corpora) /\ Len(<<new>>) = 1 /\ <<new>>[1] = new
  BY <1>8
<1>14. /\ builds' \in Seq(Corpora) /\ DOMAIN builds' = 1 .. 1 + Len(later)
       /\ \A n \in 1 .. 1 + Len(later) : builds'[n] = IF n <= 1 THEN new ELSE later[n - 1]
  <2>1. /\ <<new>> \o later \in Seq(Corpora) /\ Len(<<new>> \o later) = 1 + Len(later)
        /\ \A n \in 1 .. 1 + Len(later) :
              (<<new>> \o later)[n] = IF n <= 1 THEN <<new>>[n] ELSE later[n - 1]
    BY <1>12, <1>13, ConcatProperties
  <2>2. Len(later) \in Nat
    BY <1>12, LenProperties
  <2>3. \A n \in 1 .. 1 + Len(later) : n <= 1 => <<new>>[n] = new
    BY <1>13, <2>2
  <2>4. builds' \in Seq(Corpora) /\ DOMAIN builds' = 1 .. 1 + Len(later)
    BY <1>3, <2>1, LenProperties
  <2>. QED  BY <1>3, <2>1, <2>3, <2>4
<1>15. ASSUME NEW n \in DOMAIN builds'
       PROVE  SnapshotOkNext(builds'[n]) /\ UnitsOkNext(builds'[n])
  <2>1. n \in 1 .. 1 + Len(later) /\ Len(later) \in Nat /\ n \in Nat
    BY <1>2, <1>12, <1>14, <1>15
  <2>2. CASE n <= 1
    BY <1>11, <1>14, <2>1, <2>2
  <2>3. CASE n > 1
    <3>1. builds'[n] = later[n - 1] /\ n - 1 \in 1 .. Len(builds) - 2
      BY <1>2, <1>12, <1>14, <2>1, <2>3
    <3>2. later[n - 1] = builds[n - 1 + 2] /\ n - 1 + 2 \in DOMAIN builds
      BY <1>2, <1>12, <3>1
    <3>. QED  BY <1>1, <3>1, <3>2
  <2>. QED  BY <2>1, <2>2, <2>3
<1>. QED  BY <1>1, <1>14, <1>15, CorpusNext

LEMMA OtherCorpusStep ==
    ASSUME Typed, CorpusInv, Synchronize \/ Forget,
           UNCHANGED <<artifact, torn, pc, frame, local, source>>
    PROVE  CorpusInv'
<1>1. /\ builds \in Seq(Corpora)
      /\ projection = NoCorpus \/ (projection \in Corpora /\ SnapshotOkNext(projection) /\ UnitsOkNext(projection))
      /\ \A n \in DOMAIN builds : SnapshotOkNext(builds[n]) /\ UnitsOkNext(builds[n])
  BY UnitsSame DEF CorpusInv
<1>2. CASE Synchronize
  <2>1. Len(builds) = 1 /\ projection' = builds[1] /\ builds' = builds
    BY <1>2 DEF Synchronize
  <2>2. 1 \in DOMAIN builds /\ builds[1] \in Corpora
    BY <1>1, <2>1, LenProperties, ElementOfSeq
  <2>. QED  BY <1>1, <2>1, <2>2, CorpusNext
<1>3. CASE Forget
  <2>1. builds' = <<>> /\ projection' = projection
    BY <1>3 DEF Forget
  <2>2. <<>> \in Seq(Corpora)
    BY EmptySeq
  <2>. QED  BY <1>1, <2>1, <2>2, EmptyUnits, CorpusNext
<1>. QED  BY <1>2, <1>3

-----------------------------------------------------------------------------
(* The invariant *)

LEMMA InitInv == Init => Inv
<1>. SUFFICES ASSUME Init PROVE Inv
  OBVIOUS
<1>. USE DEF Init, LifecycleInit, CorpusInit
<1>1. Typed
  <2>1. artifact \in Snapshots
    BY NoFrameType DEF Frames
  <2>2. /\ local \in [Contents -> Outputs] /\ locked \subseteq Contents
        /\ source \in [Contents -> Contents \cup {NoFile}]
        /\ disk \in [PathSet -> Contents \cup {NoFile}]
    BY DEF Outputs
  <2>3. pc \in [Callers -> Places] /\ frame \in [Callers -> Frames]
    BY NoFrameType DEF Places
  <2>. QED  BY <2>1, <2>2, <2>3 DEF Typed
<1>2. \A i \in Callers : pc[i] = "idle"
  OBVIOUS
<1>3. DOMAIN artifact = {}
  BY EmptyUnits
<1>4. FramesOk /\ LockInv
  BY <1>2 DEF FramesOk, FrameOk, LockInv, CopyPlaces, Holding
<1>5. OutputInv
  BY <1>2, <1>3 DEF OutputInv, Claimed, ClaimedBy, CopyPlaces, Holding
<1>6. RestoredInv
  BY <1>2, <1>3 DEF RestoredInv, StaleSeen, CopyDated, CopyPlaces, Holding
<1>7. CascadeInv
  BY <1>2, <1>3 DEF CascadeInv, StaleAwaited, CitingAwaited, CascadeOk
<1>8. CorpusInv
  BY EmptyUnits, EmptySeq DEF CorpusInv
<1>. QED  BY <1>1, <1>4, <1>5, <1>6, <1>7, <1>8 DEF Inv, LifecycleInv

LEMMA NextInv == Inv /\ [Next]_vars => Inv'
<1>. SUFFICES ASSUME Inv, [Next]_vars PROVE Inv'
  OBVIOUS
<1>. USE DEF Inv, LifecycleInv
<1>1. ASSUME UNCHANGED <<disk, restored, artifact, files, stale, pc, frame, cut, torn>>
      PROVE  LifecycleInv'
  <2>1. Typed' /\ FramesOk'
    BY <1>1 DEF Typed, FramesOk, FrameOk
  <2>2. LockInv' /\ OutputInv'
    BY <1>1 DEF LockInv, OutputInv, Claimed, ClaimedBy, Secured
  <2>3. RestoredInv'
    BY <1>1 DEF RestoredInv, StaleSeen, CopyDated, OnDisk
  <2>4. CascadeInv'
    BY <1>1 DEF CascadeInv, StaleAwaited, CitingAwaited, CascadeOk, Awaited, Dependents
  <2>. QED  BY <2>1, <2>2, <2>3, <2>4
<1>2. CASE LifecycleNext /\ UNCHANGED corpusVars
  <2>1. CorpusInv'
    BY <1>2, CorpusLifecycleStep
  <2>. QED  BY <1>2, <2>1, TypedStep, LockStep, OutputStep, RestoredStep, CascadeStep
<1>3. ASSUME BeginBuild \/ BeginRebuild \/ ReadUnit \/ Proceed \/ Synchronize \/ Forget,
             UNCHANGED <<disk, restored, artifact, files, stale, pc, frame, cut, torn>>
      PROVE  Inv'
  <2>1. CorpusInv'
    BY <1>3, BeginStep, ReadUnitStep, ProceedStep, OtherCorpusStep
  <2>. QED  BY <1>1, <1>3, <2>1
<1>4. CASE UNCHANGED vars
  <2>1. UNCHANGED <<disk, restored, artifact, files, stale, pc, frame, cut, torn, builds, projection>>
    BY <1>4 DEF vars, corpusVars
  <2>2. \A b : (UnitsOk(b) => UnitsOkNext(b)) /\ (SnapshotOk(b) => SnapshotOkNext(b))
    BY <2>1, UnitsSame
  <2>3. CorpusInv'
    BY <2>1, <2>2, CorpusNext DEF CorpusInv
  <2>. QED  BY <1>1, <2>1, <2>3
<1>5. Forget => UNCHANGED <<disk, restored, artifact, files, stale, pc, frame, cut, torn>>
  BY DEF Forget
<1>. QED  BY <1>2, <1>3, <1>4, <1>5 DEF Next

\* In every reachable state the records and frames are of their types, the locks
\* exclude, and what records, cascades and corpora promise is kept.
THEOREM CorpusInvariant == Spec => []Inv
BY InitInv, NextInv, PTL DEF Spec

-----------------------------------------------------------------------------
(* What follows *)

\* A record that names the local output finds it, or a lock: for any number of
\* normalizations that overlap, fail and crash between the two renames of the output.
THEOREM NamedOutputIsThere == Spec => []OutputIsThere
<1>1. Inv => OutputIsThere
  <2>. SUFFICES ASSUME Inv, NEW c \in DOMAIN artifact, artifact[c].normalized, c \notin locked
                PROVE  local[c].there
    BY DEF OutputIsThere
  <2>1. Claimed(c) /\ c \in Contents
    BY SnapshotType DEF Claimed, Inv, LifecycleInv, Typed
  <2>. QED  BY <2>1 DEF Inv, LifecycleInv, OutputInv, Secured
<1>. QED  BY <1>1, CorpusInvariant, PTL

\* Once no cascade of an artifact that went stale is under way, and none was cut
\* short by a crash, nothing accepted rests on it, however ingestions overlap.
THEOREM CascadesFinish == Spec => []CascadeDone
<1>1. Inv => CascadeDone
  <2>. SUFFICES ASSUME Inv, NEW c \in DOMAIN artifact, artifact[c].status = "stale", c \notin cut,
                       ~ \E i \in Callers : pc[i] = "cascade" /\ frame[i].c = c
                PROVE  /\ Dependents(c) = {}
                       /\ \A d \in Derived, e \in Evidence :
                             BehindOf[e] = c /\ e \in RefsOf[d] => d \in stale
    BY DEF CascadeDone
  <2>1. \A x : ~Awaited(c, x)
    BY DEF Awaited
  <2>2. Dependents(c) = {}
    BY <2>1 DEF Inv, LifecycleInv, CascadeInv, StaleAwaited
  <2>3. ASSUME NEW d \in Derived \ stale, NEW e \in Evidence, BehindOf[e] = c, e \in RefsOf[d]
        PROVE  FALSE
    <3>1. CASE e \in stale
      BY <2>1, <2>3, <3>1 DEF Inv, LifecycleInv, CascadeInv, CitingAwaited
    <3>2. CASE e \notin stale
      <4>1. d \in Dependents(c)
        BY <2>3, <3>2 DEF Dependents
      <4>. QED  BY <2>2, <4>1
    <3>. QED  BY <3>1, <3>2
  <2>. QED  BY <2>2, <2>3
<1>. QED  BY <1>1, CorpusInvariant, PTL

\* A complete corpus of the current records shows every settled artifact's text as
\* its file is, whatever was reused, and whatever changed while it was built.
THEOREM CompleteCorpusIsCurrent == Spec => []CorpusIsCurrent
<1>1. Inv => CorpusIsCurrent
  <2>. SUFFICES ASSUME Inv, Len(builds) = 1, Complete(builds[1]), builds[1].of = artifact,
                       NEW c \in DOMAIN artifact \ torn, ~Replacing(c)
                PROVE  builds[1].units[c] = Text(c, artifact[c])
    BY DEF CorpusIsCurrent
  <2>1. 1 \in DOMAIN builds
    BY LenProperties DEF Inv, CorpusInv
  <2>2. UnitsOk(builds[1])
    BY <2>1 DEF Inv, CorpusInv
  <2>3. c \in DOMAIN builds[1].units
    BY DEF Complete, Unread
  <2>. QED  BY <2>2, <2>3 DEF UnitsOk, Settled
<1>. QED  BY <1>1, CorpusInvariant, PTL

\* The steps that change records.
LEMMA Writers ==
    ASSUME Inv, Next, artifact' # artifact
    PROVE  \E i \in Callers : WritesBack(i) \/ StalePrior(i) \/ Register(i)
<1>1. LifecycleNext
  BY DEF Next, Forget
<1>2. Typed /\ FramesOk
  BY DEF Inv, LifecycleInv
<1>3. PICK i \in Callers :
         \/ Rests(i) \/ Copies(i) \/ WritesBack(i) \/ Falls(i) \/ Puts(i)
         \/ StalePrior(i) \/ StaleDependent(i) \/ Register(i)
         \/ MoveAway(i) \/ MoveIn(i) \/ Unlock(i) \/ NormalizeFails(i) \/ Crash(i)
  <2>1. ~(\E p \in PathSet : Edit(p)) /\ ~Still
    BY DEF Edit, Still
  <2>. QED  BY <1>1, <1>2, <2>1, Kinds
<1>4. ~(Rests(i) \/ Copies(i) \/ Falls(i) \/ Puts(i) \/ StaleDependent(i))
  BY DEF Rests, Copies, Falls, Puts, Still, StaleDependent
<1>5. ~(MoveAway(i) \/ MoveIn(i) \/ Unlock(i) \/ NormalizeFails(i) \/ Crash(i))
  BY DEF MoveAway, MoveIn, Unlock, NormalizeFails, Crash
<1>. QED  BY <1>3, <1>4, <1>5

\* What a write-back and a registration write.
LEMMA Written ==
    ASSUME Inv, NEW i \in Callers, NEW c \in DOMAIN artifact, artifact'[c] # artifact[c],
           WritesBack(i)
    PROVE  /\ frame[i].c = c /\ frame[i].copy \in Records /\ frame[i].copy # NoCall
           /\ pc[i] \in CopyPlaces /\ artifact'[c].status # "stale"
           /\ frame[i].copy.text = "cloud" /\ frame[i].copy.status = "parsed" =>
                 artifact'[c].text = "cloud"
<1>1. Typed /\ FramesOk /\ artifact \in Snapshots
  BY DEF Inv, LifecycleInv, Typed
<1>2. pc[i] \in CopyPlaces
  BY DEF WritesBack, CopyPlaces
<1>3. frame[i].c \in DOMAIN artifact /\ frame[i].copy \in Records
  BY <1>1, <1>2 DEF FramesOk, FrameOk
<1>4. frame[i].c \in Contents
  BY <1>1, <1>3, SnapshotType
<1>5. PICK r \in Records :
         /\ Upsert(frame[i].c, r) /\ r.status # "stale"
         /\ frame[i].copy.text = "cloud" /\ frame[i].copy.status = "parsed" => r.text = "cloud"
  BY DEF WritesBack
<1>6. /\ \A x \in DOMAIN artifact \ {frame[i].c} : artifact'[x] = artifact[x]
      /\ artifact'[frame[i].c].status = r.status /\ artifact'[frame[i].c].text = r.text
  BY <1>1, <1>4, <1>5, UpsertFacts
<1>7. frame[i].c = c
  BY <1>6
<1>8. frame[i].copy # NoCall
  BY <1>3, ArtifactAssumption DEF ArtifactAssumption
<1>. QED  BY <1>2, <1>3, <1>5, <1>6, <1>7, <1>8

LEMMA Registered ==
    ASSUME Inv, NEW i \in Callers, NEW c \in DOMAIN artifact, artifact'[c] # artifact[c],
           Register(i)
    PROVE  /\ pc[i] \in {"cascade", "register"} /\ File(i).c = c
           /\ frame[i].n \in DOMAIN frame[i].files
<1>1. Typed /\ FramesOk /\ artifact \in Snapshots
  BY DEF Inv, LifecycleInv, Typed
<1>2. /\ File(i).c \in Contents /\ pc[i] \in {"cascade", "register"}
      /\ frame[i].n \in DOMAIN frame[i].files /\ \E r \in Records : Upsert(File(i).c, r)
  BY <1>1, RegisterFacts
<1>3. \A x \in DOMAIN artifact \ {File(i).c} : artifact'[x] = artifact[x]
  BY <1>1, <1>2, UpsertFacts
<1>. QED  BY <1>2, <1>3

LEMMA MarkedStale ==
    ASSUME Inv, NEW i \in Callers, NEW c \in DOMAIN artifact, artifact'[c] # artifact[c],
           StalePrior(i)
    PROVE  artifact'[c].status = "stale"
<1>1. Typed /\ FramesOk /\ artifact \in Snapshots
  BY DEF Inv, LifecycleInv, Typed
<1>2. PICK x \in Contents, r \in Records : Upsert(x, r) /\ r.status = "stale"
  BY <1>1, StalePriorFacts
<1>. QED  BY <1>1, <1>2, UpsertFacts

\* A stale artifact is brought back only after its content was, or by a call that
\* had listed its content, or copied its record, before it went stale: the hash of
\* the source that a call checks does not stand between the copy and the write.
THEOREM StaleComesBackAsSeen == Spec => StaleStaysStale
<1>1. ASSUME Inv, [Next]_vars, artifact' # artifact, NEW c \in DOMAIN artifact,
             artifact[c].status = "stale", artifact'[c].status # "stale"
      PROVE  \/ c \in restored
             \/ \E i \in Callers : \/ frame[i].c = c /\ frame[i].copy # NoCall
                                      /\ frame[i].copy.at # artifact[c].at
                                   \/ \E n \in DOMAIN frame[i].files : frame[i].files[n].c = c
  <2>1. Next
    BY <1>1 DEF vars
  <2>2. PICK i \in Callers : WritesBack(i) \/ StalePrior(i) \/ Register(i)
    BY <1>1, <2>1, Writers
  <2>3. CASE WritesBack(i)
    <3>1. frame[i].c = c /\ frame[i].copy # NoCall /\ pc[i] \in CopyPlaces
      BY <1>1, <2>3, Written
    <3>2. CASE frame[i].copy.at = artifact[c].at
      <4>1. CopyDated(i)
        BY <1>1 DEF Inv, LifecycleInv, RestoredInv
      <4>. QED  BY <1>1, <3>1, <3>2, <4>1 DEF CopyDated
    <3>. QED  BY <3>1, <3>2
  <2>4. CASE StalePrior(i)
    BY <1>1, <2>4, MarkedStale
  <2>5. CASE Register(i)
    BY <1>1, <2>5, Registered DEF File
  <2>. QED  BY <2>2, <2>3, <2>4, <2>5
<1>2. Inv /\ [Next]_vars =>
        [\A c \in DOMAIN artifact :
          artifact[c].status = "stale" /\ artifact'[c].status # "stale" =>
              \/ c \in restored
              \/ \E i \in Callers : \/ frame[i].c = c /\ frame[i].copy # NoCall
                                       /\ frame[i].copy.at # artifact[c].at
                                    \/ \E n \in DOMAIN frame[i].files : frame[i].files[n].c = c]_artifact
  BY <1>1
<1>. QED  BY <1>2, CorpusInvariant, PTL DEF Spec, StaleStaysStale

\* A text that was parsed in the cloud gives way only to a write from a copy made
\* before it, or while another parse ran or had failed, to an ingestion that found the
\* artifact not live, or along with a stale record.
THEOREM CloudTextKept == Spec => TextKept
<1>1. ASSUME Inv, [Next]_vars, artifact' # artifact, NEW c \in DOMAIN artifact,
             artifact[c].text = "cloud", artifact'[c].text # "cloud"
      PROVE  \/ artifact[c].status = "stale" \/ artifact'[c].status = "stale"
             \/ \E i \in Callers : /\ frame[i].c = c /\ frame[i].copy # NoCall
                                   /\ \/ frame[i].copy.text # "cloud"
                                      \/ frame[i].copy.status # "parsed"
             \/ \E i \in Callers : pc[i] \in {"cascade", "register"} /\ File(i).c = c
  <2>1. Next
    BY <1>1 DEF vars
  <2>2. PICK i \in Callers : WritesBack(i) \/ StalePrior(i) \/ Register(i)
    BY <1>1, <2>1, Writers
  <2>3. CASE WritesBack(i)
    BY <1>1, <2>3, Written
  <2>4. CASE StalePrior(i)
    BY <1>1, <2>4, MarkedStale
  <2>5. CASE Register(i)
    BY <1>1, <2>5, Registered
  <2>. QED  BY <2>2, <2>3, <2>4, <2>5
<1>2. Inv /\ [Next]_vars =>
        [\A c \in DOMAIN artifact :
          artifact[c].text = "cloud" /\ artifact'[c].text # "cloud" =>
              \/ artifact[c].status = "stale" \/ artifact'[c].status = "stale"
              \/ \E i \in Callers : /\ frame[i].c = c /\ frame[i].copy # NoCall
                                    /\ \/ frame[i].copy.text # "cloud"
                                       \/ frame[i].copy.status # "parsed"
              \/ \E i \in Callers : pc[i] \in {"cascade", "register"} /\ File(i).c = c]_artifact
  BY <1>1
<1>. QED  BY <1>2, CorpusInvariant, PTL DEF Spec, TextKept
=============================================================================
