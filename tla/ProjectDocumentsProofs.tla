------------------------ MODULE ProjectDocumentsProofs ------------------------
(***************************************************************************)
(* Proofs about ProjectDocuments, and about WorkMemory whose calls it      *)
(* interleaves with its own: for any callers, work items, evidence,        *)
(* submissions, sections and contents, and any number of calls.            *)
(***************************************************************************)
EXTENDS ProjectDocuments, FiniteSetTheorems, TLAPS

-----------------------------------------------------------------------------
(***************************************************************************)
(* Part 1: what the variables hold, and what a call has read by the place  *)
(* it is at.                                                               *)
(***************************************************************************)

Kinds == {"fact", "lesson", "decision", "open_question"}
Seeds == Hashes \cup Checkpoints \cup Artifacts
Ids   == Seeds \X Nat \X Kinds \X STRING

Texts       == {"ok", "secret", "short"}
Submissions == [kind : Kinds, statement : STRING, scope : STRING \cup {NewScope},
                refs : SUBSET Refs, text : Texts]
Verdicts    == {"accepted", "rejected", "quarantined"}
Memories    == [sub : Submissions, status : {"candidate"} \cup Verdicts, event : BOOLEAN]
Documents   == [revision : Versions \cup {"none", "new"}, parent : Docs,
                links : SUBSET Sections]
Copies      == {NoCall} \cup Memories \cup Documents
Frames      == [since : Nat, base : Nat, n : Nat, copy : Copies,
                verdict : {"none"} \cup Verdicts, listed : SUBSET Ids]
WorkItems   == [status : {"absent", "in_progress"} \cup Outcomes,
                hash : Hashes \cup {NoHash}, listed : SUBSET Ids]

WorkPlaces    == {"persist", "candidate", "evaluate", "verdict", "enqueue", "rewrite"}
SectionPlaces == {"section", "unlink", "unlinked", "link", "linked", "audit", "audited"}
CopyPlaces    == {"main", "section", "unlinked", "linked", "audited"}
Places == WorkPlaces \cup SectionPlaces \cup {"idle", "bootstrap", "main", "propose"}

\* A call that ends in a result, and one that changes a memory.
Results(i) ==
    /\ call[i].op \in {"finish", "capture", "publish"}
    /\ call[i].work \in Works /\ call[i].seed \in Seeds
    /\ call[i].op = "finish" => call[i].seed \in Hashes /\ call[i].outcome \in Outcomes
    /\ \A n \in DOMAIN call[i].bundle : call[i].bundle[n] \in Submission
Reconciles(i) ==
    call[i].op = "reconcile" /\ call[i].memory \in DOMAIN memory /\ frame[i].copy \in Memories

CallTyped(i) ==
    /\ pc[i] \in {"persist", "candidate", "enqueue"} => Results(i)
    /\ pc[i] = "candidate" => frame[i].n \in DOMAIN call[i].bundle
    /\ pc[i] = "rewrite" => Reconciles(i)
    /\ pc[i] \in {"evaluate", "verdict"} =>
          Reconciles(i) \/ (Results(i) /\ frame[i].n \in DOMAIN call[i].bundle)
    /\ pc[i] = "verdict" => frame[i].verdict \in Verdicts
    /\ pc[i] = "bootstrap" => call[i].op = "bootstrap"
    /\ pc[i] = "main" => call[i].op = "main"
    /\ pc[i] = "propose" => call[i].op = "propose" /\ call[i].proposal \in Proposals
    /\ pc[i] \in SectionPlaces =>
          /\ call[i].op = "section"
          /\ call[i].doc \in Sections /\ call[i].from \in Docs /\ call[i].to \in Docs
    /\ pc[i] \in CopyPlaces => frame[i].copy \in Documents

CallersTyped ==
    /\ rev \in Nat
    /\ pc \in [Callers -> Places] /\ DOMAIN call = Callers /\ frame \in [Callers -> Frames]
    /\ \A i \in Callers : frame[i].since <= rev /\ frame[i].base <= rev

RecordsTyped ==
    /\ solo \in BOOLEAN
    /\ work \in [Works -> WorkItems] /\ DOMAIN checkpoints = Checkpoints
    /\ closedAt \in [Works -> Nat]
    /\ DOMAIN memory \subseteq Ids /\ \A m \in DOMAIN memory : memory[m] \in Memories
    /\ doc \in [Docs -> Documents] /\ proposed \in [Proposals -> Nat]
    /\ setAt \in [Docs -> Nat]

TypeInv == CallersTyped /\ RecordsTyped /\ \A i \in Callers : CallTyped(i)

-----------------------------------------------------------------------------
(***************************************************************************)
(* Part 2: the memories.                                                   *)
(***************************************************************************)

\* The gates were evaluated on the present records, for as long as nobody has
\* published since the base of the verdict.
VerdictHolds(i) ==
    pc[i] = "verdict" /\ frame[i].base = rev =>
        frame[i].verdict = Verdict(Current(i).id, Current(i).sub)

\* Whoever has a validation event, or is on its way into a list, was judged.
EventsAreJudged ==
    /\ \A m \in DOMAIN memory : memory[m].event => m \in judged
    /\ \A i \in Callers : frame[i].listed \subseteq judged
    /\ \A i \in Callers : pc[i] = "rewrite" /\ frame[i].copy.event => call[i].memory \in judged

MemoryInv ==
    /\ vouched \subseteq DOMAIN memory
    /\ VouchedAgree
    /\ \A i \in Callers : VerdictHolds(i)

ListInv == EventsAreJudged /\ ListedWasJudged

\* A closeout that is under way began while the work item had no result, or
\* before the result it has was stored.
CloseoutBegan(i) ==
    /\ pc[i] # "idle" /\ call[i].op = "finish"
    /\ work[call[i].work].hash # NoHash
    => frame[i].since < closedAt[call[i].work]

CloseoutInv ==
    /\ \A w \in Works : work[w].hash # NoHash => work[w].status # "absent"
    /\ \A i \in Callers : CloseoutBegan(i)

-----------------------------------------------------------------------------
(***************************************************************************)
(* Part 3: the documents.                                                  *)
(***************************************************************************)

\* The document has the revision the call goes by, or was stored after the call
\* began; what does not exist has the revision "none".
AsSeen(x, i, d) == x = doc[d].revision \/ frame[i].since < setAt[d]

Fetched(i) ==
    LET c == call[i]
        copy == frame[i].copy
    IN
    /\ pc[i] = "bootstrap" => AsSeen("none", i, Project)
    /\ pc[i] = "main" => AsSeen(c.expected, i, Project)
    /\ pc[i] = "section" => AsSeen(c.expected, i, c.doc)
    /\ pc[i] = "unlinked" => AsSeen(copy.revision, i, c.from)
    /\ pc[i] = "linked" => AsSeen(copy.revision, i, c.to)
    /\ pc[i] = "audited" => AsSeen(copy.revision, i, c.doc)
    /\ pc[i] \in SectionPlaces => Present(c.from) /\ Present(c.to)
    /\ pc[i] \in SectionPlaces \ {"section"} => Present(c.doc)
    /\ pc[i] \in CopyPlaces => copy.revision # "none" /\ Present(copy.parent)

DocumentInv ==
    /\ \A d \in Docs : Present(d) => doc[d].revision # "none" /\ Present(doc[d].parent)
    /\ \A i \in Callers : Fetched(i)

-----------------------------------------------------------------------------
(***************************************************************************)
(* Part 4: calls that follow one another.                                  *)
(***************************************************************************)

Alone == \A i, j \in Callers : pc[i] # "idle" /\ pc[j] # "idle" => i = j

\* The section is linked by exactly its parent; by nobody but d.
Linked(s) == \A d \in Docs : s \in doc[d].links <=> Present(s) /\ doc[s].parent = d
LinkedOnlyBy(s, e) == \A d \in Docs : s \in doc[d].links => d = e

Relinking == {"unlink", "unlinked", "link", "linked"}

\* How far the call has come with its documents.
Progress(i) ==
    LET c == call[i] IN
    /\ pc[i] = "bootstrap" => ~Present(Project)
    /\ pc[i] = "main" => frame[i].copy.links = doc[Project].links
    /\ pc[i] = "section" =>
          /\ frame[i].copy.links = doc[c.doc].links /\ frame[i].copy.parent = c.to
          /\ c.from = IF Present(c.doc) THEN doc[c.doc].parent ELSE c.to
    /\ pc[i] \in Relinking => doc[c.doc].parent = c.to
    /\ pc[i] \in {"unlink", "unlinked"} => LinkedOnlyBy(c.doc, c.from)
    /\ pc[i] \in {"link", "linked"} => LinkedOnlyBy(c.doc, c.to)
    /\ pc[i] = "unlinked" => frame[i].copy = doc[c.from]
    /\ pc[i] = "linked" => frame[i].copy = doc[c.to]
    /\ pc[i] = "audited" => frame[i].copy = doc[c.doc]
    /\ pc[i] = "propose" => proposed[c.proposal] = 0

LinksInv ==
    /\ \A s \in Sections :
          (\A i \in Callers : pc[i] \in Relinking => call[i].doc # s) => Linked(s)
    /\ \A p \in Proposals : proposed[p] <= 1
    /\ \A i \in Callers : Progress(i)

\* What is stored has its packet, or a call that is about to enqueue it.
Enqueues(k) == \E i \in Callers : pc[i] = "enqueue" /\ <<call[i].work, call[i].seed>> = k
PacketsInv ==
    /\ \A w \in Works : work[w].hash # NoHash =>
          <<w, work[w].hash>> \in queued \/ Enqueues(<<w, work[w].hash>>)
    /\ \A a \in artifacts : a \in queued \/ Enqueues(a)
    /\ \A c \in Checkpoints : checkpoints[c] # NoCall =>
          \E w \in Works : <<w, c>> \in queued \/ Enqueues(<<w, c>>)

SoloInv == solo => Alone /\ LinksInv /\ PacketsInv

Inv == TypeInv /\ MemoryInv /\ ListInv /\ CloseoutInv /\ DocumentInv /\ SoloInv

-----------------------------------------------------------------------------
(***************************************************************************)
(* Proofs of part 1.                                                       *)
(***************************************************************************)

LEMMA FrameBegins ==
    ASSUME NEW f \in Frames, NEW r \in Nat
    PROVE  LET g == [f EXCEPT !.since = r]
           IN  /\ g \in Frames /\ g.since = r
               /\ g.base = f.base /\ g.n = f.n /\ g.verdict = f.verdict
               /\ g.listed = f.listed /\ g.copy = f.copy
BY DEF Frames

LEMMA FrameCopies ==
    ASSUME NEW f \in Frames, NEW c \in Copies
    PROVE  LET g == [f EXCEPT !.copy = c]
           IN  /\ g \in Frames /\ g.copy = c
               /\ g.since = f.since /\ g.base = f.base /\ g.n = f.n
               /\ g.verdict = f.verdict /\ g.listed = f.listed
BY DEF Frames, Copies

LEMMA FrameJudges ==
    ASSUME NEW f \in Frames, NEW r \in Nat, NEW v \in Verdicts
    PROVE  LET g == [f EXCEPT !.base = r, !.verdict = v]
           IN  /\ g \in Frames /\ g.base = r /\ g.verdict = v
               /\ g.since = f.since /\ g.n = f.n /\ g.listed = f.listed /\ g.copy = f.copy
BY DEF Frames

LEMMA FrameLists ==
    ASSUME NEW f \in Frames, NEW id \in Ids
    PROVE  LET g == Listed(f, id)
           IN  /\ g \in Frames /\ g.since = f.since /\ g.base = f.base
               /\ g.listed = f.listed \cup {id} /\ g.copy = f.copy
<1>1. f.listed \cup {id} \in SUBSET Ids /\ f.n + 1 \in Nat
  BY DEF Frames
<1>. QED  BY <1>1 DEF Frames, Listed

LEMMA NoFrameTyped ==
    /\ NoFrame \in Frames
    /\ NoFrame.since = 0 /\ NoFrame.base = 0 /\ NoFrame.listed = {}
    /\ NoFrame.copy = NoCall
<1>1. NoCall \in Copies /\ {} \in SUBSET Ids
  BY DEF Copies
<1>. QED  BY <1>1 DEF NoFrame, Frames

\* Caller i goes to a place, with a call and a frame; the others stay.
Goes(i, place, c, f) ==
    /\ pc' \in [Callers -> Places] /\ DOMAIN call' = Callers /\ frame' \in [Callers -> Frames]
    /\ pc'[i] = place /\ call'[i] = c /\ frame'[i] = f
    /\ \A j \in Callers : j # i => pc'[j] = pc[j] /\ call'[j] = call[j] /\ frame'[j] = frame[j]

Begins(i, place, c, f) ==
    /\ Goes(i, place, c, [f EXCEPT !.since = rev])
    /\ pc[i] = "idle" /\ solo' = (solo /\ \A j \in Callers : pc[j] = "idle")
    /\ solo' \in BOOLEAN /\ rev' = rev

LEMMA BeginMoves ==
    ASSUME CallersTyped, NEW i \in Callers, NEW c, NEW place \in Places, NEW f \in Frames,
           Begin(i, c, place, f)
    PROVE  Begins(i, place, c, f)
BY FrameBegins DEF Begin, Begins, Goes, CallersTyped

LEMMA GoToMoves ==
    ASSUME CallersTyped, NEW i \in Callers, NEW place \in Places, NEW f \in Frames,
           GoTo(i, place, f)
    PROVE  Goes(i, place, call[i], f) /\ solo' = solo
BY DEF GoTo, Goes, CallersTyped

LEMMA ReturnMoves ==
    ASSUME CallersTyped, NEW i \in Callers, Return(i)
    PROVE  Goes(i, "idle", NoCall, NoFrame)
BY NoFrameTyped DEF Return, Goes, CallersTyped, Places

\* What a move does to the types, given what it says of its own caller.
LEMMA MoveTyped ==
    ASSUME TypeInv, NEW i \in Callers, NEW place, NEW c, NEW f, Goes(i, place, c, f),
           rev' \in {rev, rev + 1}, f.since <= rev', f.base <= rev',
           DOMAIN memory \subseteq DOMAIN memory', CallTyped(i)', RecordsTyped'
    PROVE  TypeInv'
<1>1. ASSUME NEW j \in Callers, j # i
      PROVE  CallTyped(j)' /\ frame'[j].since <= rev' /\ frame'[j].base <= rev'
  <2>1. pc'[j] = pc[j] /\ call'[j] = call[j] /\ frame'[j] = frame[j]
    BY <1>1 DEF Goes
  <2>2. CallTyped(j)'
    BY <2>1 DEF TypeInv, CallTyped, Results, Reconciles
  <2>3. frame[j] \in Frames /\ rev \in Nat /\ frame[j].since <= rev /\ frame[j].base <= rev
    BY DEF TypeInv, CallersTyped
  <2>. QED  BY <2>1, <2>2, <2>3 DEF Frames
<1>2. frame'[i] = f /\ rev \in Nat
  BY DEF Goes, TypeInv, CallersTyped
<1>. QED  BY <1>1, <1>2 DEF Goes, TypeInv, CallersTyped

\* Steps of no caller.
LEMMA StillTyped ==
    ASSUME TypeInv, UNCHANGED callVars, rev' \in {rev, rev + 1},
           DOMAIN memory \subseteq DOMAIN memory', RecordsTyped'
    PROVE  TypeInv'
<1>1. ASSUME NEW j \in Callers
      PROVE  CallTyped(j)' /\ frame'[j].since <= rev' /\ frame'[j].base <= rev'
  <2>1. CallTyped(j)'
    BY DEF callVars, TypeInv, CallTyped, Results, Reconciles
  <2>2. frame[j] \in Frames /\ rev \in Nat /\ frame[j].since <= rev /\ frame[j].base <= rev
    BY DEF TypeInv, CallersTyped
  <2>. QED  BY <2>1, <2>2 DEF Frames, callVars
<1>. QED  BY <1>1 DEF callVars, TypeInv, CallersTyped

\* The memory a call is at, and what an edit of the memories leaves.
LEMMA CurrentTyped ==
    ASSUME TypeInv, NEW i \in Callers,
           Reconciles(i) \/ (Results(i) /\ frame[i].n \in DOMAIN call[i].bundle)
    PROVE  Current(i).id \in Ids /\ Current(i).sub \in Submissions
<1>1. CASE Reconciles(i)
  BY <1>1 DEF Reconciles, Current, Memories, TypeInv, RecordsTyped
<1>2. CASE Results(i) /\ frame[i].n \in DOMAIN call[i].bundle
  <2>. DEFINE s == call[i].bundle[frame[i].n]
  <2>1. Current(i) = [id |-> MemoryId(call[i].seed, frame[i].n, s), sub |-> s]
    BY <1>2 DEF Results, Current
  <2>2. s \in Submission /\ call[i].seed \in Seeds
    BY <1>2 DEF Results
  <2>3. s \in Submissions /\ s.kind \in Kinds /\ s.statement \in STRING
    BY <2>2 DEF Submission, Submissions, Kinds, Texts
  <2>4. frame[i].n \in Nat
    BY DEF TypeInv, CallersTyped, Frames
  <2>. HIDE DEF s
  <2>5. MemoryId(call[i].seed, frame[i].n, s) \in Ids
    BY <2>2, <2>3, <2>4 DEF MemoryId, Ids
  <2>. QED  BY <2>1, <2>3, <2>5
<1>. QED  BY <1>1, <1>2

LEMMA MemoryWritten ==
    ASSUME RecordsTyped, NEW id \in Ids, NEW m \in Memories, memory' = With(id, m)
    PROVE  /\ DOMAIN memory' = DOMAIN memory \cup {id} /\ DOMAIN memory' \subseteq Ids
           /\ memory'[id] = m
           /\ \A x \in DOMAIN memory : x # id => memory'[x] = memory[x]
           /\ \A x \in DOMAIN memory' : memory'[x] \in Memories
BY DEF With, RecordsTyped

LEMMA RecordsStay ==
    ASSUME RecordsTyped, solo' \in BOOLEAN,
           UNCHANGED <<work, memory, checkpoints, closedAt, doc, proposed, setAt>>
    PROVE  RecordsTyped'
BY DEF RecordsTyped

\* The moves of the calls that produce memory.
LEMMA ReadExistingMoves ==
    ASSUME TypeInv, NEW i \in Callers, ReadExisting(i)
    PROVE  LET id == Current(i).id
           IN  /\ pc[i] = "persist" /\ Results(i) /\ frame[i].n \in DOMAIN call[i].bundle
               /\ id \in Ids /\ solo' = solo
               /\ \/ HasVerdict(id) /\ Goes(i, "persist", call[i], Listed(frame[i], id))
                  \/ Goes(i, "candidate", call[i], frame[i])
<1>. DEFINE id == Current(i).id
<1>1. pc[i] = "persist" /\ Results(i) /\ frame[i].n \in DOMAIN call[i].bundle
  BY DEF ReadExisting, TypeInv, CallTyped
<1>2. id \in Ids
  BY <1>1, CurrentTyped
<1>3. frame[i] \in Frames /\ CallersTyped
  BY DEF TypeInv, CallersTyped
<1>4. "persist" \in Places /\ "candidate" \in Places
  BY DEF Places, WorkPlaces
<1>5. IF HasVerdict(id) THEN GoTo(i, "persist", Listed(frame[i], id))
      ELSE GoTo(i, "candidate", frame[i])
  BY DEF ReadExisting
<1>. HIDE DEF id
<1>6. CASE HasVerdict(id)
  <2>1. Listed(frame[i], id) \in Frames
    BY <1>2, <1>3, FrameLists
  <2>. QED  BY <1>1, <1>2, <1>3, <1>4, <1>5, <1>6, <2>1, GoToMoves DEF id
<1>7. CASE ~HasVerdict(id)
  BY <1>1, <1>2, <1>3, <1>4, <1>5, <1>7, GoToMoves DEF id
<1>. QED  BY <1>6, <1>7

LEMMA WriteCandidateMoves ==
    ASSUME TypeInv, NEW i \in Callers, WriteCandidate(i)
    PROVE  /\ pc[i] = "candidate" /\ Results(i) /\ frame[i].n \in DOMAIN call[i].bundle
           /\ Current(i).id \in Ids /\ Candidate(Current(i).sub) \in Memories
           /\ solo' = solo /\ Goes(i, "evaluate", call[i], frame[i])
<1>1. pc[i] = "candidate" /\ Results(i) /\ frame[i].n \in DOMAIN call[i].bundle
  BY DEF WriteCandidate, TypeInv, CallTyped
<1>2. Current(i).id \in Ids /\ Current(i).sub \in Submissions
  BY <1>1, CurrentTyped
<1>3. Candidate(Current(i).sub) \in Memories
  BY <1>2 DEF Candidate, Memories
<1>4. frame[i] \in Frames /\ CallersTyped /\ "evaluate" \in Places
  BY DEF TypeInv, CallersTyped, Places, WorkPlaces
<1>5. GoTo(i, "evaluate", frame[i])
  BY DEF WriteCandidate
<1>. QED  BY <1>1, <1>2, <1>3, <1>4, <1>5, GoToMoves

LEMMA EvaluateMoves ==
    ASSUME TypeInv, NEW i \in Callers, Evaluate(i)
    PROVE  LET m == Current(i)
               v == Verdict(m.id, m.sub)
           IN  /\ pc[i] = "evaluate"
               /\ Reconciles(i) \/ (Results(i) /\ frame[i].n \in DOMAIN call[i].bundle)
               /\ v \in Verdicts /\ solo' = solo
               /\ Goes(i, "verdict", call[i], [frame[i] EXCEPT !.base = rev, !.verdict = v])
<1>. DEFINE v == Verdict(Current(i).id, Current(i).sub)
<1>1. pc[i] = "evaluate" /\ (Reconciles(i) \/ (Results(i) /\ frame[i].n \in DOMAIN call[i].bundle))
  BY DEF Evaluate, TypeInv, CallTyped
<1>2. v \in Verdicts
  BY DEF Verdict, Verdicts
<1>3. frame[i] \in Frames /\ CallersTyped /\ "verdict" \in Places /\ rev \in Nat
  BY DEF TypeInv, CallersTyped, Places, WorkPlaces
<1>4. GoTo(i, "verdict", [frame[i] EXCEPT !.base = rev, !.verdict = v])
  BY DEF Evaluate
<1>. HIDE DEF v
<1>5. [frame[i] EXCEPT !.base = rev, !.verdict = v] \in Frames
  BY <1>2, <1>3, FrameJudges
<1>6. solo' = solo /\ Goes(i, "verdict", call[i], [frame[i] EXCEPT !.base = rev, !.verdict = v])
  BY <1>3, <1>4, <1>5, GoToMoves
<1>. QED  BY <1>1, <1>2, <1>6 DEF v

LEMMA StoreVerdictMoves ==
    ASSUME TypeInv, NEW i \in Callers, StoreVerdict(i)
    PROVE  LET m == Current(i)
               stored == [sub |-> m.sub, status |-> frame[i].verdict, event |-> TRUE]
           IN  /\ pc[i] = "verdict" /\ frame[i].base = rev /\ rev' = rev + 1
               /\ m.id \in Ids /\ stored \in Memories /\ memory' = With(m.id, stored)
               /\ solo' = solo
               /\ \/ Reconciles(i) /\ Goes(i, "idle", NoCall, NoFrame)
                  \/ Results(i) /\ Goes(i, "persist", call[i], Listed(frame[i], m.id))
<1>. DEFINE m == Current(i)
            stored == [sub |-> m.sub, status |-> frame[i].verdict, event |-> TRUE]
<1>1. pc[i] = "verdict" /\ frame[i].base = rev /\ rev' = rev + 1
      /\ (Reconciles(i) \/ (Results(i) /\ frame[i].n \in DOMAIN call[i].bundle))
      /\ frame[i].verdict \in Verdicts
  BY DEF StoreVerdict, Publish, TypeInv, CallTyped
<1>2. m.id \in Ids /\ m.sub \in Submissions
  BY <1>1, CurrentTyped
<1>3. frame[i] \in Frames /\ CallersTyped /\ "persist" \in Places
  BY DEF TypeInv, CallersTyped, Places, WorkPlaces
<1>4. /\ memory' = With(m.id, stored)
      /\ IF call[i].op = "reconcile" THEN Return(i) /\ UNCHANGED <<failures, solo>>
         ELSE GoTo(i, "persist", Listed(frame[i], m.id))
  BY DEF StoreVerdict
<1>. HIDE DEF m
<1>5. stored \in Memories
  BY <1>1, <1>2 DEF Memories
<1>. HIDE DEF stored
<1>6. CASE call[i].op = "reconcile"
  <2>1. Reconciles(i)
    BY <1>1, <1>6 DEF Results
  <2>. QED  BY <1>1, <1>2, <1>3, <1>4, <1>5, <1>6, <2>1, ReturnMoves DEF m, stored
<1>7. CASE call[i].op # "reconcile"
  <2>1. Results(i)
    BY <1>1, <1>7 DEF Reconciles
  <2>2. Listed(frame[i], m.id) \in Frames
    BY <1>2, <1>3, FrameLists
  <2>3. GoTo(i, "persist", Listed(frame[i], m.id))
    BY <1>4, <1>7
  <2>4. Goes(i, "persist", call[i], Listed(frame[i], m.id)) /\ solo' = solo
    BY <1>3, <2>2, <2>3, GoToMoves
  <2>. QED  BY <1>1, <1>2, <1>4, <1>5, <2>1, <2>4 DEF m, stored
<1>. QED  BY <1>6, <1>7

LEMMA VerdictRefusedMoves ==
    ASSUME TypeInv, NEW i \in Callers, VerdictRefused(i)
    PROVE  pc[i] = "verdict" /\ Goes(i, "idle", NoCall, NoFrame) /\ solo' = solo
BY ReturnMoves DEF VerdictRefused, TypeInv

LEMMA FailMoves ==
    ASSUME TypeInv, NEW i \in Callers, Fail(i)
    PROVE  Goes(i, "idle", NoCall, NoFrame) /\ solo' = FALSE
BY ReturnMoves DEF Fail, TypeInv

LEMMA BeginFinishMoves ==
    ASSUME TypeInv, NEW i \in Callers, BeginFinish(i)
    PROVE  \E w \in Works, h \in Hashes, b \in Bundles, s \in Outcomes :
             LET c == [op |-> "finish", work |-> w, seed |-> h, bundle |-> b, outcome |-> s]
             IN  /\ work[w].status # "absent" /\ work[w].hash = NoHash
                 /\ Begins(i, "persist", c, NoFrame)
<1>1. PICK w \in Works, h \in Hashes, b \in Bundles, s \in Outcomes :
         /\ work[w].status # "absent" /\ work[w].hash = NoHash
         /\ Begin(i, [op |-> "finish", work |-> w, seed |-> h, bundle |-> b, outcome |-> s],
                  "persist", NoFrame)
  BY DEF BeginFinish, MayClose
<1>. DEFINE c == [op |-> "finish", work |-> w, seed |-> h, bundle |-> b, outcome |-> s]
<1>2. NoFrame \in Frames /\ CallersTyped /\ "persist" \in Places
  BY NoFrameTyped DEF TypeInv, Places, WorkPlaces
<1>3. Begin(i, c, "persist", NoFrame)
  BY <1>1
<1>. HIDE DEF c
<1>4. Begins(i, "persist", c, NoFrame)
  BY <1>2, <1>3, BeginMoves
<1>. QED  BY <1>1, <1>4 DEF c

LEMMA BeginCaptureMoves ==
    ASSUME TypeInv, NEW i \in Callers, BeginCapture(i)
    PROVE  \E w \in Works, p \in Checkpoints :
             LET c == [op |-> "capture", work |-> w, seed |-> p, bundle |-> BundleOf[p]]
             IN  Begins(i, "persist", c, NoFrame)
<1>1. PICK w \in Works, p \in Checkpoints :
         Begin(i, [op |-> "capture", work |-> w, seed |-> p, bundle |-> BundleOf[p]],
               "persist", NoFrame)
  BY DEF BeginCapture
<1>. DEFINE c == [op |-> "capture", work |-> w, seed |-> p, bundle |-> BundleOf[p]]
<1>2. NoFrame \in Frames /\ CallersTyped /\ "persist" \in Places
  BY NoFrameTyped DEF TypeInv, Places, WorkPlaces
<1>3. Begin(i, c, "persist", NoFrame)
  BY <1>1
<1>. HIDE DEF c
<1>4. Begins(i, "persist", c, NoFrame)
  BY <1>2, <1>3, BeginMoves
<1>. QED  BY <1>1, <1>4 DEF c

LEMMA BeginPublishMoves ==
    ASSUME TypeInv, NEW i \in Callers, BeginPublish(i)
    PROVE  \E w \in Works, a \in Artifacts :
             LET c == [op |-> "publish", work |-> w, seed |-> a, bundle |-> <<>>]
             IN  Begins(i, "persist", c, NoFrame)
<1>1. PICK w \in Works, a \in Artifacts :
         Begin(i, [op |-> "publish", work |-> w, seed |-> a, bundle |-> <<>>],
               "persist", NoFrame)
  BY DEF BeginPublish
<1>. DEFINE c == [op |-> "publish", work |-> w, seed |-> a, bundle |-> <<>>]
<1>2. NoFrame \in Frames /\ CallersTyped /\ "persist" \in Places
  BY NoFrameTyped DEF TypeInv, Places, WorkPlaces
<1>3. Begin(i, c, "persist", NoFrame)
  BY <1>1
<1>. HIDE DEF c
<1>4. Begins(i, "persist", c, NoFrame)
  BY <1>2, <1>3, BeginMoves
<1>. QED  BY <1>1, <1>4 DEF c

LEMMA ReconciledTyped ==
    ASSUME NEW m \in Memories, NEW r \in Refs,
           NEW action \in {"add_evidence", "narrow_scope", "propose_supersession", "revalidate"}
    PROVE  /\ Reconciled(m, action, r) \in Memories
           /\ Reconciled(m, action, r).event = m.event
<1>1. CASE action = "add_evidence"
  <2>1. [m.sub EXCEPT !.refs = @ \cup {r}] \in Submissions
    BY DEF Memories, Submissions
  <2>2. Reconciled(m, action, r) = [m EXCEPT !.sub = [m.sub EXCEPT !.refs = @ \cup {r}]]
    BY <1>1 DEF Reconciled, Memories, Submissions
  <2>. QED  BY <2>1, <2>2 DEF Memories
<1>2. CASE action = "narrow_scope"
  <2>1. [m.sub EXCEPT !.scope = NewScope] \in Submissions
    BY DEF Memories, Submissions
  <2>2. Reconciled(m, action, r) = [m EXCEPT !.sub = [m.sub EXCEPT !.scope = NewScope]]
    BY <1>2 DEF Reconciled, Memories, Submissions
  <2>. QED  BY <2>1, <2>2 DEF Memories
<1>3. CASE action = "propose_supersession"
  BY <1>3 DEF Reconciled, Memories
<1>4. CASE action = "revalidate"
  BY <1>4 DEF Reconciled
<1>. QED  BY <1>1, <1>2, <1>3, <1>4

LEMMA BeginReconcileMoves ==
    ASSUME TypeInv, NEW i \in Callers, BeginReconcile(i)
    PROVE  \E m \in DOMAIN memory, copy \in Memories :
             /\ copy.event = memory[m].event
             /\ Begins(i, "rewrite", [op |-> "reconcile", memory |-> m],
                       [NoFrame EXCEPT !.copy = copy])
<1>1. PICK m \in DOMAIN memory, r \in Refs,
         action \in {"add_evidence", "narrow_scope", "propose_supersession", "revalidate"} :
         Begin(i, [op |-> "reconcile", memory |-> m], "rewrite",
               [NoFrame EXCEPT !.copy = Reconciled(memory[m], action, r)])
  BY DEF BeginReconcile
<1>. DEFINE c == [op |-> "reconcile", memory |-> m]
            copy == Reconciled(memory[m], action, r)
<1>2. copy \in Memories /\ copy.event = memory[m].event
  BY ReconciledTyped DEF TypeInv, RecordsTyped
<1>3. Begin(i, c, "rewrite", [NoFrame EXCEPT !.copy = copy])
  BY <1>1
<1>. HIDE DEF c, copy
<1>4. [NoFrame EXCEPT !.copy = copy] \in Frames
  BY <1>2, NoFrameTyped, FrameCopies DEF Copies
<1>5. Begins(i, "rewrite", c, [NoFrame EXCEPT !.copy = copy])
  BY <1>3, <1>4, BeginMoves DEF TypeInv, Places, WorkPlaces
<1>. QED  BY <1>2, <1>5 DEF c

LEMMA RewriteMoves ==
    ASSUME TypeInv, NEW i \in Callers, Rewrite(i)
    PROVE  /\ pc[i] = "rewrite" /\ Reconciles(i) /\ solo' = solo
           /\ Goes(i, "evaluate", call[i], frame[i])
<1>1. pc[i] = "rewrite" /\ Reconciles(i) /\ GoTo(i, "evaluate", frame[i])
  BY DEF Rewrite, TypeInv, CallTyped
<1>2. frame[i] \in Frames /\ CallersTyped /\ "evaluate" \in Places
  BY DEF TypeInv, CallersTyped, Places, WorkPlaces
<1>. QED  BY <1>1, <1>2, GoToMoves

LEMMA StoreResultMoves ==
    ASSUME TypeInv, NEW i \in Callers, StoreResult(i)
    PROVE  /\ pc[i] = "persist" /\ Results(i) /\ solo' = solo
           /\ Goes(i, "enqueue", call[i], frame[i])
<1>1. pc[i] = "persist" /\ Results(i) /\ GoTo(i, "enqueue", frame[i])
  BY DEF StoreResult, TypeInv, CallTyped
<1>2. frame[i] \in Frames /\ CallersTyped /\ "enqueue" \in Places
  BY DEF TypeInv, CallersTyped, Places, WorkPlaces
<1>. QED  BY <1>1, <1>2, GoToMoves

LEMMA EnqueueMoves ==
    ASSUME TypeInv, NEW i \in Callers, Enqueue(i)
    PROVE  /\ pc[i] = "enqueue" /\ Results(i) /\ solo' = solo
           /\ Goes(i, "idle", NoCall, NoFrame)
BY ReturnMoves DEF Enqueue, TypeInv, CallTyped

-----------------------------------------------------------------------------
\* The moves of the calls that write documents.
LEMMA Fetches ==
    ASSUME TypeInv, NEW i \in Callers, NEW place \in Places, NEW d \in Docs,
           Fetch(i, place, frame[i], d)
    PROVE  /\ solo' = solo /\ doc[d] \in Documents
           /\ Goes(i, place, call[i], [frame[i] EXCEPT !.copy = doc[d]])
           /\ frame'[i].copy = doc[d] /\ frame'[i].since = frame[i].since
           /\ frame'[i].base = frame[i].base /\ frame'[i].listed = frame[i].listed
<1>1. frame[i] \in Frames /\ CallersTyped /\ doc[d] \in Documents /\ doc[d] \in Copies
  BY DEF TypeInv, CallersTyped, RecordsTyped, Copies
<1>2. [frame[i] EXCEPT !.copy = doc[d]] \in Frames
  BY <1>1, FrameCopies
<1>3. Goes(i, place, call[i], [frame[i] EXCEPT !.copy = doc[d]]) /\ solo' = solo
  BY <1>1, <1>2, GoToMoves DEF Fetch
<1>4. frame'[i] = [frame[i] EXCEPT !.copy = doc[d]]
  BY <1>3 DEF Goes
<1>. QED  BY <1>1, <1>3, <1>4, FrameCopies

LEMMA SectionMoves ==
    ASSUME TypeInv, NEW i \in Callers, NEW place \in Places, GoTo(i, place, frame[i])
    PROVE  Goes(i, place, call[i], frame[i]) /\ solo' = solo
BY GoToMoves DEF TypeInv, CallersTyped

LEMMA DocumentReplaced ==
    ASSUME RecordsTyped, NEW d \in Docs, NEW new \in Documents, Replace(d, new), rev \in Nat
    PROVE  /\ doc' \in [Docs -> Documents] /\ setAt' \in [Docs -> Nat]
           /\ doc'[d] = new /\ \A e \in Docs : e # d => doc'[e] = doc[e] /\ setAt'[e] = setAt[e]
           /\ setAt'[d] = IF new.revision = doc[d].revision THEN setAt[d] ELSE rev + 1
           /\ rev' = rev + 1
BY DEF Replace, RecordsTyped

LEMMA BeginBootstrapMoves ==
    ASSUME TypeInv, NEW i \in Callers, BeginBootstrap(i)
    PROVE  ~Present(Project) /\ Begins(i, "bootstrap", [op |-> "bootstrap"], NoFrame)
<1>1. Begin(i, [op |-> "bootstrap"], "bootstrap", NoFrame) /\ ~Present(Project)
  BY DEF BeginBootstrap
<1>2. CallersTyped /\ NoFrame \in Frames /\ "bootstrap" \in Places
  BY NoFrameTyped DEF TypeInv, Places
<1>. QED  BY <1>1, <1>2, BeginMoves

LEMMA BeginMainMoves ==
    ASSUME TypeInv, NEW i \in Callers, BeginMain(i)
    PROVE  \E v \in Versions, expected \in Versions \cup {"new"} :
             LET copy == [doc[Project] EXCEPT !.revision = v]
             IN  /\ Present(Project) /\ expected = doc[Project].revision
                 /\ copy \in Documents
                 /\ Begins(i, "main", [op |-> "main", expected |-> expected],
                           [NoFrame EXCEPT !.copy = copy])
<1>1. PICK w \in Works, v \in Versions, expected \in Versions \cup {"new"} :
         /\ Present(Project) /\ Expected(Project, expected)
         /\ Begin(i, [op |-> "main", expected |-> expected], "main",
                  [NoFrame EXCEPT !.copy = [doc[Project] EXCEPT !.revision = v]])
  BY DEF BeginMain
<1>. DEFINE copy == [doc[Project] EXCEPT !.revision = v]
            c == [op |-> "main", expected |-> expected]
<1>2. copy \in Documents /\ copy \in Copies
  BY DEF TypeInv, RecordsTyped, Documents, Docs, Copies
<1>3. Begin(i, c, "main", [NoFrame EXCEPT !.copy = copy])
  BY <1>1
<1>. HIDE DEF c, copy
<1>4. [NoFrame EXCEPT !.copy = copy] \in Frames /\ CallersTyped /\ "main" \in Places
  BY <1>2, NoFrameTyped, FrameCopies DEF TypeInv, Places
<1>5. Begins(i, "main", c, [NoFrame EXCEPT !.copy = copy])
  BY <1>3, <1>4, BeginMoves
<1>. QED  BY <1>1, <1>2, <1>5 DEF c, copy, Expected

LEMMA BeginSectionMoves ==
    ASSUME TypeInv, NEW i \in Callers, BeginSection(i)
    PROVE  \E d \in Sections, p \in Docs, v \in Versions, expected \in Versions \cup {"none"} :
             LET copy == [revision |-> v, parent |-> p, links |-> doc[d].links]
                 from == IF Present(d) THEN doc[d].parent ELSE p
             IN  /\ Present(p) /\ p # d /\ expected = doc[d].revision
                 /\ copy \in Documents /\ from \in Docs
                 /\ Begins(i, "section",
                           [op |-> "section", expected |-> expected, doc |-> d,
                            from |-> from, to |-> p],
                           [NoFrame EXCEPT !.copy = copy])
<1>1. PICK w \in Works, d \in Sections, p \in Docs, v \in Versions,
           expected \in Versions \cup {"none"} :
         /\ Present(p) /\ p # d /\ Expected(d, expected)
         /\ Begin(i, [op |-> "section", expected |-> expected, doc |-> d,
                      from |-> IF Present(d) THEN doc[d].parent ELSE p, to |-> p], "section",
                  [NoFrame EXCEPT !.copy = [revision |-> v, parent |-> p, links |-> doc[d].links]])
  BY DEF BeginSection
<1>. DEFINE copy == [revision |-> v, parent |-> p, links |-> doc[d].links]
            from == IF Present(d) THEN doc[d].parent ELSE p
            c == [op |-> "section", expected |-> expected, doc |-> d, from |-> from, to |-> p]
<1>2. d \in Docs /\ doc[d] \in Documents
  BY DEF Docs, TypeInv, RecordsTyped
<1>3. doc[d].links \in SUBSET Sections /\ from \in Docs
  BY <1>2 DEF Documents
<1>4. copy \in Documents /\ copy \in Copies
  BY <1>3 DEF Documents, Copies
<1>5. Begin(i, c, "section", [NoFrame EXCEPT !.copy = copy])
  BY <1>1
<1>. HIDE DEF c, copy
<1>6. [NoFrame EXCEPT !.copy = copy] \in Frames /\ CallersTyped /\ "section" \in Places
  BY <1>4, NoFrameTyped, FrameCopies DEF TypeInv, Places, SectionPlaces
<1>7. Begins(i, "section", c, [NoFrame EXCEPT !.copy = copy])
  BY <1>5, <1>6, BeginMoves
<1>. QED  BY <1>1, <1>3, <1>4, <1>7 DEF c, copy, Expected

LEMMA BeginProposalMoves ==
    ASSUME TypeInv, NEW i \in Callers, BeginProposal(i)
    PROVE  \E p \in Proposals :
             /\ proposed[p] = 0
             /\ Begins(i, "propose", [op |-> "propose", proposal |-> p], NoFrame)
<1>1. PICK p \in Proposals :
         /\ proposed[p] = 0
         /\ Begin(i, [op |-> "propose", proposal |-> p], "propose", NoFrame)
  BY DEF BeginProposal
<1>2. NoFrame \in Frames /\ CallersTyped /\ "propose" \in Places
  BY NoFrameTyped DEF TypeInv, Places
<1>. QED  BY <1>1, <1>2, BeginMoves

\* A call of the documents: where it goes, and that it touches no memory.
DocumentCall(i) ==
    \/ BeginBootstrap(i) \/ Bootstrap(i) \/ BeginMain(i) \/ UpdateMain(i)
    \/ BeginSection(i) \/ UpsertSection(i) \/ ReadPrevious(i) \/ Unlink(i)
    \/ ReadParent(i) \/ Link(i) \/ ReadWritten(i) \/ NoteAudit(i)
    \/ BeginProposal(i) \/ Propose(i)

BeginWork(i) == BeginFinish(i) \/ BeginCapture(i) \/ BeginPublish(i)
WorkCall(i) ==
    \/ ReadExisting(i) \/ WriteCandidate(i) \/ Evaluate(i) \/ StoreVerdict(i)
    \/ VerdictRefused(i) \/ BeginWork(i) \/ StoreResult(i) \/ Enqueue(i)
    \/ BeginReconcile(i) \/ Rewrite(i) \/ Fail(i)

LEMMA NextCases ==
    ASSUME [Next]_vars
    PROVE  \/ UNCHANGED vars
           \/ UNCHANGED docVars /\ \E w \in Works : StartWork(w)
           \/ UNCHANGED docVars /\ \E r \in Refs : Reassess(r)
           \/ UNCHANGED docVars /\ \E i \in Callers : WorkCall(i)
           \/ \E i \in Callers : DocumentCall(i)
BY DEF Next, WorkNext, WorkCall, BeginWork, DocumentCall

-----------------------------------------------------------------------------
\* Every step of a call keeps the types.
LEMMA BeginTyped ==
    ASSUME TypeInv, NEW i \in Callers, NEW place, NEW c, NEW f \in Frames, Begins(i, place, c, f),
           f.base = 0, CallTyped(i)', DOMAIN memory \subseteq DOMAIN memory', RecordsTyped'
    PROVE  TypeInv'
<1>. DEFINE g == [f EXCEPT !.since = rev]
<1>1. rev \in Nat
  BY DEF TypeInv, CallersTyped
<1>2. g.since = rev /\ g.base = 0
  BY <1>1, FrameBegins
<1>3. Goes(i, place, c, g) /\ rev' = rev
  BY DEF Begins
<1>. HIDE DEF g
<1>. QED  BY <1>1, <1>2, <1>3, MoveTyped

LEMMA BeginWorkTyped ==
    ASSUME TypeInv, NEW i \in Callers, BeginWork(i), UNCHANGED docVars
    PROVE  TypeInv'
<1>1. UNCHANGED workVars
  BY DEF BeginWork, BeginFinish, BeginCapture, BeginPublish
<1>2. ASSUME NEW c, Begins(i, "persist", c, NoFrame),
             c.op \in {"finish", "capture", "publish"}, c.work \in Works, c.seed \in Seeds,
             c.op = "finish" => c.seed \in Hashes /\ c.outcome \in Outcomes,
             \A n \in DOMAIN c.bundle : c.bundle[n] \in Submission
      PROVE  TypeInv'
  <2>1. pc'[i] = "persist" /\ call'[i] = c
    BY <1>2 DEF Begins, Goes
  <2>2. CallTyped(i)'
    BY <1>2, <2>1 DEF CallTyped, Results, SectionPlaces, CopyPlaces
  <2>3. RecordsTyped'
    BY <1>1, <1>2, RecordsStay DEF workVars, docVars, Begins, TypeInv
  <2>4. DOMAIN memory \subseteq DOMAIN memory'
    BY <1>1 DEF workVars
  <2>. QED  BY <1>2, <2>2, <2>3, <2>4, BeginTyped, NoFrameTyped
<1>3. CASE BeginFinish(i)
  <2>1. PICK w \in Works, h \in Hashes, b \in Bundles, s \in Outcomes :
           Begins(i, "persist", [op |-> "finish", work |-> w, seed |-> h, bundle |-> b,
                                 outcome |-> s], NoFrame)
    BY <1>3, BeginFinishMoves
  <2>2. \A n \in DOMAIN b : b[n] \in Submission
    BY WorkAssumption
  <2>. QED  BY <1>2, <2>1, <2>2 DEF Seeds
<1>4. CASE BeginCapture(i)
  <2>1. PICK w \in Works, p \in Checkpoints :
           Begins(i, "persist", [op |-> "capture", work |-> w, seed |-> p,
                                 bundle |-> BundleOf[p]], NoFrame)
    BY <1>4, BeginCaptureMoves
  <2>2. \A n \in DOMAIN BundleOf[p] : BundleOf[p][n] \in Submission
    BY WorkAssumption
  <2>. QED  BY <1>2, <2>1, <2>2 DEF Seeds
<1>5. CASE BeginPublish(i)
  <2>1. PICK w \in Works, a \in Artifacts :
           Begins(i, "persist", [op |-> "publish", work |-> w, seed |-> a,
                                 bundle |-> <<>>], NoFrame)
    BY <1>5, BeginPublishMoves
  <2>2. \A n \in DOMAIN <<>> : <<>>[n] \in Submission
    OBVIOUS
  <2>. QED  BY <1>2, <2>1, <2>2 DEF Seeds
<1>. QED  BY <1>3, <1>4, <1>5 DEF BeginWork

LEMMA WorkCallTyped ==
    ASSUME TypeInv, NEW i \in Callers, WorkCall(i), UNCHANGED docVars
    PROVE  TypeInv'
<1>. DEFINE f == frame[i]
<1>1. /\ CallersTyped /\ RecordsTyped /\ f \in Frames /\ rev \in Nat
      /\ f.since \in Nat /\ f.base \in Nat /\ f.since <= rev /\ f.base <= rev
  BY DEF TypeInv, CallersTyped, Frames
<1>2. /\ UNCHANGED <<doc, proposed, setAt>>
      /\ NoFrame.since = 0 /\ NoFrame.base = 0
  BY NoFrameTyped DEF docVars
<1>. HIDE DEF f
<1>3. CASE ReadExisting(i)
  <2>0. UNCHANGED <<rev, workVars>> /\ solo' = solo
    BY <1>3, ReadExistingMoves DEF ReadExisting
  <2>1. UNCHANGED <<rev, workVars>> /\ RecordsTyped'
    BY <1>1, <1>2, <2>0, RecordsStay DEF workVars, RecordsTyped
  <2>2. /\ pc[i] = "persist" /\ Results(i) /\ f.n \in DOMAIN call[i].bundle
        /\ Current(i).id \in Ids
        /\ \/ Goes(i, "persist", call[i], Listed(f, Current(i).id))
           \/ Goes(i, "candidate", call[i], f)
    BY <1>3, ReadExistingMoves DEF f
  <2>3. CallTyped(i)'
    BY <2>2 DEF Goes, CallTyped, Results, SectionPlaces, CopyPlaces
  <2>4. Listed(f, Current(i).id).since = f.since /\ Listed(f, Current(i).id).base = f.base
    BY <1>1, <2>2, FrameLists
  <2>5. rev' = rev /\ memory' = memory
    BY <2>1 DEF workVars
  <2>6. CASE Goes(i, "persist", call[i], Listed(f, Current(i).id))
    BY <1>1, <2>1, <2>3, <2>4, <2>5, <2>6, MoveTyped
  <2>7. CASE Goes(i, "candidate", call[i], f)
    BY <1>1, <2>1, <2>3, <2>5, <2>7, MoveTyped
  <2>. QED  BY <2>2, <2>6, <2>7
<1>4. CASE WriteCandidate(i)
  <2>1. /\ pc[i] = "candidate" /\ Results(i) /\ f.n \in DOMAIN call[i].bundle
        /\ Current(i).id \in Ids /\ Candidate(Current(i).sub) \in Memories
        /\ solo' = solo /\ Goes(i, "evaluate", call[i], f)
    BY <1>4, WriteCandidateMoves DEF f
  <2>2. memory' = With(Current(i).id, Candidate(Current(i).sub)) /\ rev' = rev + 1
        /\ UNCHANGED <<work, checkpoints, closedAt>>
    BY <1>4 DEF WriteCandidate
  <2>3. /\ DOMAIN memory \subseteq DOMAIN memory' /\ DOMAIN memory' \subseteq Ids
        /\ \A x \in DOMAIN memory' : memory'[x] \in Memories
    BY <1>1, <2>1, <2>2, MemoryWritten
  <2>4. RecordsTyped'
    BY <1>1, <1>2, <2>1, <2>2, <2>3 DEF RecordsTyped
  <2>5. CallTyped(i)'
    BY <2>1 DEF Goes, CallTyped, Results, SectionPlaces, CopyPlaces, f
  <2>. QED  BY <1>1, <2>1, <2>2, <2>3, <2>4, <2>5, MoveTyped
<1>5. CASE Evaluate(i)
  <2>. DEFINE v == Verdict(Current(i).id, Current(i).sub)
              g == [f EXCEPT !.base = rev, !.verdict = v]
  <2>1. /\ Reconciles(i) \/ (Results(i) /\ f.n \in DOMAIN call[i].bundle)
        /\ v \in Verdicts /\ solo' = solo /\ Goes(i, "verdict", call[i], g)
    BY <1>5, EvaluateMoves DEF f
  <2>0. UNCHANGED <<rev, workVars>>
    BY <1>5 DEF Evaluate
  <2>2. rev' = rev /\ memory' = memory /\ RecordsTyped'
    BY <1>1, <1>2, <2>0, <2>1, RecordsStay DEF workVars, RecordsTyped
  <2>. HIDE DEF v
  <2>3. /\ g.since = f.since /\ g.base = rev /\ g.n = f.n /\ g.verdict = v
        /\ g.copy = f.copy
    BY <1>1, <2>1 DEF Frames
  <2>. HIDE DEF g
  <2>4. pc'[i] = "verdict" /\ call'[i] = call[i] /\ frame'[i] = g
    BY <2>1 DEF Goes
  <2>5. Reconciles(i)' \/ (Results(i)' /\ frame'[i].n \in DOMAIN call'[i].bundle)
    BY <2>1, <2>2, <2>3, <2>4 DEF Results, Reconciles, f
  <2>6. CallTyped(i)'
    BY <2>1, <2>3, <2>4, <2>5 DEF CallTyped, SectionPlaces, CopyPlaces
  <2>. QED  BY <1>1, <2>1, <2>2, <2>3, <2>6, MoveTyped
<1>6. CASE StoreVerdict(i)
  <2>. DEFINE m == Current(i)
              stored == [sub |-> m.sub, status |-> frame[i].verdict, event |-> TRUE]
  <2>1. /\ rev' = rev + 1 /\ m.id \in Ids /\ stored \in Memories
        /\ memory' = With(m.id, stored) /\ solo' = solo
        /\ \/ Goes(i, "idle", NoCall, NoFrame)
           \/ Results(i) /\ Goes(i, "persist", call[i], Listed(f, m.id))
    BY <1>6, StoreVerdictMoves DEF f
  <2>2. UNCHANGED <<work, checkpoints, closedAt>>
    BY <1>6 DEF StoreVerdict
  <2>. HIDE DEF m, stored
  <2>3. /\ DOMAIN memory \subseteq DOMAIN memory' /\ DOMAIN memory' \subseteq Ids
        /\ \A x \in DOMAIN memory' : memory'[x] \in Memories
    BY <1>1, <2>1, MemoryWritten
  <2>4. RecordsTyped'
    BY <1>1, <1>2, <2>1, <2>2, <2>3 DEF RecordsTyped
  <2>5. CallTyped(i)'
    BY <2>1 DEF Goes, CallTyped, Results, SectionPlaces, CopyPlaces
  <2>6. Listed(f, m.id).since = f.since /\ Listed(f, m.id).base = f.base
    BY <1>1, <2>1, FrameLists
  <2>. QED  BY <1>1, <1>2, <2>1, <2>3, <2>4, <2>5, <2>6, MoveTyped
<1>7. CASE VerdictRefused(i) \/ Fail(i)
  <2>1. Goes(i, "idle", NoCall, NoFrame) /\ solo' \in BOOLEAN
    BY <1>1, <1>7, VerdictRefusedMoves, FailMoves DEF RecordsTyped
  <2>2. rev' = rev /\ memory' = memory /\ RecordsTyped'
    BY <1>1, <1>2, <1>7, <2>1, RecordsStay DEF VerdictRefused, Fail, workVars
  <2>3. CallTyped(i)'
    BY <2>1 DEF Goes, CallTyped, SectionPlaces, CopyPlaces
  <2>. QED  BY <1>1, <1>2, <2>1, <2>2, <2>3, MoveTyped
<1>8. CASE BeginWork(i)
  BY <1>8, BeginWorkTyped
<1>9. CASE StoreResult(i)
  <2>1. /\ Results(i) /\ solo' = solo /\ Goes(i, "enqueue", call[i], f)
    BY <1>9, StoreResultMoves DEF f
  <2>2. /\ rev' = rev + 1 /\ memory' = memory
        /\ work' = IF call[i].op # "finish" THEN work
                   ELSE [work EXCEPT ![call[i].work] =
                           [status |-> call[i].outcome, hash |-> call[i].seed,
                            listed |-> f.listed]]
        /\ closedAt' = IF call[i].op # "finish" THEN closedAt
                       ELSE [closedAt EXCEPT ![call[i].work] = rev + 1]
        /\ checkpoints' = IF call[i].op # "capture" THEN checkpoints
                          ELSE [checkpoints EXCEPT ![call[i].seed] = f.listed]
    BY <1>9 DEF StoreResult, f
  <2>3. call[i].op = "finish" =>
           [status |-> call[i].outcome, hash |-> call[i].seed, listed |-> f.listed] \in WorkItems
    BY <1>1, <2>1 DEF Results, WorkItems, Frames
  <2>4. work' \in [Works -> WorkItems] /\ closedAt' \in [Works -> Nat]
        /\ DOMAIN checkpoints' = Checkpoints
    <3>. DEFINE result == [status |-> call[i].outcome, hash |-> call[i].seed, listed |-> f.listed]
    <3>1. /\ work \in [Works -> WorkItems] /\ closedAt \in [Works -> Nat]
          /\ DOMAIN checkpoints = Checkpoints
      BY <1>1 DEF RecordsTyped
    <3>2. call[i].op = "finish" => result \in WorkItems
      BY <2>3
    <3>3. work' = IF call[i].op # "finish" THEN work ELSE [work EXCEPT ![call[i].work] = result]
      BY <2>2
    <3>. HIDE DEF result
    <3>4. work' \in [Works -> WorkItems]
      BY <3>1, <3>2, <3>3
    <3>5. closedAt' \in [Works -> Nat]
      <4>1. closedAt' = IF call[i].op # "finish" THEN closedAt
                        ELSE [closedAt EXCEPT ![call[i].work] = rev + 1]
        BY <2>2
      <4>2. rev + 1 \in Nat
        BY <1>1
      <4>. DEFINE next == rev + 1
      <4>. HIDE DEF next
      <4>. QED  BY <3>1, <4>1, <4>2 DEF next
    <3>6. DOMAIN checkpoints' = Checkpoints
      <4>1. checkpoints' = IF call[i].op # "capture" THEN checkpoints
                           ELSE [checkpoints EXCEPT ![call[i].seed] = f.listed]
        BY <2>2
      <4>. QED  BY <3>1, <4>1
    <3>. QED  BY <3>4, <3>5, <3>6
  <2>5. RecordsTyped'
    BY <1>1, <1>2, <2>1, <2>2, <2>4 DEF RecordsTyped
  <2>6. CallTyped(i)'
    BY <2>1 DEF Goes, CallTyped, Results, SectionPlaces, CopyPlaces
  <2>. QED  BY <1>1, <2>1, <2>2, <2>5, <2>6, MoveTyped
<1>10. CASE Enqueue(i)
  <2>1. Goes(i, "idle", NoCall, NoFrame) /\ solo' = solo
    BY <1>10, EnqueueMoves
  <2>2. rev' = rev /\ memory' = memory /\ RecordsTyped'
    BY <1>1, <1>2, <1>10, <2>1, RecordsStay DEF Enqueue, RecordsTyped
  <2>3. CallTyped(i)'
    BY <2>1 DEF Goes, CallTyped, SectionPlaces, CopyPlaces
  <2>. QED  BY <1>1, <1>2, <2>1, <2>2, <2>3, MoveTyped
<1>11. CASE BeginReconcile(i)
  <2>1. PICK m \in DOMAIN memory, copy \in Memories :
           Begins(i, "rewrite", [op |-> "reconcile", memory |-> m],
                  [NoFrame EXCEPT !.copy = copy])
    BY <1>11, BeginReconcileMoves
  <2>. DEFINE g == [NoFrame EXCEPT !.copy = copy]
  <2>2. g \in Frames /\ g.base = 0 /\ g.copy = copy
    BY NoFrameTyped, FrameCopies DEF Copies
  <2>3. memory' = memory /\ RecordsTyped'
    BY <1>1, <1>2, <1>11, <2>1, RecordsStay DEF BeginReconcile, workVars, Begins
  <2>4. Begins(i, "rewrite", [op |-> "reconcile", memory |-> m], g)
    BY <2>1
  <2>. HIDE DEF g
  <2>5. [g EXCEPT !.since = rev].copy = copy
    BY <1>1, <2>2, FrameBegins
  <2>6. /\ pc'[i] = "rewrite" /\ call'[i] = [op |-> "reconcile", memory |-> m]
        /\ frame'[i].copy = copy
    BY <2>4, <2>5 DEF Begins, Goes
  <2>7. CallTyped(i)'
    BY <2>3, <2>6 DEF CallTyped, Reconciles, SectionPlaces, CopyPlaces
  <2>. QED  BY <2>2, <2>3, <2>4, <2>7, BeginTyped
<1>12. CASE Rewrite(i)
  <2>1. Reconciles(i) /\ solo' = solo /\ Goes(i, "evaluate", call[i], f)
    BY <1>12, RewriteMoves DEF f
  <2>2. /\ memory' = [memory EXCEPT ![call[i].memory] = f.copy] /\ rev' = rev + 1
        /\ UNCHANGED <<work, checkpoints, closedAt>>
    BY <1>12 DEF Rewrite, f
  <2>3. /\ DOMAIN memory' = DOMAIN memory
        /\ \A x \in DOMAIN memory' : memory'[x] \in Memories
    BY <1>1, <2>1, <2>2 DEF RecordsTyped, Reconciles, f
  <2>4. RecordsTyped'
    BY <1>1, <1>2, <2>1, <2>2, <2>3 DEF RecordsTyped
  <2>5. CallTyped(i)'
    BY <2>1, <2>3 DEF Goes, CallTyped, Reconciles, SectionPlaces, CopyPlaces, f
  <2>. QED  BY <1>1, <2>1, <2>2, <2>3, <2>4, <2>5, MoveTyped
<1>. QED  BY <1>3, <1>4, <1>5, <1>6, <1>7, <1>8, <1>9, <1>10, <1>11, <1>12 DEF WorkCall

\* The calls of the documents leave the memories, and the work items, alone.
LEMMA DocumentCallKeepsWork ==
    ASSUME NEW i \in Callers, DocumentCall(i)
    PROVE  UNCHANGED workVars
BY DEF DocumentCall, BeginBootstrap, Bootstrap, BeginMain, UpdateMain, BeginSection,
       UpsertSection, ReadPrevious, Unlink, ReadParent, Link, ReadWritten, NoteAudit,
       BeginProposal, Propose

\* A step of a section's call: where it goes, and with which frame.
LEMMA SectionStepTyped ==
    ASSUME TypeInv, NEW i \in Callers, NEW place \in SectionPlaces, NEW f \in Frames,
           pc[i] \in SectionPlaces, Goes(i, place, call[i], f),
           place \in CopyPlaces => f.copy \in Documents,
           f.since = frame[i].since, f.base = frame[i].base,
           rev' \in {rev, rev + 1}, memory' = memory, RecordsTyped'
    PROVE  TypeInv'
<1>1. pc'[i] = place /\ call'[i] = call[i] /\ frame'[i] = f
  BY DEF Goes
<1>2. CallTyped(i)'
  BY <1>1 DEF TypeInv, CallTyped, SectionPlaces, CopyPlaces
<1>3. f.since <= rev' /\ f.base <= rev'
  BY DEF TypeInv, CallersTyped, Frames
<1>. QED  BY <1>2, <1>3, MoveTyped

LEMMA ReplaceTyped ==
    ASSUME TypeInv, NEW d \in Docs, NEW new \in Documents, Replace(d, new), UNCHANGED workVars,
           solo' \in BOOLEAN, proposed' = proposed
    PROVE  RecordsTyped' /\ rev' = rev + 1 /\ memory' = memory
<1>1. /\ doc' \in [Docs -> Documents] /\ setAt' \in [Docs -> Nat] /\ rev' = rev + 1
  BY DocumentReplaced DEF TypeInv, CallersTyped
<1>. QED  BY <1>1 DEF TypeInv, RecordsTyped, workVars

\* The record a call replaces a document with.
LEMMA CopyLinksTyped ==
    ASSUME NEW copy \in Documents, NEW s \in Sections
    PROVE  /\ [copy EXCEPT !.links = @ \ {s}] \in Documents
           /\ [copy EXCEPT !.links = @ \cup {s}] \in Documents
BY DEF Documents

LEMMA BeginDocumentTyped ==
    ASSUME TypeInv, NEW i \in Callers,
           BeginBootstrap(i) \/ BeginMain(i) \/ BeginSection(i) \/ BeginProposal(i)
    PROVE  TypeInv'
<1>1. UNCHANGED workVars /\ UNCHANGED docVars
  BY DEF BeginBootstrap, BeginMain, BeginSection, BeginProposal
<1>2. ASSUME NEW c, NEW place, NEW f \in Frames, Begins(i, place, c, f), f.base = 0,
             CallTyped(i)'
      PROVE  TypeInv'
  <2>1. RecordsTyped' /\ memory' = memory
    BY <1>1, <1>2, RecordsStay DEF workVars, docVars, Begins, TypeInv
  <2>. QED  BY <1>2, <2>1, BeginTyped
<1>3. ASSUME NEW copy \in Documents
      PROVE  LET f == [NoFrame EXCEPT !.copy = copy]
             IN  f \in Frames /\ f.base = 0 /\ [f EXCEPT !.since = rev].copy = copy
  <2>. DEFINE f == [NoFrame EXCEPT !.copy = copy]
  <2>1. f \in Frames /\ f.base = 0 /\ f.copy = copy
    BY NoFrameTyped, FrameCopies DEF Copies
  <2>2. rev \in Nat
    BY DEF TypeInv, CallersTyped
  <2>. HIDE DEF f
  <2>3. [f EXCEPT !.since = rev].copy = copy
    BY <2>1, <2>2, FrameBegins
  <2>. QED  BY <2>1, <2>3 DEF f
<1>4. CASE BeginBootstrap(i)
  <2>1. Begins(i, "bootstrap", [op |-> "bootstrap"], NoFrame)
    BY <1>4, BeginBootstrapMoves
  <2>2. CallTyped(i)'
    BY <2>1 DEF Begins, Goes, CallTyped, SectionPlaces, CopyPlaces
  <2>. QED  BY <1>2, <2>1, <2>2, NoFrameTyped
<1>5. CASE BeginMain(i)
  <2>1. PICK copy \in Documents, expected \in Versions \cup {"new"} :
           Begins(i, "main", [op |-> "main", expected |-> expected],
                  [NoFrame EXCEPT !.copy = copy])
    BY <1>5, BeginMainMoves
  <2>. DEFINE f == [NoFrame EXCEPT !.copy = copy]
  <2>2. f \in Frames /\ f.base = 0 /\ [f EXCEPT !.since = rev].copy = copy
    BY <1>3
  <2>3. Begins(i, "main", [op |-> "main", expected |-> expected], f)
    BY <2>1
  <2>. HIDE DEF f
  <2>4. pc'[i] = "main" /\ call'[i].op = "main" /\ frame'[i].copy = copy
    BY <2>2, <2>3 DEF Begins, Goes
  <2>5. CallTyped(i)'
    BY <2>4 DEF CallTyped, SectionPlaces, CopyPlaces
  <2>. QED  BY <1>2, <2>2, <2>3, <2>5
<1>6. CASE BeginSection(i)
  <2>1. PICK copy \in Documents, d \in Sections, p \in Docs, from \in Docs,
             expected \in Versions \cup {"none"} :
           Begins(i, "section",
                  [op |-> "section", expected |-> expected, doc |-> d, from |-> from, to |-> p],
                  [NoFrame EXCEPT !.copy = copy])
    BY <1>6, BeginSectionMoves
  <2>. DEFINE f == [NoFrame EXCEPT !.copy = copy]
              c == [op |-> "section", expected |-> expected, doc |-> d, from |-> from, to |-> p]
  <2>2. f \in Frames /\ f.base = 0 /\ [f EXCEPT !.since = rev].copy = copy
    BY <1>3
  <2>3. Begins(i, "section", c, f) /\ c.op = "section" /\ c.doc = d /\ c.from = from /\ c.to = p
    BY <2>1
  <2>. HIDE DEF f, c
  <2>4. pc'[i] = "section" /\ call'[i] = c /\ frame'[i].copy = copy
    BY <2>2, <2>3 DEF Begins, Goes
  <2>5. CallTyped(i)'
    BY <2>3, <2>4 DEF CallTyped, SectionPlaces, CopyPlaces
  <2>. QED  BY <1>2, <2>2, <2>3, <2>5
<1>7. CASE BeginProposal(i)
  <2>1. PICK p \in Proposals : Begins(i, "propose", [op |-> "propose", proposal |-> p], NoFrame)
    BY <1>7, BeginProposalMoves
  <2>2. CallTyped(i)'
    BY <2>1 DEF Begins, Goes, CallTyped, SectionPlaces, CopyPlaces
  <2>. QED  BY <1>2, <2>1, <2>2, NoFrameTyped
<1>. QED  BY <1>4, <1>5, <1>6, <1>7

LEMMA DocumentCallTyped ==
    ASSUME TypeInv, NEW i \in Callers, DocumentCall(i)
    PROVE  TypeInv'
<1>. DEFINE f == frame[i]
            s == call[i].doc
<1>1. UNCHANGED workVars /\ memory' = memory
  BY DocumentCallKeepsWork DEF workVars
<1>2. /\ CallersTyped /\ RecordsTyped /\ f \in Frames /\ rev \in Nat /\ solo \in BOOLEAN
      /\ NoFrame.since = 0 /\ NoFrame.base = 0
  BY NoFrameTyped DEF TypeInv, CallersTyped, RecordsTyped
<1>3. /\ pc[i] \in SectionPlaces => s \in Sections /\ s \in Docs /\ call[i].from \in Docs
                                    /\ call[i].to \in Docs
      /\ pc[i] \in CopyPlaces => f.copy \in Documents
  BY DEF TypeInv, CallTyped, Docs
<1>4. SectionPlaces \subseteq Places
  BY DEF Places
<1>5. ASSUME Goes(i, "idle", NoCall, NoFrame), rev' \in {rev, rev + 1}, RecordsTyped'
      PROVE  TypeInv'
  <2>1. CallTyped(i)'
    BY <1>5 DEF Goes, CallTyped, SectionPlaces, CopyPlaces
  <2>. QED  BY <1>1, <1>2, <1>5, <2>1, MoveTyped
<1>11. ASSUME NEW place \in SectionPlaces, NEW d \in Docs, Fetch(i, place, f, d),
              pc[i] \in SectionPlaces, rev' = rev, UNCHANGED docVars
       PROVE  TypeInv'
  <2>. DEFINE g == [f EXCEPT !.copy = doc[d]]
  <2>1. /\ solo' = solo /\ doc[d] \in Documents /\ Goes(i, place, call[i], g)
    BY <1>4, <1>11, Fetches
  <2>2. doc[d] \in Copies
    BY <2>1 DEF Copies
  <2>3. g \in Frames /\ g.copy = doc[d] /\ g.since = f.since /\ g.base = f.base
    BY <1>2, <2>2, FrameCopies
  <2>. HIDE DEF g
  <2>4. RecordsTyped'
    BY <1>1, <1>2, <1>11, <2>1, RecordsStay DEF workVars, docVars
  <2>. QED  BY <1>1, <1>2, <1>11, <2>1, <2>3, <2>4, SectionStepTyped
<1>12. ASSUME NEW place \in SectionPlaces \ CopyPlaces, NEW d \in Docs, NEW new \in Documents,
              Replace(d, new), GoTo(i, place, f), pc[i] \in SectionPlaces, proposed' = proposed
       PROVE  TypeInv'
  <2>1. Goes(i, place, call[i], f) /\ solo' = solo
    BY <1>4, <1>12, SectionMoves
  <2>2. RecordsTyped' /\ rev' = rev + 1
    BY <1>1, <1>2, <1>12, <2>1, ReplaceTyped
  <2>. QED  BY <1>1, <1>2, <1>12, <2>1, <2>2, SectionStepTyped
<1>6. CASE BeginBootstrap(i) \/ BeginMain(i) \/ BeginSection(i) \/ BeginProposal(i)
  BY <1>6, BeginDocumentTyped
<1>7. CASE Bootstrap(i)
  <2>1. [Absent EXCEPT !.revision = "new"] \in Documents /\ Project \in Docs
    BY DEF Absent, Documents, Docs
  <2>2. /\ Replace(Project, [Absent EXCEPT !.revision = "new"]) /\ Return(i)
        /\ solo' = solo /\ proposed' = proposed
    BY <1>7 DEF Bootstrap
  <2>3. RecordsTyped' /\ rev' = rev + 1
    BY <1>1, <1>2, <2>1, <2>2, ReplaceTyped
  <2>. QED  BY <1>2, <1>5, <2>2, <2>3, ReturnMoves
<1>8. CASE UpdateMain(i)
  <2>1. f.copy \in Documents /\ Project \in Docs
    BY <1>3, <1>8 DEF UpdateMain, CopyPlaces, Docs
  <2>2. Replace(Project, f.copy) /\ Return(i) /\ solo' = solo /\ proposed' = proposed
    BY <1>8 DEF UpdateMain
  <2>3. RecordsTyped' /\ rev' = rev + 1
    BY <1>1, <1>2, <2>1, <2>2, ReplaceTyped
  <2>. QED  BY <1>2, <1>5, <2>2, <2>3, ReturnMoves
<1>9. CASE UpsertSection(i)
  <2>1. pc[i] \in SectionPlaces /\ f.copy \in Documents /\ s \in Docs
    BY <1>3, <1>9 DEF UpsertSection, CopyPlaces, SectionPlaces
  <2>2. Replace(s, f.copy) /\ GoTo(i, "unlink", f) /\ proposed' = proposed
    BY <1>9 DEF UpsertSection
  <2>. QED  BY <1>12, <2>1, <2>2 DEF SectionPlaces, CopyPlaces
<1>10. CASE ReadPrevious(i)
  <2>1. pc[i] \in SectionPlaces /\ call[i].from \in Docs
    BY <1>3, <1>10 DEF ReadPrevious, SectionPlaces
  <2>2. /\ IF Moves(call[i]) THEN Fetch(i, "unlinked", f, call[i].from) ELSE GoTo(i, "link", f)
        /\ rev' = rev /\ UNCHANGED docVars
    BY <1>10 DEF ReadPrevious
  <2>3. CASE Fetch(i, "unlinked", f, call[i].from)
    BY <1>4, <1>11, <2>1, <2>2, <2>3 DEF SectionPlaces
  <2>4. CASE GoTo(i, "link", f)
    <3>1. Goes(i, "link", call[i], f) /\ solo' = solo
      BY <1>4, <2>4, SectionMoves DEF SectionPlaces
    <3>2. RecordsTyped'
      BY <1>1, <1>2, <2>2, <3>1, RecordsStay DEF workVars, docVars
    <3>. QED  BY <1>1, <1>2, <2>1, <2>2, <3>1, <3>2, SectionStepTyped
              DEF SectionPlaces, CopyPlaces
  <2>. QED  BY <2>2, <2>3, <2>4
<1>13. CASE Unlink(i)
  <2>1. pc[i] \in SectionPlaces /\ f.copy \in Documents /\ s \in Sections /\ call[i].from \in Docs
    BY <1>3, <1>13 DEF Unlink, CopyPlaces, SectionPlaces
  <2>2. /\ Replace(call[i].from, [f.copy EXCEPT !.links = @ \ {s}]) /\ GoTo(i, "link", f)
        /\ proposed' = proposed
    BY <1>13 DEF Unlink
  <2>3. [f.copy EXCEPT !.links = @ \ {s}] \in Documents
    BY <2>1, CopyLinksTyped
  <2>. QED  BY <1>12, <2>1, <2>2, <2>3 DEF SectionPlaces, CopyPlaces
<1>14. CASE ReadParent(i)
  <2>1. pc[i] \in SectionPlaces /\ call[i].to \in Docs /\ Fetch(i, "linked", f, call[i].to)
        /\ rev' = rev /\ UNCHANGED docVars
    BY <1>3, <1>14 DEF ReadParent, SectionPlaces
  <2>. QED  BY <1>11, <2>1 DEF SectionPlaces
<1>15. CASE Link(i)
  <2>1. pc[i] \in SectionPlaces /\ f.copy \in Documents /\ s \in Sections /\ call[i].to \in Docs
    BY <1>3, <1>15 DEF Link, CopyPlaces, SectionPlaces
  <2>2. /\ Replace(call[i].to, [f.copy EXCEPT !.links = @ \cup {s}]) /\ GoTo(i, "audit", f)
        /\ proposed' = proposed
    BY <1>15 DEF Link
  <2>3. [f.copy EXCEPT !.links = @ \cup {s}] \in Documents
    BY <2>1, CopyLinksTyped
  <2>. QED  BY <1>12, <2>1, <2>2, <2>3 DEF SectionPlaces, CopyPlaces
<1>16. CASE ReadWritten(i)
  <2>1. pc[i] \in SectionPlaces /\ s \in Docs /\ Fetch(i, "audited", f, s)
        /\ rev' = rev /\ UNCHANGED docVars
    BY <1>3, <1>16 DEF ReadWritten, SectionPlaces
  <2>. QED  BY <1>11, <2>1 DEF SectionPlaces
<1>17. CASE NoteAudit(i)
  <2>1. f.copy \in Documents /\ s \in Docs
    BY <1>3, <1>17 DEF NoteAudit, CopyPlaces, SectionPlaces
  <2>2. Replace(s, f.copy) /\ Return(i) /\ solo' = solo /\ proposed' = proposed
    BY <1>17 DEF NoteAudit
  <2>3. RecordsTyped' /\ rev' = rev + 1
    BY <1>1, <1>2, <2>1, <2>2, ReplaceTyped
  <2>. QED  BY <1>2, <1>5, <2>2, <2>3, ReturnMoves
<1>18. CASE Propose(i)
  <2>1. /\ proposed' = [proposed EXCEPT ![call[i].proposal] = @ + 1] /\ rev' = rev + 1
        /\ Return(i) /\ solo' = solo /\ UNCHANGED <<doc, setAt>>
    BY <1>18 DEF Propose
  <2>2. call[i].proposal \in Proposals
    BY <1>18 DEF Propose, TypeInv, CallTyped
  <2>3. proposed' \in [Proposals -> Nat]
    BY <1>2, <2>1, <2>2 DEF RecordsTyped
  <2>4. RecordsTyped'
    BY <1>1, <1>2, <2>1, <2>3 DEF RecordsTyped, workVars
  <2>. QED  BY <1>2, <1>5, <2>1, <2>4, ReturnMoves
<1>. QED  BY <1>6, <1>7, <1>8, <1>9, <1>10, <1>13, <1>14, <1>15, <1>16, <1>17, <1>18
          DEF DocumentCall

LEMMA TypeInit == Init => TypeInv
<1>. SUFFICES ASSUME Init PROVE TypeInv
  OBVIOUS
<1>1. CallersTyped
  BY NoFrameTyped DEF Init, WorkInit, CallersTyped, Places
<1>2. \A i \in Callers : CallTyped(i)
  BY DEF Init, WorkInit, CallTyped, SectionPlaces, CopyPlaces
<1>3. work \in [Works -> WorkItems]
  BY DEF Init, WorkInit, WorkItems
<1>4. Absent \in Documents /\ [Absent EXCEPT !.revision = "new"] \in Documents
  BY DEF Absent, Documents, Docs
<1>5. doc \in [Docs -> Documents]
  BY <1>4 DEF Init
<1>6. /\ solo \in BOOLEAN /\ DOMAIN checkpoints = Checkpoints /\ closedAt \in [Works -> Nat]
      /\ DOMAIN memory \subseteq Ids /\ \A m \in DOMAIN memory : memory[m] \in Memories
      /\ proposed \in [Proposals -> Nat] /\ setAt \in [Docs -> Nat]
  BY DEF Init, WorkInit
<1>. QED  BY <1>1, <1>2, <1>3, <1>5, <1>6 DEF TypeInv, RecordsTyped

LEMMA TypeStep == TypeInv /\ [Next]_vars => TypeInv'
<1>. SUFFICES ASSUME TypeInv, [Next]_vars PROVE TypeInv'
  OBVIOUS
<1>1. CASE UNCHANGED vars
  <2>1. UNCHANGED <<rev, solo>> /\ UNCHANGED callVars /\ UNCHANGED workVars /\ UNCHANGED docVars
    BY <1>1 DEF vars
  <2>2. RecordsTyped' /\ memory' = memory
    BY <2>1, RecordsStay DEF workVars, docVars, TypeInv, RecordsTyped
  <2>. QED  BY <2>1, <2>2, StillTyped
<1>2. ASSUME NEW w \in Works, StartWork(w), UNCHANGED docVars
      PROVE  TypeInv'
  <2>1. /\ work' = [work EXCEPT ![w].status = "in_progress"] /\ rev' = rev + 1
        /\ UNCHANGED callVars
        /\ UNCHANGED <<memory, checkpoints, closedAt, solo, doc, proposed, setAt>>
    BY <1>2 DEF StartWork, docVars
  <2>2. work' \in [Works -> WorkItems]
    <3>1. work \in [Works -> WorkItems] /\ work[w] \in WorkItems
      BY DEF TypeInv, RecordsTyped
    <3>2. [work[w] EXCEPT !.status = "in_progress"] \in WorkItems
      BY <3>1 DEF WorkItems
    <3>3. work' = [work EXCEPT ![w] = [work[w] EXCEPT !.status = "in_progress"]]
      BY <2>1, <3>1
    <3>. QED  BY <3>1, <3>2, <3>3
  <2>3. RecordsTyped'
    BY <2>1, <2>2 DEF TypeInv, RecordsTyped
  <2>. QED  BY <2>1, <2>3, StillTyped
<1>3. ASSUME NEW r \in Refs, Reassess(r), UNCHANGED docVars
      PROVE  TypeInv'
  <2>1. /\ rev' = rev + 1 /\ UNCHANGED callVars
        /\ UNCHANGED <<work, memory, checkpoints, closedAt, solo, doc, proposed, setAt>>
    BY <1>3 DEF Reassess, docVars
  <2>2. RecordsTyped'
    BY <2>1, RecordsStay DEF TypeInv, RecordsTyped
  <2>. QED  BY <2>1, <2>2, StillTyped
<1>. QED  BY <1>1, <1>2, <1>3, NextCases, WorkCallTyped, DocumentCallTyped

\* Whatever calls overlap, are cut short or overwrite each other, a call at a
\* place has the input and the copies that place needs, of the right kind, and
\* has read nothing of a later revision than the present one.
THEOREM MemoryTypeCorrect == Spec => []TypeInv
BY TypeInit, TypeStep, PTL DEF Spec

-----------------------------------------------------------------------------
(***************************************************************************)
(* Proofs of part 2.  First who moves, and what a step of the documents,   *)
(* or one without a publication, leaves alone.                             *)
(***************************************************************************)

LEMMA BeginWorkGoes ==
    ASSUME TypeInv, NEW i \in Callers, BeginWork(i)
    PROVE  \E c : Begins(i, "persist", c, NoFrame)
<1>1. CASE BeginFinish(i)
  BY <1>1, BeginFinishMoves
<1>2. CASE BeginCapture(i)
  BY <1>2, BeginCaptureMoves
<1>3. CASE BeginPublish(i)
  BY <1>3, BeginPublishMoves
<1>. QED  BY <1>1, <1>2, <1>3 DEF BeginWork

LEMMA WorkCallGoes ==
    ASSUME TypeInv, NEW i \in Callers, WorkCall(i)
    PROVE  \E place \in {"idle"} \cup WorkPlaces : \E c, f :
              Goes(i, place, c, f) /\ (place = "verdict" => Evaluate(i))
<1>1. CASE ReadExisting(i)
  BY <1>1, ReadExistingMoves DEF WorkPlaces
<1>2. CASE WriteCandidate(i)
  BY <1>2, WriteCandidateMoves DEF WorkPlaces
<1>3. CASE Evaluate(i)
  BY <1>3, EvaluateMoves DEF WorkPlaces
<1>4. CASE StoreVerdict(i)
  <2>1. \/ Goes(i, "idle", NoCall, NoFrame)
        \/ Goes(i, "persist", call[i], Listed(frame[i], Current(i).id))
    BY <1>4, StoreVerdictMoves
  <2>. QED  BY <2>1 DEF WorkPlaces
<1>5. CASE VerdictRefused(i) \/ Fail(i)
  <2>1. Goes(i, "idle", NoCall, NoFrame)
    BY <1>5, VerdictRefusedMoves, FailMoves
  <2>. QED  BY <2>1
<1>6. CASE BeginWork(i)
  BY <1>6, BeginWorkGoes DEF WorkPlaces, Begins
<1>7. CASE StoreResult(i)
  BY <1>7, StoreResultMoves DEF WorkPlaces
<1>8. CASE Enqueue(i)
  BY <1>8, EnqueueMoves
<1>9. CASE BeginReconcile(i)
  <2>1. PICK c, f : Begins(i, "rewrite", c, f)
    BY <1>9, BeginReconcileMoves
  <2>2. Goes(i, "rewrite", c, [f EXCEPT !.since = rev])
    BY <2>1 DEF Begins
  <2>. QED  BY <2>2 DEF WorkPlaces
<1>10. CASE Rewrite(i)
  BY <1>10, RewriteMoves DEF WorkPlaces
<1>. QED  BY <1>1, <1>2, <1>3, <1>4, <1>5, <1>6, <1>7, <1>8, <1>9, <1>10 DEF WorkCall

DocumentPlaces == SectionPlaces \cup {"idle", "bootstrap", "main", "propose"}

LEMMA DocumentBegins ==
    ASSUME TypeInv, NEW i \in Callers,
           BeginBootstrap(i) \/ BeginMain(i) \/ BeginSection(i) \/ BeginProposal(i)
    PROVE  /\ \E place \in DocumentPlaces : \E c, f : Goes(i, place, c, f)
           /\ rev' = rev /\ frame'[i].listed = {}
<1>1. rev \in Nat /\ NoFrame \in Frames /\ NoFrame.listed = {}
  BY NoFrameTyped DEF TypeInv, CallersTyped
<1>2. ASSUME NEW place \in DocumentPlaces, NEW c, NEW f \in Frames, f.listed = {},
             Begins(i, place, c, f)
      PROVE  /\ \E p \in DocumentPlaces : \E d, g : Goes(i, p, d, g)
             /\ rev' = rev /\ frame'[i].listed = {}
  <2>1. [f EXCEPT !.since = rev].listed = {}
    BY <1>1, <1>2, FrameBegins
  <2>. QED  BY <1>2, <2>1 DEF Begins, Goes
<1>3. ASSUME NEW copy \in Documents
      PROVE  LET f == [NoFrame EXCEPT !.copy = copy] IN f \in Frames /\ f.listed = {}
  BY <1>1, FrameCopies DEF Copies
<1>4. CASE BeginBootstrap(i)
  BY <1>1, <1>2, <1>4, BeginBootstrapMoves DEF DocumentPlaces
<1>5. CASE BeginMain(i)
  <2>1. PICK copy \in Documents : \E c : Begins(i, "main", c, [NoFrame EXCEPT !.copy = copy])
    BY <1>5, BeginMainMoves
  <2>. QED  BY <1>2, <1>3, <2>1 DEF DocumentPlaces
<1>6. CASE BeginSection(i)
  <2>1. PICK copy \in Documents : \E c : Begins(i, "section", c, [NoFrame EXCEPT !.copy = copy])
    BY <1>6, BeginSectionMoves
  <2>. QED  BY <1>2, <1>3, <2>1 DEF DocumentPlaces, SectionPlaces
<1>7. CASE BeginProposal(i)
  <2>1. PICK c : Begins(i, "propose", c, NoFrame)
    BY <1>7, BeginProposalMoves
  <2>. QED  BY <1>1, <1>2, <2>1 DEF DocumentPlaces
<1>. QED  BY <1>4, <1>5, <1>6, <1>7

LEMMA DocumentCallGoes ==
    ASSUME TypeInv, NEW i \in Callers, DocumentCall(i)
    PROVE  /\ \E place \in DocumentPlaces : \E c, f : Goes(i, place, c, f)
           /\ rev' \in {rev, rev + 1} /\ frame'[i].listed \subseteq frame[i].listed
<1>. DEFINE f == frame[i]
<1>1. CASE BeginBootstrap(i) \/ BeginMain(i) \/ BeginSection(i) \/ BeginProposal(i)
  BY <1>1, DocumentBegins
<1>5. CASE Bootstrap(i) \/ UpdateMain(i) \/ NoteAudit(i) \/ Propose(i)
  <2>1. Return(i) /\ rev' = rev + 1
    BY <1>5 DEF Bootstrap, UpdateMain, NoteAudit, Propose, Replace
  <2>2. Goes(i, "idle", NoCall, NoFrame)
    BY <2>1, ReturnMoves DEF TypeInv
  <2>. QED  BY <2>1, <2>2, NoFrameTyped DEF DocumentPlaces, Goes
<1>6. CASE UpsertSection(i) \/ Unlink(i) \/ Link(i)
  <2>1. PICK place \in SectionPlaces : GoTo(i, place, f)
    BY <1>6 DEF UpsertSection, Unlink, Link, SectionPlaces
  <2>2. rev' = rev + 1
    BY <1>6 DEF UpsertSection, Unlink, Link, Replace
  <2>3. Goes(i, place, call[i], f)
    BY <2>1, SectionMoves DEF Places
  <2>. QED  BY <2>2, <2>3 DEF DocumentPlaces, Goes
<1>7. CASE ReadPrevious(i) \/ ReadParent(i) \/ ReadWritten(i)
  <2>1. pc[i] \in SectionPlaces /\ rev' = rev
    BY <1>7 DEF ReadPrevious, ReadParent, ReadWritten, SectionPlaces
  <2>2. call[i].doc \in Docs /\ call[i].from \in Docs /\ call[i].to \in Docs
    BY <2>1 DEF TypeInv, CallTyped, Docs
  <2>3. \/ \E place \in SectionPlaces, d \in Docs : Fetch(i, place, f, d)
        \/ GoTo(i, "link", f)
    BY <1>7, <2>2 DEF ReadPrevious, ReadParent, ReadWritten, SectionPlaces
  <2>4. SectionPlaces \subseteq Places /\ "link" \in SectionPlaces
    BY DEF Places, SectionPlaces
  <2>5. \E place \in SectionPlaces : \E g : Goes(i, place, call[i], g) /\ g.listed = f.listed
    <3>1. CASE GoTo(i, "link", f)
      BY <2>4, <3>1, SectionMoves
    <3>2. ASSUME NEW place \in SectionPlaces, NEW d \in Docs, Fetch(i, place, f, d)
          PROVE  \E g : Goes(i, place, call[i], g) /\ g.listed = f.listed
      <4>1. place \in Places
        BY <2>4
      <4>2. \E g : Goes(i, place, call[i], g) /\ frame'[i].listed = f.listed
        BY <3>2, <4>1, Fetches
      <4>. QED  BY <4>2 DEF Goes
    <3>. QED  BY <2>3, <3>1, <3>2
  <2>. QED  BY <2>1, <2>5 DEF DocumentPlaces, Goes
<1>. QED  BY <1>1, <1>5, <1>6, <1>7 DEF DocumentCall

LEMMA WhoActs ==
    ASSUME TypeInv, [Next]_vars, NEW j \in Callers
    PROVE  \/ pc'[j] = pc[j] /\ call'[j] = call[j] /\ frame'[j] = frame[j]
           \/ UNCHANGED docVars /\ WorkCall(j)
           \/ DocumentCall(j)
<1>1. ASSUME NEW i \in Callers, i # j, WorkCall(i) \/ DocumentCall(i)
      PROVE  pc'[j] = pc[j] /\ call'[j] = call[j] /\ frame'[j] = frame[j]
  <2>1. PICK place, c, f : Goes(i, place, c, f)
    BY <1>1, WorkCallGoes, DocumentCallGoes
  <2>. QED  BY <1>1, <2>1 DEF Goes
<1>2. UNCHANGED vars \/ (\E w \in Works : StartWork(w)) \/ (\E r \in Refs : Reassess(r))
      => pc'[j] = pc[j] /\ call'[j] = call[j] /\ frame'[j] = frame[j]
  BY DEF vars, callVars, StartWork, Reassess
<1>. QED  BY <1>1, <1>2, NextCases

\* Without a publication neither evidence nor memories change.
LEMMA WorkCallQuiet ==
    ASSUME TypeInv, NEW i \in Callers, WorkCall(i)
    PROVE  /\ rev' \in {rev, rev + 1} /\ standing' = standing
           /\ \/ UNCHANGED <<memory, vouched>>
              \/ rev' = rev + 1 /\ (WriteCandidate(i) \/ StoreVerdict(i) \/ Rewrite(i))
<1>1. CASE BeginWork(i)
  <2>1. \E c : Begins(i, "persist", c, NoFrame)
    BY <1>1, BeginWorkGoes
  <2>. QED  BY <1>1, <2>1 DEF BeginWork, BeginFinish, BeginCapture, BeginPublish, Begins,
                              workVars
<1>2. CASE BeginReconcile(i)
  <2>1. \E c, f : Begins(i, "rewrite", c, f)
    BY <1>2, BeginReconcileMoves
  <2>. QED  BY <1>2, <2>1 DEF BeginReconcile, Begins, workVars
<1>3. CASE ReadExisting(i) \/ Evaluate(i) \/ VerdictRefused(i) \/ Enqueue(i) \/ Fail(i)
  BY <1>3 DEF ReadExisting, Evaluate, VerdictRefused, Enqueue, Fail, workVars
<1>4. CASE StoreResult(i)
  BY <1>4 DEF StoreResult
<1>5. CASE WriteCandidate(i) \/ StoreVerdict(i) \/ Rewrite(i)
  BY <1>5 DEF WriteCandidate, StoreVerdict, Rewrite, Publish
<1>. QED  BY <1>1, <1>2, <1>3, <1>4, <1>5 DEF WorkCall

LEMMA Quiet ==
    ASSUME TypeInv, [Next]_vars
    PROVE  /\ rev' \in {rev, rev + 1}
           /\ rev' = rev => UNCHANGED <<standing, memory, vouched>>
           /\ \/ UNCHANGED <<memory, vouched>>
              \/ \E i \in Callers : WriteCandidate(i) \/ StoreVerdict(i) \/ Rewrite(i)
<1>1. rev \in Nat
  BY DEF TypeInv, CallersTyped
<1>2. CASE UNCHANGED vars
  BY <1>2 DEF vars, workVars
<1>3. CASE \E w \in Works : StartWork(w)
  BY <1>1, <1>3 DEF StartWork
<1>4. CASE \E r \in Refs : Reassess(r)
  BY <1>1, <1>4 DEF Reassess
<1>5. ASSUME NEW i \in Callers, WorkCall(i)
      PROVE  /\ rev' \in {rev, rev + 1}
             /\ rev' = rev => UNCHANGED <<standing, memory, vouched>>
             /\ \/ UNCHANGED <<memory, vouched>>
                \/ WriteCandidate(i) \/ StoreVerdict(i) \/ Rewrite(i)
  BY <1>1, <1>5, WorkCallQuiet
<1>6. ASSUME NEW i \in Callers, DocumentCall(i)
      PROVE  rev' \in {rev, rev + 1} /\ UNCHANGED <<standing, memory, vouched>>
  BY <1>6, DocumentCallKeepsWork, DocumentCallGoes DEF workVars
<1>. QED  BY <1>2, <1>3, <1>4, <1>5, <1>6, NextCases

\* The verdict of a call is about the present records until somebody publishes.
LEMMA VerdictStep ==
    ASSUME TypeInv, [Next]_vars, NEW j \in Callers, VerdictHolds(j)
    PROVE  VerdictHolds(j)'
<1>. SUFFICES ASSUME pc'[j] = "verdict", frame'[j].base = rev'
              PROVE  frame'[j].verdict = Verdict(Current(j).id, Current(j).sub)'
  BY DEF VerdictHolds
<1>1. CASE pc'[j] = pc[j] /\ call'[j] = call[j] /\ frame'[j] = frame[j]
  <2>1. rev \in Nat /\ frame[j] \in Frames /\ frame[j].base <= rev /\ rev' \in {rev, rev + 1}
    BY Quiet DEF TypeInv, CallersTyped
  <2>2. rev' = rev
    BY <1>1, <2>1 DEF Frames
  <2>3. standing' = standing /\ memory' = memory
    BY <2>2, Quiet
  <2>4. Current(j)' = Current(j)
    BY <1>1 DEF Current
  <2>5. frame[j].verdict = Verdict(Current(j).id, Current(j).sub)
    BY <1>1, <2>2 DEF VerdictHolds
  <2>. QED  BY <1>1, <2>3, <2>4, <2>5 DEF Verdict, Gates, GatesWithoutSource, Eligible
<1>2. CASE WorkCall(j)
  <2>1. Evaluate(j)
    BY <1>2, WorkCallGoes DEF Goes
  <2>. DEFINE v == Verdict(Current(j).id, Current(j).sub)
              f == frame[j]
              g == [f EXCEPT !.base = rev, !.verdict = v]
  <2>2. v \in Verdicts /\ call'[j] = call[j] /\ frame'[j] = g
    BY <2>1, EvaluateMoves DEF Goes
  <2>3. f \in Frames /\ rev \in Nat
    BY DEF TypeInv, CallersTyped
  <2>4. memory' = memory /\ standing' = standing
    BY <2>1 DEF Evaluate, workVars
  <2>. HIDE DEF v
  <2>5. g.verdict = v /\ g.n = f.n /\ g.copy = f.copy
    BY <2>2, <2>3 DEF Frames
  <2>. HIDE DEF g
  <2>6. Current(j)' = Current(j)
    BY <2>2, <2>5 DEF Current
  <2>7. Verdict(Current(j).id, Current(j).sub)' = Verdict(Current(j).id, Current(j).sub)
    BY <2>4, <2>6 DEF Verdict, Gates, GatesWithoutSource, Eligible
  <2>. QED  BY <2>2, <2>5, <2>7 DEF v
<1>3. CASE DocumentCall(j)
  BY <1>3, DocumentCallGoes DEF Goes, DocumentPlaces, SectionPlaces
<1>. QED  BY <1>1, <1>2, <1>3, WhoActs

\* What the three writers of memories write.
LEMMA VouchedStep ==
    ASSUME TypeInv, MemoryInv, [Next]_vars
    PROVE  (vouched \subseteq DOMAIN memory)' /\ VouchedAgree'
<1>1. CASE UNCHANGED <<memory, vouched>>
  BY <1>1 DEF MemoryInv, VouchedAgree
<1>. DEFINE Others(id) ==
              \A x \in DOMAIN memory : x # id => x \in DOMAIN memory' /\ memory'[x] = memory[x]
<1>2. ASSUME NEW id, Others(id), vouched' = vouched \ {id}
      PROVE  (vouched \subseteq DOMAIN memory)' /\ VouchedAgree'
  BY <1>2 DEF MemoryInv, VouchedAgree
<1>3. ASSUME NEW i \in Callers, WriteCandidate(i)
      PROVE  (vouched \subseteq DOMAIN memory)' /\ VouchedAgree'
  <2>. DEFINE id == Current(i).id
              m == Candidate(Current(i).sub)
  <2>1. id \in Ids /\ m \in Memories /\ memory' = With(id, m) /\ vouched' = vouched \ {id}
    BY <1>3, WriteCandidateMoves DEF WriteCandidate
  <2>. HIDE DEF id, m
  <2>2. Others(id)
    BY <2>1, MemoryWritten DEF TypeInv
  <2>. QED  BY <1>2, <2>1, <2>2
<1>4. ASSUME NEW i \in Callers, Rewrite(i)
      PROVE  (vouched \subseteq DOMAIN memory)' /\ VouchedAgree'
  <2>. DEFINE id == call[i].memory
  <2>1. vouched' = vouched \ {id} /\ memory' = [memory EXCEPT ![id] = frame[i].copy]
    BY <1>4 DEF Rewrite
  <2>. HIDE DEF id
  <2>2. Others(id)
    BY <2>1
  <2>. QED  BY <1>2, <2>1, <2>2
<1>5. ASSUME NEW i \in Callers, StoreVerdict(i)
      PROVE  (vouched \subseteq DOMAIN memory)' /\ VouchedAgree'
  <2>. DEFINE id == Current(i).id
              s == Current(i).sub
              stored == [sub |-> s, status |-> frame[i].verdict, event |-> TRUE]
  <2>1. /\ pc[i] = "verdict" /\ frame[i].base = rev /\ id \in Ids /\ stored \in Memories
        /\ memory' = With(id, stored)
    BY <1>5, StoreVerdictMoves
  <2>2. vouched' = vouched \cup {id}
    BY <1>5 DEF StoreVerdict
  <2>3. frame[i].verdict = Verdict(id, s)
    BY <2>1 DEF MemoryInv, VerdictHolds
  <2>4. stored.status = "accepted" => GatesWithoutSource(id, s)
    BY <2>3 DEF Verdict, Gates
  <2>5. stored.sub = s
    OBVIOUS
  <2>. HIDE DEF id, s, stored
  <2>6. /\ DOMAIN memory' = DOMAIN memory \cup {id} /\ memory'[id] = stored
        /\ \A x \in DOMAIN memory : x # id => memory'[x] = memory[x]
    BY <2>1, MemoryWritten DEF TypeInv
  <2>7. \A a \in vouched : a \in DOMAIN memory
    BY DEF MemoryInv
  <2>8. ASSUME stored.status = "accepted", NEW a \in vouched, a # id,
               memory[a].status = "accepted", memory[a].sub.kind = s.kind,
               memory[a].sub.scope = s.scope
        PROVE  memory[a].sub.statement = s.statement
    BY <2>4, <2>7, <2>8 DEF GatesWithoutSource
  <2>9. ASSUME NEW a \in vouched', NEW b \in vouched',
               memory'[a].status = "accepted", memory'[b].status = "accepted",
               memory'[a].sub.kind = memory'[b].sub.kind,
               memory'[a].sub.scope = memory'[b].sub.scope
        PROVE  memory'[a].sub.statement = memory'[b].sub.statement
    <3>1. CASE a = id /\ b = id
      BY <3>1
    <3>2. CASE a = id /\ b # id
      BY <2>2, <2>5, <2>6, <2>7, <2>8, <2>9, <3>2
    <3>3. CASE a # id /\ b = id
      BY <2>2, <2>5, <2>6, <2>7, <2>8, <2>9, <3>3
    <3>4. CASE a # id /\ b # id
      <4>1. a \in vouched /\ b \in vouched /\ memory'[a] = memory[a] /\ memory'[b] = memory[b]
        BY <2>2, <2>6, <2>7, <2>9, <3>4
      <4>. QED  BY <2>9, <4>1 DEF MemoryInv, VouchedAgree
    <3>. QED  BY <3>1, <3>2, <3>3, <3>4
  <2>10. vouched' \subseteq DOMAIN memory'
    BY <2>2, <2>6, <2>7
  <2>. QED  BY <2>9, <2>10 DEF VouchedAgree
<1>. QED  BY <1>1, <1>3, <1>4, <1>5, Quiet

LEMMA MemoryInit == Init => MemoryInv
BY DEF Init, WorkInit, MemoryInv, VouchedAgree, VerdictHolds

LEMMA MemoryStep == TypeInv /\ MemoryInv /\ [Next]_vars => MemoryInv'
<1>. SUFFICES ASSUME TypeInv, MemoryInv, [Next]_vars PROVE MemoryInv'
  OBVIOUS
<1>1. (vouched \subseteq DOMAIN memory)' /\ VouchedAgree'
  BY VouchedStep
<1>2. \A i \in Callers : VerdictHolds(i)'
  BY VerdictStep DEF MemoryInv
<1>. QED  BY <1>1, <1>2 DEF MemoryInv

LEMMA MemoryHolds == Spec => [](TypeInv /\ MemoryInv)
<1>1. Init => TypeInv /\ MemoryInv
  BY TypeInit, MemoryInit
<1>2. TypeInv /\ MemoryInv /\ [Next]_vars => (TypeInv /\ MemoryInv)'
  BY TypeStep, MemoryStep
<1>. QED  BY <1>1, <1>2, PTL DEF Spec

\* However many callers submit and reconcile at once, no two memories that stand
\* as validateAndStore wrote them are accepted and contradict each other: the
\* gates read every other accepted memory, and the compare-and-swap of the
\* verdict makes what they read still true when it is published.
THEOREM AcceptedMemoriesAgree == Spec => []VouchedAgree
<1>1. MemoryInv => VouchedAgree
  BY DEF MemoryInv
<1>. QED  BY <1>1, MemoryHolds, PTL

\* Only a stored verdict makes a memory vouched for, and the gates of that
\* verdict hold in the very state in which it is stored.
LEMMA AcceptedStep ==
    ASSUME TypeInv, MemoryInv, [Next]_vars, NEW m \in vouched' \ vouched,
           memory'[m].status = "accepted"
    PROVE  LET s == memory'[m].sub
               sources == {SourceOf[r] : r \in s.refs}
           IN  /\ \A r \in s.refs \cup sources : standing'[r] = "eligible"
               /\ s.kind = "lesson" => Cardinality(sources) > 1
               /\ s.kind = "decision" => s.refs \cap Directives # {}
<1>1. PICK i \in Callers : WriteCandidate(i) \/ StoreVerdict(i) \/ Rewrite(i)
  BY Quiet
<1>2. StoreVerdict(i)
  BY <1>1 DEF WriteCandidate, Rewrite
<1>. DEFINE id == Current(i).id
            s == Current(i).sub
            stored == [sub |-> s, status |-> frame[i].verdict, event |-> TRUE]
<1>3. /\ pc[i] = "verdict" /\ frame[i].base = rev /\ id \in Ids /\ stored \in Memories
      /\ memory' = With(id, stored)
  BY <1>2, StoreVerdictMoves
<1>4. vouched' = vouched \cup {id} /\ standing' = standing
  BY <1>2 DEF StoreVerdict
<1>5. frame[i].verdict = Verdict(id, s)
  BY <1>3 DEF MemoryInv, VerdictHolds
<1>6. stored.sub = s /\ stored.status = frame[i].verdict /\ s \in Submissions
  BY <1>3 DEF Memories
<1>. HIDE DEF id, s, stored
<1>7. m = id /\ memory'[m] = stored
  BY <1>3, <1>4, MemoryWritten DEF TypeInv
<1>8. Gates(id, s)
  BY <1>5, <1>6, <1>7 DEF Verdict
<1>. DEFINE sources == {SourceOf[r] : r \in s.refs}
<1>9. \A r \in s.refs \cup sources : standing'[r] = "eligible"
  BY <1>4, <1>8 DEF Gates, GatesWithoutSource, Eligible
<1>10. Cardinality(sources) \in Nat
  <2>1. s.refs \subseteq Refs
    BY <1>6 DEF Submissions
  <2>2. sources \subseteq Refs /\ IsFiniteSet(Refs)
    BY <2>1, WorkAssumption
  <2>3. IsFiniteSet(sources)
    BY <2>2, FS_Subset
  <2>. QED  BY <2>3, FS_CardinalityType
<1>11. s.kind = "lesson" => Cardinality(sources) >= 2
  BY <1>8 DEF Gates, GatesWithoutSource
<1>12. s.kind = "decision" => s.refs \cap Directives # {}
  BY <1>8 DEF Gates, GatesWithoutSource
<1>13. s.kind = "lesson" => Cardinality(sources) > 1
  BY <1>10, <1>11
<1>. HIDE DEF sources
<1>. QED  BY <1>6, <1>7, <1>9, <1>12, <1>13 DEF sources

\* A memory is accepted only in a revision in which every piece of its evidence,
\* and the artifact behind each, is eligible, a lesson has two sources and a
\* decision a directive, although the gates ran before the publication.
THEOREM AcceptedWithItsEvidence == Spec => AcceptedOnEligible
<1>1. TypeInv /\ MemoryInv /\ [Next]_vars =>
        [\A m \in vouched' \ vouched : memory'[m].status = "accepted" =>
          LET s == memory'[m].sub
              sources == {SourceOf[r] : r \in s.refs}
          IN  /\ \A r \in s.refs \cup sources : standing'[r] = "eligible"
              /\ s.kind = "lesson" => Cardinality(sources) > 1
              /\ s.kind = "decision" => s.refs \cap Directives # {}]_<<rev, workVars>>
  BY AcceptedStep
<1>. QED  BY <1>1, MemoryHolds, PTL DEF Spec, AcceptedOnEligible

-----------------------------------------------------------------------------
\* A call that goes on keeps its input and the revision it began at.
LEMMA WorkCallContinues ==
    ASSUME TypeInv, NEW i \in Callers, WorkCall(i)
    PROVE  \/ BeginWork(i) \/ BeginReconcile(i)
           \/ pc'[i] = "idle" /\ frame'[i].listed = {}
           \/ /\ pc[i] # "idle" /\ pc'[i] # "rewrite" /\ call'[i] = call[i]
              /\ frame'[i].since = frame[i].since
              /\ \/ frame'[i].listed = frame[i].listed
                 \/ \E id \in Ids : /\ frame'[i].listed = frame[i].listed \cup {id}
                                    /\ id \in judged' \/ (id \in DOMAIN memory /\ memory[id].event)
<1>. DEFINE f == frame[i]
<1>1. f \in Frames /\ rev \in Nat
  BY DEF TypeInv, CallersTyped
<1>. HIDE DEF f
<1>2. ASSUME Goes(i, "idle", NoCall, NoFrame)
      PROVE  pc'[i] = "idle" /\ frame'[i].listed = {}
  BY <1>2, NoFrameTyped DEF Goes
<1>3. ASSUME NEW place, place # "rewrite", Goes(i, place, call[i], f), pc[i] # "idle"
      PROVE  /\ pc[i] # "idle" /\ pc'[i] # "rewrite" /\ call'[i] = call[i]
             /\ frame'[i].since = frame[i].since /\ frame'[i].listed = frame[i].listed
  BY <1>3 DEF Goes, f
<1>4. CASE VerdictRefused(i) \/ Fail(i) \/ Enqueue(i)
  BY <1>2, <1>4, VerdictRefusedMoves, FailMoves, EnqueueMoves
<1>5. CASE WriteCandidate(i)
  BY <1>3, <1>5, WriteCandidateMoves DEF f
<1>6. CASE Rewrite(i)
  BY <1>3, <1>6, RewriteMoves DEF f
<1>7. CASE StoreResult(i)
  BY <1>3, <1>7, StoreResultMoves DEF f
<1>8. CASE Evaluate(i)
  <2>. DEFINE v == Verdict(Current(i).id, Current(i).sub)
              g == [f EXCEPT !.base = rev, !.verdict = v]
  <2>1. v \in Verdicts /\ pc[i] = "evaluate" /\ Goes(i, "verdict", call[i], g)
    BY <1>8, EvaluateMoves DEF f
  <2>. HIDE DEF v
  <2>2. g.since = f.since /\ g.listed = f.listed
    BY <1>1, <2>1 DEF Frames
  <2>. HIDE DEF g
  <2>3. /\ pc[i] # "idle" /\ pc'[i] # "rewrite" /\ call'[i] = call[i]
        /\ frame'[i].since = frame[i].since /\ frame'[i].listed = frame[i].listed
    BY <2>1, <2>2 DEF Goes, f
  <2>. QED  BY <2>3
<1>9. ASSUME NEW id \in Ids, Goes(i, "persist", call[i], Listed(f, id)), pc[i] # "idle"
      PROVE  /\ pc[i] # "idle" /\ pc'[i] # "rewrite" /\ call'[i] = call[i]
             /\ frame'[i].since = frame[i].since
             /\ frame'[i].listed = frame[i].listed \cup {id}
  <2>1. Listed(f, id).since = f.since /\ Listed(f, id).listed = f.listed \cup {id}
    BY <1>1, <1>9, FrameLists
  <2>. QED  BY <1>9, <2>1 DEF Goes, f
<1>10. CASE ReadExisting(i)
  <2>. DEFINE id == Current(i).id
  <2>1. /\ pc[i] = "persist" /\ id \in Ids
        /\ \/ HasVerdict(id) /\ Goes(i, "persist", call[i], Listed(f, id))
           \/ Goes(i, "candidate", call[i], f)
    BY <1>10, ReadExistingMoves DEF f
  <2>. HIDE DEF id
  <2>2. CASE HasVerdict(id) /\ Goes(i, "persist", call[i], Listed(f, id))
    <3>1. id \in DOMAIN memory /\ memory[id].event
      BY <2>2 DEF HasVerdict
    <3>. QED  BY <1>9, <2>1, <2>2, <3>1
  <2>3. CASE Goes(i, "candidate", call[i], f)
    BY <1>3, <2>1, <2>3
  <2>. QED  BY <2>1, <2>2, <2>3
<1>11. CASE StoreVerdict(i)
  <2>. DEFINE id == Current(i).id
  <2>1. /\ pc[i] = "verdict" /\ id \in Ids
        /\ \/ Goes(i, "idle", NoCall, NoFrame)
           \/ Goes(i, "persist", call[i], Listed(f, id))
    BY <1>11, StoreVerdictMoves DEF f
  <2>2. id \in judged'
    BY <1>11 DEF StoreVerdict
  <2>. HIDE DEF id
  <2>. QED  BY <1>2, <1>9, <2>1, <2>2
<1>. QED  BY <1>4, <1>5, <1>6, <1>7, <1>8, <1>10, <1>11 DEF WorkCall

\* A judged memory stays judged; results are stored by StoreResult alone.
LEMMA WorkCallStores ==
    ASSUME NEW i \in Callers, WorkCall(i)
    PROVE  /\ judged \subseteq judged'
           /\ UNCHANGED <<work, checkpoints, closedAt>> \/ StoreResult(i)
<1>1. CASE BeginWork(i) \/ BeginReconcile(i) \/ ReadExisting(i) \/ Evaluate(i)
           \/ VerdictRefused(i) \/ Enqueue(i) \/ Fail(i)
  BY <1>1 DEF BeginWork, BeginFinish, BeginCapture, BeginPublish, BeginReconcile, ReadExisting,
              Evaluate, VerdictRefused, Enqueue, Fail, workVars
<1>2. CASE StoreResult(i)
  BY <1>2 DEF StoreResult
<1>3. CASE WriteCandidate(i) \/ Rewrite(i)
  BY <1>3 DEF WriteCandidate, Rewrite
<1>4. CASE StoreVerdict(i)
  BY <1>4 DEF StoreVerdict
<1>. QED  BY <1>1, <1>2, <1>3, <1>4 DEF WorkCall

LEMMA Stores ==
    ASSUME [Next]_vars
    PROVE  /\ judged \subseteq judged'
           /\ \/ UNCHANGED <<work, checkpoints, closedAt>>
              \/ UNCHANGED <<checkpoints, closedAt>> /\ \E w \in Works : StartWork(w)
              \/ \E i \in Callers : StoreResult(i)
<1>1. CASE UNCHANGED vars
  BY <1>1 DEF vars, workVars
<1>2. CASE \E w \in Works : StartWork(w)
  BY <1>2 DEF StartWork
<1>3. CASE \E r \in Refs : Reassess(r)
  BY <1>3 DEF Reassess
<1>4. CASE \E i \in Callers : DocumentCall(i)
  BY <1>4, DocumentCallKeepsWork DEF workVars
<1>. QED  BY <1>1, <1>2, <1>3, <1>4, NextCases, WorkCallStores

LEMMA EventsStep ==
    ASSUME TypeInv, ListInv, [Next]_vars
    PROVE  \A m \in DOMAIN memory' : memory'[m].event => m \in judged'
<1>1. judged \subseteq judged' /\ \A m \in DOMAIN memory : memory[m].event => m \in judged
  BY Stores DEF ListInv, EventsAreJudged
<1>2. CASE UNCHANGED memory
  BY <1>1, <1>2
<1>3. ASSUME NEW i \in Callers, WriteCandidate(i)
      PROVE  \A m \in DOMAIN memory' : memory'[m].event => m \in judged'
  <2>. DEFINE id == Current(i).id
              c == Candidate(Current(i).sub)
  <2>1. id \in Ids /\ c \in Memories /\ memory' = With(id, c)
    BY <1>3, WriteCandidateMoves DEF WriteCandidate
  <2>2. ~c.event
    BY DEF Candidate
  <2>. HIDE DEF id, c
  <2>3. /\ DOMAIN memory' = DOMAIN memory \cup {id} /\ memory'[id] = c
        /\ \A x \in DOMAIN memory : x # id => memory'[x] = memory[x]
    BY <2>1, MemoryWritten DEF TypeInv
  <2>. QED  BY <1>1, <2>2, <2>3
<1>4. ASSUME NEW i \in Callers, StoreVerdict(i)
      PROVE  \A m \in DOMAIN memory' : memory'[m].event => m \in judged'
  <2>. DEFINE id == Current(i).id
              c == [sub |-> Current(i).sub, status |-> frame[i].verdict, event |-> TRUE]
  <2>1. id \in Ids /\ c \in Memories /\ memory' = With(id, c)
    BY <1>4, StoreVerdictMoves
  <2>2. id \in judged'
    BY <1>4 DEF StoreVerdict
  <2>. HIDE DEF id, c
  <2>3. /\ DOMAIN memory' = DOMAIN memory \cup {id}
        /\ \A x \in DOMAIN memory : x # id => memory'[x] = memory[x]
    BY <2>1, MemoryWritten DEF TypeInv
  <2>. QED  BY <1>1, <2>2, <2>3
<1>5. ASSUME NEW i \in Callers, Rewrite(i)
      PROVE  \A m \in DOMAIN memory' : memory'[m].event => m \in judged'
  <2>1. pc[i] = "rewrite" /\ memory' = [memory EXCEPT ![call[i].memory] = frame[i].copy]
    BY <1>5 DEF Rewrite
  <2>2. frame[i].copy.event => call[i].memory \in judged
    BY <2>1 DEF ListInv, EventsAreJudged
  <2>. QED  BY <1>1, <2>1, <2>2
<1>. QED  BY <1>2, <1>3, <1>4, <1>5, Quiet

\* What a call has listed so far, and the record it is about to rewrite.
LEMMA ListedStep ==
    ASSUME TypeInv, ListInv, [Next]_vars, NEW j \in Callers
    PROVE  /\ frame'[j].listed \subseteq judged'
           /\ pc'[j] = "rewrite" /\ frame'[j].copy.event => call'[j].memory \in judged'
<1>1. /\ judged \subseteq judged' /\ frame[j].listed \subseteq judged
      /\ \A m \in DOMAIN memory : memory[m].event => m \in judged
      /\ pc[j] = "rewrite" /\ frame[j].copy.event => call[j].memory \in judged
  BY Stores DEF ListInv, EventsAreJudged
<1>2. CASE pc'[j] = pc[j] /\ call'[j] = call[j] /\ frame'[j] = frame[j]
  BY <1>1, <1>2
<1>3. CASE DocumentCall(j)
  <2>1. pc'[j] \in DocumentPlaces /\ frame'[j].listed \subseteq frame[j].listed
    BY <1>3, DocumentCallGoes DEF Goes
  <2>. QED  BY <1>1, <2>1 DEF DocumentPlaces, SectionPlaces
<1>4. CASE WorkCall(j)
  <2>1. rev \in Nat
    BY DEF TypeInv, CallersTyped
  <2>2. CASE BeginWork(j)
    <3>1. \E c : Goes(j, "persist", c, [NoFrame EXCEPT !.since = rev])
      BY <2>2, BeginWorkGoes DEF Begins
    <3>2. [NoFrame EXCEPT !.since = rev].listed = {}
      BY <2>1, NoFrameTyped, FrameBegins
    <3>. QED  BY <3>1, <3>2 DEF Goes
  <2>3. CASE BeginReconcile(j)
    <3>1. PICK m \in DOMAIN memory, copy \in Memories :
             /\ copy.event = memory[m].event
             /\ Begins(j, "rewrite", [op |-> "reconcile", memory |-> m],
                       [NoFrame EXCEPT !.copy = copy])
      BY <2>3, BeginReconcileMoves
    <3>. DEFINE f == [NoFrame EXCEPT !.copy = copy]
                c == [op |-> "reconcile", memory |-> m]
    <3>2. f \in Frames /\ f.listed = {} /\ f.copy = copy
      BY NoFrameTyped, FrameCopies DEF Copies
    <3>3. Begins(j, "rewrite", c, f) /\ c.memory = m
      BY <3>1
    <3>. HIDE DEF f, c
    <3>4. [f EXCEPT !.since = rev].listed = {} /\ [f EXCEPT !.since = rev].copy = copy
      BY <2>1, <3>2, FrameBegins
    <3>5. frame'[j].listed = {} /\ frame'[j].copy = copy /\ call'[j].memory = m
      BY <3>3, <3>4 DEF Begins, Goes
    <3>. QED  BY <1>1, <3>1, <3>5
  <2>4. CASE pc'[j] = "idle" /\ frame'[j].listed = {}
    BY <2>4
  <2>5. ASSUME pc'[j] # "rewrite",
               \/ frame'[j].listed = frame[j].listed
               \/ \E id \in Ids : /\ frame'[j].listed = frame[j].listed \cup {id}
                                  /\ id \in judged' \/ (id \in DOMAIN memory /\ memory[id].event)
        PROVE  /\ frame'[j].listed \subseteq judged'
               /\ pc'[j] = "rewrite" /\ frame'[j].copy.event => call'[j].memory \in judged'
    BY <1>1, <2>5
  <2>. QED  BY <1>4, <2>2, <2>3, <2>4, <2>5, WorkCallContinues
<1>. QED  BY <1>2, <1>3, <1>4, WhoActs

LEMMA ResultWritten ==
    ASSUME TypeInv, NEW i \in Callers, StoreResult(i)
    PROVE  /\ \A w \in Works :
                 work'[w] = IF call[i].op = "finish" /\ w = call[i].work
                            THEN [status |-> call[i].outcome, hash |-> call[i].seed,
                                  listed |-> frame[i].listed]
                            ELSE work[w]
           /\ \A w \in Works :
                 closedAt'[w] = IF call[i].op = "finish" /\ w = call[i].work
                                THEN rev + 1 ELSE closedAt[w]
           /\ \A c \in Checkpoints :
                 checkpoints'[c] = IF call[i].op = "capture" /\ c = call[i].seed
                                   THEN frame[i].listed ELSE checkpoints[c]
           /\ call[i].work \in Works /\ rev' = rev + 1
<1>1. /\ DOMAIN work = Works /\ DOMAIN closedAt = Works /\ DOMAIN checkpoints = Checkpoints
      /\ call[i].work \in Works
  BY StoreResultMoves DEF TypeInv, RecordsTyped, Results
<1>. DEFINE new == [status |-> call[i].outcome, hash |-> call[i].seed, listed |-> frame[i].listed]
<1>2. /\ work' = IF call[i].op # "finish" THEN work ELSE [work EXCEPT ![call[i].work] = new]
      /\ rev' = rev + 1
  BY DEF StoreResult
<1>3. closedAt' = IF call[i].op # "finish" THEN closedAt
                  ELSE [closedAt EXCEPT ![call[i].work] = rev + 1]
  BY DEF StoreResult
<1>4. checkpoints' = IF call[i].op # "capture" THEN checkpoints
                     ELSE [checkpoints EXCEPT ![call[i].seed] = frame[i].listed]
  BY DEF StoreResult
<1>. HIDE DEF new
<1>5. \A w \in Works : work'[w] = IF call[i].op = "finish" /\ w = call[i].work THEN new ELSE work[w]
  BY <1>1, <1>2
<1>6. \A w \in Works : closedAt'[w] = IF call[i].op = "finish" /\ w = call[i].work
                                      THEN rev + 1 ELSE closedAt[w]
  BY <1>1, <1>3
<1>7. \A c \in Checkpoints : checkpoints'[c] = IF call[i].op = "capture" /\ c = call[i].seed
                                               THEN frame[i].listed ELSE checkpoints[c]
  BY <1>1, <1>4
<1>. QED  BY <1>1, <1>2, <1>5, <1>6, <1>7 DEF new

LEMMA WorkStarted ==
    ASSUME TypeInv, NEW v \in Works, StartWork(v)
    PROVE  /\ \A w \in Works : w # v => work'[w] = work[w]
           /\ work[v].status = "absent" /\ work'[v].status # "absent"
           /\ work'[v].hash = work[v].hash /\ work'[v].listed = work[v].listed
<1>1. work' = [work EXCEPT ![v].status = "in_progress"] /\ work[v].status = "absent"
  BY DEF StartWork
<1>2. work \in [Works -> WorkItems] /\ work[v] \in WorkItems
  BY DEF TypeInv, RecordsTyped
<1>. QED  BY <1>1, <1>2 DEF WorkItems

LEMMA ListStep == TypeInv /\ ListInv /\ [Next]_vars => ListInv'
<1>. SUFFICES ASSUME TypeInv, ListInv, [Next]_vars PROVE ListInv'
  OBVIOUS
<1>1. EventsAreJudged'
  BY EventsStep, ListedStep DEF EventsAreJudged
<1>2. ListedWasJudged'
  <2>1. /\ judged \subseteq judged' /\ \A i \in Callers : frame[i].listed \subseteq judged
        /\ \A w \in Works : work[w].listed \subseteq judged
        /\ \A c \in Checkpoints : checkpoints[c] # NoCall => checkpoints[c] \subseteq judged
    BY Stores DEF ListInv, EventsAreJudged, ListedWasJudged
  <2>2. CASE UNCHANGED <<work, checkpoints>>
    BY <2>1, <2>2 DEF ListedWasJudged
  <2>3. ASSUME NEW v \in Works, StartWork(v), UNCHANGED checkpoints
        PROVE  ListedWasJudged'
    <3>1. \A w \in Works : work'[w].listed = work[w].listed
      BY <2>3, WorkStarted
    <3>. QED  BY <2>1, <2>3, <3>1 DEF ListedWasJudged
  <2>4. ASSUME NEW i \in Callers, StoreResult(i)
        PROVE  ListedWasJudged'
    <3>1. \A w \in Works : work'[w].listed \in {work[w].listed, frame[i].listed}
      <4>. DEFINE new == [status |-> call[i].outcome, hash |-> call[i].seed,
                          listed |-> frame[i].listed]
      <4>1. \A w \in Works : work'[w] = IF call[i].op = "finish" /\ w = call[i].work
                                        THEN new ELSE work[w]
        BY <2>4, ResultWritten
      <4>2. new.listed = frame[i].listed
        OBVIOUS
      <4>. HIDE DEF new
      <4>. QED  BY <4>1, <4>2
    <3>2. \A c \in Checkpoints : checkpoints'[c] \in {checkpoints[c], frame[i].listed}
      BY <2>4, ResultWritten
    <3>. QED  BY <2>1, <3>1, <3>2 DEF ListedWasJudged
  <2>. QED  BY <2>2, <2>3, <2>4, Stores
<1>. QED  BY <1>1, <1>2 DEF ListInv

LEMMA ListInit == Init => ListInv
BY NoFrameTyped DEF Init, WorkInit, ListInv, EventsAreJudged, ListedWasJudged

\* Whatever a stored closeout or checkpoint lists was judged by the gates: a
\* candidate left behind by a call that died is judged by the retry, and a
\* rewrite carries a validation event only if its original had one.
THEOREM ListedMemoriesWereJudged == Spec => []ListedWasJudged
<1>1. Init => TypeInv /\ ListInv
  BY TypeInit, ListInit
<1>2. TypeInv /\ ListInv /\ [Next]_vars => (TypeInv /\ ListInv)'
  BY TypeStep, ListStep
<1>3. ListInv => ListedWasJudged
  BY DEF ListInv
<1>. QED  BY <1>1, <1>2, <1>3, PTL DEF Spec

-----------------------------------------------------------------------------
\* The closeouts of a work item.
LEMMA CloseoutStep == TypeInv /\ CloseoutInv /\ [Next]_vars => CloseoutInv'
<1>. SUFFICES ASSUME TypeInv, CloseoutInv, [Next]_vars PROVE CloseoutInv'
  OBVIOUS
<1>1. TypeInv' /\ rev \in Nat /\ closedAt \in [Works -> Nat]
  BY TypeStep DEF TypeInv, CallersTyped, RecordsTyped
<1>2. \A w \in Works : work'[w].hash # NoHash => work'[w].status # "absent"
  <2>1. \A w \in Works : work[w].hash # NoHash => work[w].status # "absent"
    BY DEF CloseoutInv
  <2>2. CASE UNCHANGED work
    BY <2>1, <2>2
  <2>3. ASSUME NEW v \in Works, StartWork(v)
        PROVE  \A w \in Works : work'[w].hash # NoHash => work'[w].status # "absent"
    <3>1. \A w \in Works : w # v => work'[w] = work[w]
      BY <2>3, WorkStarted
    <3>2. work'[v].status # "absent"
      BY <2>3, WorkStarted
    <3>. QED  BY <2>1, <3>1, <3>2
  <2>4. ASSUME NEW i \in Callers, StoreResult(i)
        PROVE  \A w \in Works : work'[w].hash # NoHash => work'[w].status # "absent"
    <3>. DEFINE new == [status |-> call[i].outcome, hash |-> call[i].seed,
                        listed |-> frame[i].listed]
    <3>1. \A w \in Works : work'[w] = IF call[i].op = "finish" /\ w = call[i].work
                                      THEN new ELSE work[w]
      BY <2>4, ResultWritten
    <3>2. Results(i)
      BY <2>4, StoreResultMoves
    <3>3. call[i].op = "finish" => new.status # "absent"
      BY <3>2, WorkAssumption DEF Results
    <3>. HIDE DEF new
    <3>. QED  BY <2>1, <3>1, <3>3
  <2>. QED  BY <2>2, <2>3, <2>4, Stores
\* The latest closeout of a work item is not older than any call under way.
<1>3. ASSUME NEW w \in Works, NEW since \in Nat, since <= rev,
             work[w].hash # NoHash => since < closedAt[w]
      PROVE  work'[w].hash # NoHash => since < closedAt'[w]
  <2>1. CASE UNCHANGED <<work, closedAt>>
    BY <1>3, <2>1
  <2>2. ASSUME NEW v \in Works, StartWork(v), UNCHANGED closedAt
        PROVE  work'[w].hash # NoHash => since < closedAt'[w]
    <3>1. work'[w].hash = work[w].hash
      BY <2>2, WorkStarted
    <3>. QED  BY <1>3, <2>2, <3>1
  <2>3. ASSUME NEW i \in Callers, StoreResult(i)
        PROVE  work'[w].hash # NoHash => since < closedAt'[w]
    <3>1. \/ work'[w] = work[w] /\ closedAt'[w] = closedAt[w]
          \/ closedAt'[w] = rev + 1
      BY <2>3, ResultWritten
    <3>. QED  BY <1>1, <1>3, <3>1
  <2>. QED  BY <2>1, <2>2, <2>3, Stores
<1>4. ASSUME NEW j \in Callers, pc'[j] # "idle", call'[j].op = "finish",
             work'[call'[j].work].hash # NoHash
      PROVE  frame'[j].since < closedAt'[call'[j].work]
  <2>1. pc'[j] \in WorkPlaces /\ Results(j)'
    <3>1. CallTyped(j)' /\ pc'[j] \in Places
      BY <1>1 DEF TypeInv, CallersTyped
    <3>. QED  BY <1>4, <3>1 DEF CallTyped, Reconciles, Places, WorkPlaces, SectionPlaces
  <2>2. call'[j].work \in Works
    BY <2>1 DEF Results
  <2>3. frame[j] \in Frames /\ frame[j].since \in Nat /\ frame[j].since <= rev
    BY DEF TypeInv, CallersTyped, Frames
  <2>4. CloseoutBegan(j)
    BY DEF CloseoutInv
  <2>5. ASSUME pc[j] # "idle", call'[j] = call[j], frame'[j].since = frame[j].since
        PROVE  frame'[j].since < closedAt'[call'[j].work]
    BY <1>3, <1>4, <2>2, <2>3, <2>4, <2>5 DEF CloseoutBegan
  <2>6. CASE pc'[j] = pc[j] /\ call'[j] = call[j] /\ frame'[j] = frame[j]
    BY <1>4, <2>5, <2>6
  <2>7. CASE DocumentCall(j)
    BY <1>4, <2>1, <2>7, DocumentCallGoes DEF Goes, DocumentPlaces, SectionPlaces, WorkPlaces
  <2>8. CASE WorkCall(j)
    <3>1. CASE BeginFinish(j)
      <4>1. PICK w \in Works : \E c : /\ work[w].hash = NoHash /\ c.work = w
                                  /\ Begins(j, "persist", c, NoFrame)
        BY <3>1, BeginFinishMoves
      <4>2. work'[w].hash = NoHash
        BY <3>1, <4>1 DEF BeginFinish, workVars
      <4>. QED  BY <1>4, <4>1, <4>2 DEF Begins, Goes
    <3>2. CASE BeginCapture(j)
      <4>1. PICK c : c.op = "capture" /\ Begins(j, "persist", c, NoFrame)
        BY <3>2, BeginCaptureMoves
      <4>. QED  BY <1>4, <4>1 DEF Begins, Goes
    <3>3. CASE BeginPublish(j)
      <4>1. PICK c : c.op = "publish" /\ Begins(j, "persist", c, NoFrame)
        BY <3>3, BeginPublishMoves
      <4>. QED  BY <1>4, <4>1 DEF Begins, Goes
    <3>4. CASE BeginReconcile(j)
      <4>1. PICK c, f : c.op = "reconcile" /\ Begins(j, "rewrite", c, f)
        BY <3>4, BeginReconcileMoves
      <4>. QED  BY <1>4, <4>1 DEF Begins, Goes
    <3>. QED  BY <1>4, <2>5, <2>8, <3>1, <3>2, <3>3, <3>4, WorkCallContinues DEF BeginWork
  <2>. QED  BY <2>6, <2>7, <2>8, WhoActs
<1>. QED  BY <1>2, <1>4 DEF CloseoutInv, CloseoutBegan

LEMMA CloseoutInit == Init => CloseoutInv
BY DEF Init, WorkInit, CloseoutInv, CloseoutBegan

LEMMA CloseoutsHold == Spec => [](TypeInv /\ CloseoutInv)
<1>1. Init => TypeInv /\ CloseoutInv
  BY TypeInit, CloseoutInit
<1>2. TypeInv /\ CloseoutInv /\ [Next]_vars => (TypeInv /\ CloseoutInv)'
  BY TypeStep, CloseoutStep
<1>. QED  BY <1>1, <1>2, PTL DEF Spec

LEMMA ReplacedByOverlap ==
    ASSUME TypeInv, CloseoutInv, [Next]_vars, NEW w \in Works,
           work[w].hash # NoHash, work'[w] # work[w]
    PROVE  \E i \in Callers : pc[i] = "persist" /\ pc'[i] = "enqueue"
                              /\ call[i].work = w /\ frame[i].since < closedAt[w]
<1>1. work[w].status # "absent"
  BY DEF CloseoutInv
<1>2. ~ \E v \in Works : StartWork(v)
  BY <1>1, WorkStarted
<1>3. PICK i \in Callers : StoreResult(i)
  BY <1>2, Stores
<1>4. pc[i] = "persist" /\ pc'[i] = "enqueue"
  BY <1>3, StoreResultMoves DEF Goes
<1>5. call[i].op = "finish" /\ w = call[i].work
  BY <1>3, ResultWritten
<1>6. CloseoutBegan(i)
  BY DEF CloseoutInv
<1>. QED  BY <1>4, <1>5, <1>6 DEF CloseoutBegan

\* The result of a closed work item gives way only to a closeout that began
\* before that result was stored: MayClose is asked once, when a call begins.
THEOREM CloseoutsOverlap == Spec => CloseoutLostOnlyByOverlap
<1>1. TypeInv /\ CloseoutInv /\ [Next]_vars =>
        [\A w \in Works : work[w].hash # NoHash /\ work'[w] # work[w] =>
           \E i \in Callers : pc[i] = "persist" /\ pc'[i] = "enqueue"
                              /\ call[i].work = w /\ frame[i].since < closedAt[w]]_<<rev, workVars>>
  BY ReplacedByOverlap
<1>. QED  BY <1>1, CloseoutsHold, PTL DEF Spec, CloseoutLostOnlyByOverlap

-----------------------------------------------------------------------------
(***************************************************************************)
(* Proofs of part 3.  Every change of a document is a Replace, by a call   *)
(* that went by the present revision or began before it was stored.        *)
(***************************************************************************)

GoesBy(i, d, new) ==
    /\ pc'[i] # pc[i]
    /\ \/ new.revision = doc[d].revision
       \/ doc[d].revision = "none"
       \/ frame[i].since < setAt[d]
       \/ call[i].op \in {"main", "section"} /\ call[i].expected = doc[d].revision

Sound(d, new) ==
    new \in Documents /\ new.revision # "none" /\ (new.parent = d \/ Present(new.parent))

LEMMA Exists ==
    ASSUME TypeInv, DocumentInv, NEW d \in Docs
    PROVE  Present(d) <=> doc[d].revision # "none"
<1>1. Absent.revision = "none"
  BY DEF Absent
<1>. QED  BY <1>1 DEF Present, DocumentInv

LEMMA CopyLinks ==
    ASSUME NEW copy \in Documents, NEW s \in Sections
    PROVE  /\ [copy EXCEPT !.links = @ \ {s}].revision = copy.revision
           /\ [copy EXCEPT !.links = @ \ {s}].parent = copy.parent
           /\ [copy EXCEPT !.links = @ \ {s}].links = copy.links \ {s}
           /\ [copy EXCEPT !.links = @ \cup {s}].revision = copy.revision
           /\ [copy EXCEPT !.links = @ \cup {s}].parent = copy.parent
           /\ [copy EXCEPT !.links = @ \cup {s}].links = copy.links \cup {s}
BY DEF Documents

LEMMA DocumentCallReplaces ==
    ASSUME TypeInv, DocumentInv, NEW i \in Callers, DocumentCall(i)
    PROVE  \/ UNCHANGED <<doc, setAt>>
           \/ \E d \in Docs : \E new : Replace(d, new) /\ Sound(d, new) /\ GoesBy(i, d, new)
<1>. DEFINE f == frame[i]
            s == call[i].doc
<1>1. Fetched(i) /\ CallTyped(i)
  BY DEF DocumentInv, TypeInv
<1>2. f \in Frames /\ Project \in Docs /\ \A x \in Sections : x \in Docs
  BY DEF TypeInv, CallersTyped, Docs
<1>3. CASE \/ BeginBootstrap(i) \/ BeginMain(i) \/ BeginSection(i) \/ BeginProposal(i)
           \/ ReadPrevious(i) \/ ReadParent(i) \/ ReadWritten(i) \/ Propose(i)
  BY <1>3 DEF BeginBootstrap, BeginMain, BeginSection, BeginProposal, ReadPrevious, ReadParent,
              ReadWritten, Propose, docVars
<1>4. CASE Bootstrap(i)
  <2>. DEFINE new == [Absent EXCEPT !.revision = "new"]
  <2>1. new \in Documents /\ new.revision = "new" /\ new.parent = Project
    BY DEF Absent, Documents, Docs
  <2>2. pc[i] = "bootstrap" /\ Replace(Project, new) /\ Return(i)
    BY <1>4 DEF Bootstrap
  <2>3. pc'[i] = "idle"
    BY <2>2, ReturnMoves DEF Goes, TypeInv
  <2>4. doc[Project].revision = "none" \/ f.since < setAt[Project]
    BY <1>1, <2>2 DEF Fetched, AsSeen
  <2>. HIDE DEF new
  <2>5. GoesBy(i, Project, new)
    BY <2>2, <2>3, <2>4 DEF GoesBy
  <2>6. Sound(Project, new)
    BY <2>1 DEF Sound
  <2>. QED  BY <1>2, <2>2, <2>5, <2>6
<1>5. CASE UpdateMain(i)
  <2>1. pc[i] = "main" /\ Replace(Project, f.copy) /\ Return(i)
    BY <1>5 DEF UpdateMain
  <2>2. pc'[i] = "idle"
    BY <2>1, ReturnMoves DEF Goes, TypeInv
  <2>3. call[i].op = "main" /\ (call[i].expected = doc[Project].revision \/ f.since < setAt[Project])
    BY <1>1, <2>1 DEF Fetched, AsSeen, CallTyped
  <2>4. Sound(Project, f.copy)
    BY <1>1, <2>1 DEF Fetched, Sound, CallTyped, CopyPlaces
  <2>5. GoesBy(i, Project, f.copy)
    BY <2>1, <2>2, <2>3 DEF GoesBy
  <2>. QED  BY <1>2, <2>1, <2>4, <2>5
<1>6. CASE UpsertSection(i)
  <2>1. pc[i] = "section" /\ Replace(s, f.copy) /\ GoTo(i, "unlink", f) /\ s \in Docs
    BY <1>1, <1>2, <1>6 DEF UpsertSection, CallTyped, SectionPlaces
  <2>2. pc'[i] = "unlink"
    BY <2>1, SectionMoves DEF Goes, Places, SectionPlaces
  <2>3. call[i].op = "section" /\ (call[i].expected = doc[s].revision \/ f.since < setAt[s])
    BY <1>1, <2>1 DEF Fetched, AsSeen, CallTyped, SectionPlaces
  <2>4. Sound(s, f.copy)
    BY <1>1, <2>1 DEF Fetched, Sound, CallTyped, CopyPlaces
  <2>5. GoesBy(i, s, f.copy)
    BY <2>1, <2>2, <2>3 DEF GoesBy
  <2>. QED  BY <2>1, <2>4, <2>5
<1>7. ASSUME NEW d \in Docs, NEW new \in Documents, Replace(d, new),
             pc[i] \in {"unlinked", "linked", "audited"},
             pc'[i] # pc[i], f.copy.revision = doc[d].revision \/ f.since < setAt[d],
             new.revision = f.copy.revision, new.parent = f.copy.parent
      PROVE  \E e \in Docs : \E n : Replace(e, n) /\ Sound(e, n) /\ GoesBy(i, e, n)
  <2>1. f.copy.revision # "none" /\ Present(f.copy.parent)
    BY <1>1, <1>7 DEF Fetched, CopyPlaces
  <2>2. Sound(d, new) /\ GoesBy(i, d, new)
    BY <1>7, <2>1 DEF Sound, GoesBy
  <2>. QED  BY <1>7, <2>2
<1>8. CASE Unlink(i)
  <2>. DEFINE new == [f.copy EXCEPT !.links = @ \ {s}]
  <2>1. pc[i] = "unlinked" /\ Replace(call[i].from, new) /\ GoTo(i, "link", f)
    BY <1>8 DEF Unlink
  <2>2. call[i].from \in Docs /\ s \in Sections /\ f.copy \in Documents
    BY <1>1, <2>1 DEF CallTyped, SectionPlaces, CopyPlaces
  <2>3. pc'[i] = "link"
    BY <2>1, SectionMoves DEF Goes, Places, SectionPlaces
  <2>4. new \in Documents /\ new.revision = f.copy.revision /\ new.parent = f.copy.parent
    BY <2>2, CopyLinksTyped, CopyLinks
  <2>5. f.copy.revision = doc[call[i].from].revision \/ f.since < setAt[call[i].from]
    BY <1>1, <2>1 DEF Fetched, AsSeen
  <2>. HIDE DEF new
  <2>. QED  BY <1>7, <2>1, <2>2, <2>3, <2>4, <2>5
<1>9. CASE Link(i)
  <2>. DEFINE new == [f.copy EXCEPT !.links = @ \cup {s}]
  <2>1. pc[i] = "linked" /\ Replace(call[i].to, new) /\ GoTo(i, "audit", f)
    BY <1>9 DEF Link
  <2>2. call[i].to \in Docs /\ s \in Sections /\ f.copy \in Documents
    BY <1>1, <2>1 DEF CallTyped, SectionPlaces, CopyPlaces
  <2>3. pc'[i] = "audit"
    BY <2>1, SectionMoves DEF Goes, Places, SectionPlaces
  <2>4. new \in Documents /\ new.revision = f.copy.revision /\ new.parent = f.copy.parent
    BY <2>2, CopyLinksTyped, CopyLinks
  <2>5. f.copy.revision = doc[call[i].to].revision \/ f.since < setAt[call[i].to]
    BY <1>1, <2>1 DEF Fetched, AsSeen
  <2>. HIDE DEF new
  <2>. QED  BY <1>7, <2>1, <2>2, <2>3, <2>4, <2>5
<1>10. CASE NoteAudit(i)
  <2>1. pc[i] = "audited" /\ Replace(s, f.copy) /\ Return(i)
    BY <1>10 DEF NoteAudit
  <2>2. s \in Docs /\ f.copy \in Documents
    BY <1>1, <1>2, <2>1 DEF CallTyped, SectionPlaces, CopyPlaces
  <2>3. pc'[i] = "idle"
    BY <2>1, ReturnMoves DEF Goes, TypeInv
  <2>4. f.copy.revision = doc[s].revision \/ f.since < setAt[s]
    BY <1>1, <2>1 DEF Fetched, AsSeen
  <2>. QED  BY <1>7, <2>1, <2>2, <2>3, <2>4
<1>. QED  BY <1>3, <1>4, <1>5, <1>6, <1>8, <1>9, <1>10 DEF DocumentCall

LEMMA Replaces ==
    ASSUME TypeInv, DocumentInv, [Next]_vars
    PROVE  \/ UNCHANGED <<doc, setAt>>
           \/ \E i \in Callers, d \in Docs : \E new :
                 Replace(d, new) /\ Sound(d, new) /\ GoesBy(i, d, new)
<1>1. UNCHANGED vars \/ UNCHANGED docVars => UNCHANGED <<doc, setAt>>
  BY DEF vars, docVars
<1>. QED  BY <1>1, NextCases, DocumentCallReplaces

\* So what exists stays, and what a call has seen is overtaken only by a newer one.
LEMMA SeenStays ==
    ASSUME TypeInv, DocumentInv, [Next]_vars
    PROVE  /\ \A d \in Docs : Present(d) => Present(d)'
           /\ \A d \in Docs : Present(d)' => doc'[d].revision # "none" /\ Present(doc[d].parent)'
           /\ \A x : \A d \in Docs, since \in Nat :
                 since <= rev /\ (x = doc[d].revision \/ since < setAt[d])
                 => x = doc'[d].revision \/ since < setAt'[d]
<1>1. \A d \in Docs : Present(d) => doc[d].revision # "none" /\ Present(doc[d].parent)
  BY DEF DocumentInv
<1>2. CASE UNCHANGED <<doc, setAt>>
  BY <1>1, <1>2 DEF Present
<1>3. ASSUME NEW d \in Docs, NEW new, Replace(d, new), Sound(d, new)
      PROVE  /\ \A e \in Docs : Present(e) => Present(e)'
             /\ \A e \in Docs : Present(e)' => doc'[e].revision # "none" /\ Present(doc[e].parent)'
             /\ \A x : \A e \in Docs, since \in Nat :
                   since <= rev /\ (x = doc[e].revision \/ since < setAt[e])
                   => x = doc'[e].revision \/ since < setAt'[e]
  <2>1. new \in Documents /\ new.revision # "none" /\ (new.parent = d \/ Present(new.parent))
    BY <1>3 DEF Sound
  <2>2. rev \in Nat /\ RecordsTyped
    BY DEF TypeInv, CallersTyped
  <2>3. /\ doc'[d] = new /\ \A e \in Docs : e # d => doc'[e] = doc[e] /\ setAt'[e] = setAt[e]
        /\ setAt'[d] = IF new.revision = doc[d].revision THEN setAt[d] ELSE rev + 1
    BY <1>3, <2>1, <2>2, DocumentReplaced
  <2>4. new # Absent
    BY <2>1 DEF Absent
  <2>5. \A e \in Docs : Present(e) => Present(e)'
    BY <2>3, <2>4 DEF Present
  <2>6. doc \in [Docs -> Documents]
    BY <2>2 DEF RecordsTyped
  <2>7. ASSUME NEW e \in Docs, Present(e)'
        PROVE  doc'[e].revision # "none" /\ Present(doc[e].parent)'
    <3>1. CASE e = d
      <4>1. Present(d)'
        BY <2>3, <2>4 DEF Present
      <4>2. new.parent \in Docs
        BY <2>1 DEF Documents
      <4>. QED  BY <2>1, <2>3, <2>5, <3>1, <4>1, <4>2 DEF Present
    <3>2. CASE e # d
      <4>1. doc'[e] = doc[e] /\ Present(e)
        BY <2>3, <2>7, <3>2 DEF Present
      <4>2. doc[e].parent \in Docs /\ Present(doc[e].parent) /\ doc[e].revision # "none"
        BY <1>1, <2>6, <4>1 DEF Documents
      <4>. QED  BY <2>5, <4>1, <4>2 DEF Present
    <3>. QED  BY <3>1, <3>2
  <2>8. ASSUME NEW e \in Docs, NEW x, NEW since \in Nat, since <= rev,
               x = doc[e].revision \/ since < setAt[e]
        PROVE  x = doc'[e].revision \/ since < setAt'[e]
    BY <2>2, <2>3, <2>8
  <2>. QED  BY <2>5, <2>7, <2>8
<1>. QED  BY <1>2, <1>3, Replaces

LEMMA FetchedStays ==
    ASSUME TypeInv, DocumentInv, [Next]_vars, NEW j \in Callers,
           pc'[j] = pc[j], call'[j] = call[j], frame'[j] = frame[j]
    PROVE  Fetched(j)'
<1>1. Fetched(j) /\ CallTyped(j)
  BY DEF DocumentInv, TypeInv
<1>2. frame[j].since \in Nat /\ frame[j].since <= rev
  BY DEF TypeInv, CallersTyped, Frames
<1>3. ASSUME NEW d \in Docs, NEW x, x = doc[d].revision \/ frame[j].since < setAt[d]
      PROVE  x = doc'[d].revision \/ frame'[j].since < setAt'[d]
  BY <1>2, <1>3, SeenStays
<1>4. /\ pc[j] \in SectionPlaces =>
           call[j].from \in Docs /\ call[j].to \in Docs /\ call[j].doc \in Docs
      /\ pc[j] \in CopyPlaces => frame[j].copy.parent \in Docs
      /\ Project \in Docs
  BY <1>1 DEF CallTyped, Docs, Documents
<1>5. \A d \in Docs : Present(d) => Present(d)'
  BY SeenStays
<1>6. pc[j] = "bootstrap" => AsSeen("none", j, Project)'
  BY <1>1, <1>3, <1>4 DEF Fetched, AsSeen
<1>7. pc[j] = "main" => AsSeen(call[j].expected, j, Project)'
  BY <1>1, <1>3, <1>4 DEF Fetched, AsSeen
<1>8. pc[j] = "section" => AsSeen(call[j].expected, j, call[j].doc)'
  BY <1>1, <1>3, <1>4 DEF Fetched, AsSeen, SectionPlaces
<1>9. pc[j] = "unlinked" => AsSeen(frame[j].copy.revision, j, call[j].from)'
  BY <1>1, <1>3, <1>4 DEF Fetched, AsSeen, SectionPlaces
<1>10. pc[j] = "linked" => AsSeen(frame[j].copy.revision, j, call[j].to)'
  BY <1>1, <1>3, <1>4 DEF Fetched, AsSeen, SectionPlaces
<1>11. pc[j] = "audited" => AsSeen(frame[j].copy.revision, j, call[j].doc)'
  BY <1>1, <1>3, <1>4 DEF Fetched, AsSeen, SectionPlaces
<1>12. /\ pc[j] \in SectionPlaces => Present(call[j].from)' /\ Present(call[j].to)'
       /\ pc[j] \in SectionPlaces \ {"section"} => Present(call[j].doc)'
       /\ pc[j] \in CopyPlaces => frame[j].copy.revision # "none" /\ Present(frame[j].copy.parent)'
  <2>1. /\ pc[j] \in SectionPlaces => Present(call[j].from) /\ Present(call[j].to)
        /\ pc[j] \in SectionPlaces \ {"section"} => Present(call[j].doc)
        /\ pc[j] \in CopyPlaces => frame[j].copy.revision # "none" /\ Present(frame[j].copy.parent)
    BY <1>1 DEF Fetched
  <2>2. \A d \in Docs : doc[d] # Absent => doc'[d] # Absent
    BY <1>5 DEF Present
  <2>. QED  BY <1>4, <2>1, <2>2 DEF Present
<1>. QED  BY <1>6, <1>7, <1>8, <1>9, <1>10, <1>11, <1>12 DEF Fetched, AsSeen, Present

\* The calls of the documents that begin.
LEMMA FetchedBegins ==
    ASSUME TypeInv, DocumentInv, NEW i \in Callers,
           BeginBootstrap(i) \/ BeginMain(i) \/ BeginSection(i) \/ BeginProposal(i)
    PROVE  Fetched(i)'
<1>1. doc' = doc /\ setAt' = setAt /\ rev \in Nat /\ doc \in [Docs -> Documents]
  BY DEF BeginBootstrap, BeginMain, BeginSection, BeginProposal, docVars, TypeInv, CallersTyped,
         RecordsTyped
<1>2. \A d \in Docs : Present(d) => doc[d].revision # "none" /\ Present(doc[d].parent)
  BY DEF DocumentInv
<1>3. Project \in Docs /\ \A s \in Sections : s \in Docs
  BY DEF Docs
<1>4. ASSUME NEW copy \in Documents
      PROVE  LET f == [NoFrame EXCEPT !.copy = copy]
             IN  f \in Frames /\ [f EXCEPT !.since = rev].copy = copy
  <2>. DEFINE f == [NoFrame EXCEPT !.copy = copy]
  <2>1. f \in Frames /\ f.copy = copy
    BY NoFrameTyped, FrameCopies DEF Copies
  <2>. HIDE DEF f
  <2>2. [f EXCEPT !.since = rev].copy = copy
    BY <1>1, <2>1, FrameBegins
  <2>. QED  BY <2>1, <2>2 DEF f
<1>5. CASE BeginBootstrap(i)
  <2>1. pc'[i] = "bootstrap" /\ ~Present(Project)
    BY <1>5, BeginBootstrapMoves DEF Begins, Goes
  <2>2. doc[Project].revision = "none"
    BY <1>3, <2>1, Exists
  <2>. QED  BY <1>1, <2>1, <2>2 DEF Fetched, AsSeen, SectionPlaces, CopyPlaces
<1>6. CASE BeginMain(i)
  <2>1. PICK v \in Versions, expected \in Versions \cup {"new"} :
          LET copy == [doc[Project] EXCEPT !.revision = v]
          IN  /\ Present(Project) /\ expected = doc[Project].revision
              /\ copy \in Documents
              /\ Begins(i, "main", [op |-> "main", expected |-> expected],
                        [NoFrame EXCEPT !.copy = copy])
    BY <1>6, BeginMainMoves
  <2>. DEFINE copy == [doc[Project] EXCEPT !.revision = v]
              f == [NoFrame EXCEPT !.copy = copy]
              c == [op |-> "main", expected |-> expected]
  <2>2. copy.revision = v /\ copy.parent = doc[Project].parent
    BY <1>1, <1>3 DEF Documents
  <2>3. /\ Present(Project) /\ expected = doc[Project].revision /\ copy \in Documents
        /\ Begins(i, "main", c, f) /\ c.expected = expected
    BY <2>1
  <2>. HIDE DEF copy
  <2>4. [f EXCEPT !.since = rev].copy = copy
    BY <1>4, <2>3
  <2>. HIDE DEF f, c
  <2>5. pc'[i] = "main" /\ call'[i].expected = expected /\ frame'[i].copy = copy
    BY <2>3, <2>4 DEF Begins, Goes
  <2>6. copy.revision # "none" /\ Present(copy.parent)
    BY <1>2, <1>3, <2>2, <2>3, DocumentAssumption
  <2>. QED  BY <1>1, <2>3, <2>5, <2>6 DEF Fetched, AsSeen, SectionPlaces, CopyPlaces, Present
<1>7. CASE BeginSection(i)
  <2>1. PICK d \in Sections, p \in Docs, v \in Versions, expected \in Versions \cup {"none"} :
          LET copy == [revision |-> v, parent |-> p, links |-> doc[d].links]
              from == IF Present(d) THEN doc[d].parent ELSE p
          IN  /\ Present(p) /\ expected = doc[d].revision
              /\ copy \in Documents /\ from \in Docs
              /\ Begins(i, "section",
                        [op |-> "section", expected |-> expected, doc |-> d,
                         from |-> from, to |-> p],
                        [NoFrame EXCEPT !.copy = copy])
    BY <1>7, BeginSectionMoves
  <2>. DEFINE copy == [revision |-> v, parent |-> p, links |-> doc[d].links]
              from == IF Present(d) THEN doc[d].parent ELSE p
              f == [NoFrame EXCEPT !.copy = copy]
              c == [op |-> "section", expected |-> expected, doc |-> d, from |-> from, to |-> p]
  <2>2. copy.revision = v /\ copy.parent = p
    OBVIOUS
  <2>3. Present(from)
    BY <1>2, <1>3, <2>1
  <2>4. /\ Present(p) /\ expected = doc[d].revision /\ copy \in Documents
        /\ Begins(i, "section", c, f) /\ c.expected = expected /\ c.doc = d
        /\ c.from = from /\ c.to = p
    BY <2>1
  <2>. HIDE DEF copy, from
  <2>5. [f EXCEPT !.since = rev].copy = copy
    BY <1>4, <2>4
  <2>. HIDE DEF f, c
  <2>6. /\ pc'[i] = "section" /\ call'[i] = c /\ frame'[i].copy = copy
    BY <2>4, <2>5 DEF Begins, Goes
  <2>7. copy.revision # "none" /\ Present(copy.parent)
    BY <2>2, <2>4, DocumentAssumption
  <2>. QED  BY <1>1, <2>3, <2>4, <2>6, <2>7 DEF Fetched, AsSeen, SectionPlaces, CopyPlaces, Present
<1>8. CASE BeginProposal(i)
  <2>1. pc'[i] = "propose"
    BY <1>8, BeginProposalMoves DEF Begins, Goes
  <2>. QED  BY <2>1 DEF Fetched, SectionPlaces, CopyPlaces
<1>. QED  BY <1>5, <1>6, <1>7, <1>8

LEMMA FetchedActs ==
    ASSUME TypeInv, DocumentInv, [Next]_vars, NEW i \in Callers, DocumentCall(i)
    PROVE  Fetched(i)'
<1>. DEFINE f == frame[i]
            c == call[i]
<1>1. Fetched(i) /\ CallTyped(i) /\ doc \in [Docs -> Documents] /\ SectionPlaces \subseteq Places
  BY DEF DocumentInv, TypeInv, RecordsTyped, Places
<1>2. pc[i] \in SectionPlaces =>
        /\ c.from \in Docs /\ c.to \in Docs /\ c.doc \in Docs
        /\ Present(c.from) /\ Present(c.to) /\ (pc[i] # "section" => Present(c.doc))
  BY <1>1 DEF CallTyped, Fetched, Docs
<1>3. /\ \A d \in Docs : Present(d) => Present(d)'
      /\ \A d \in Docs : Present(d) => doc[d].revision # "none" /\ Present(doc[d].parent)
  BY SeenStays DEF DocumentInv
<1>4. CASE BeginBootstrap(i) \/ BeginMain(i) \/ BeginSection(i) \/ BeginProposal(i)
  BY <1>4, FetchedBegins
<1>5. CASE Bootstrap(i) \/ UpdateMain(i) \/ NoteAudit(i) \/ Propose(i)
  <2>1. Return(i)
    BY <1>5 DEF Bootstrap, UpdateMain, NoteAudit, Propose
  <2>2. pc'[i] = "idle"
    BY <2>1, ReturnMoves DEF Goes, TypeInv
  <2>. QED  BY <2>2 DEF Fetched, SectionPlaces, CopyPlaces
<1>6. ASSUME NEW place \in {"unlink", "link", "audit"}, GoTo(i, place, f),
             pc[i] \in SectionPlaces, Present(c.doc)'
      PROVE  Fetched(i)'
  <2>1. pc'[i] = place /\ call'[i] = c
    BY <1>1, <1>6, SectionMoves DEF Goes, SectionPlaces
  <2>2. Present(c.from)' /\ Present(c.to)'
    BY <1>2, <1>3, <1>6, <2>1 DEF Present
  <2>. QED  BY <1>6, <2>1, <2>2 DEF Fetched, SectionPlaces, CopyPlaces, Present
<1>7. ASSUME NEW place \in {"unlinked", "linked", "audited"}, NEW d \in Docs,
             Fetch(i, place, f, d), pc[i] \in SectionPlaces \ {"section"}, UNCHANGED docVars,
             Present(d), place = "unlinked" => d = c.from, place = "linked" => d = c.to,
             place = "audited" => d = c.doc
      PROVE  Fetched(i)'
  <2>0. place \in Places
    BY <1>1, <1>7 DEF SectionPlaces
  <2>1. pc'[i] = place /\ call'[i] = c /\ frame'[i].copy = doc[d]
    <3>1. Fetch(i, place, frame[i], d)
      BY <1>7
    <3>2. /\ Goes(i, place, call[i], [frame[i] EXCEPT !.copy = doc[d]])
          /\ frame'[i].copy = doc[d]
      BY <2>0, <3>1, Fetches
    <3>. QED  BY <3>2 DEF Goes
  <2>2. doc' = doc /\ doc[d].revision # "none" /\ Present(doc[d].parent)
    BY <1>3, <1>7 DEF docVars
  <2>. QED  BY <1>2, <1>7, <2>1, <2>2 DEF Fetched, AsSeen, SectionPlaces, CopyPlaces, Present
<1>8. CASE UpsertSection(i)
  <2>1. pc[i] = "section" /\ Replace(c.doc, f.copy) /\ GoTo(i, "unlink", f)
    BY <1>8 DEF UpsertSection
  <2>2. f.copy \in Documents /\ f.copy.revision # "none" /\ c.doc \in Docs
    BY <1>1, <1>2, <2>1 DEF CallTyped, Fetched, SectionPlaces, CopyPlaces
  <2>3. doc'[c.doc] = f.copy
    BY <2>1, <2>2, DocumentReplaced DEF TypeInv, CallersTyped
  <2>4. Present(c.doc)'
    <3>1. call'[i] = c
      BY <2>1, SectionMoves DEF Goes, Places, SectionPlaces
    <3>2. f.copy # Absent
      BY <2>2 DEF Absent
    <3>. QED  BY <2>3, <3>1, <3>2 DEF Present
  <2>. QED  BY <1>6, <2>1, <2>4 DEF SectionPlaces
<1>9. CASE ReadPrevious(i)
  <2>1. /\ pc[i] = "unlink" /\ UNCHANGED docVars
        /\ IF Moves(c) THEN Fetch(i, "unlinked", f, c.from) ELSE GoTo(i, "link", f)
    BY <1>9 DEF ReadPrevious
  <2>2. CASE Fetch(i, "unlinked", f, c.from)
    BY <1>2, <1>7, <2>1, <2>2 DEF SectionPlaces
  <2>3. CASE GoTo(i, "link", f)
    <3>1. call'[i] = c
      BY <2>3, SectionMoves DEF Goes, Places, SectionPlaces
    <3>2. Present(c.doc)'
      BY <1>2, <2>1, <3>1 DEF SectionPlaces, Present, docVars
    <3>. QED  BY <1>6, <2>1, <2>3, <3>2 DEF SectionPlaces
  <2>. QED  BY <2>1, <2>2, <2>3
<1>10. CASE Unlink(i) \/ Link(i)
  <2>1. PICK place \in {"link", "audit"} : GoTo(i, place, f)
    BY <1>10 DEF Unlink, Link
  <2>2. pc[i] \in SectionPlaces \ {"section"}
    BY <1>10 DEF Unlink, Link, SectionPlaces
  <2>3. call'[i] = c
    BY <2>1, SectionMoves DEF Goes, Places, SectionPlaces
  <2>4. Present(c.doc)'
    BY <1>2, <1>3, <2>2, <2>3 DEF Present
  <2>. QED  BY <1>6, <2>1, <2>2, <2>4
<1>11. CASE ReadParent(i)
  <2>1. pc[i] = "link" /\ UNCHANGED docVars /\ Fetch(i, "linked", f, c.to)
    BY <1>11 DEF ReadParent
  <2>. QED  BY <1>2, <1>7, <2>1 DEF SectionPlaces
<1>12. CASE ReadWritten(i)
  <2>1. pc[i] = "audit" /\ UNCHANGED docVars /\ Fetch(i, "audited", f, c.doc)
    BY <1>12 DEF ReadWritten
  <2>. QED  BY <1>2, <1>7, <2>1 DEF SectionPlaces
<1>. QED  BY <1>4, <1>5, <1>8, <1>9, <1>10, <1>11, <1>12 DEF DocumentCall

LEMMA DocumentStep == TypeInv /\ DocumentInv /\ [Next]_vars => DocumentInv'
<1>. SUFFICES ASSUME TypeInv, DocumentInv, [Next]_vars PROVE DocumentInv'
  OBVIOUS
<1>1. ASSUME NEW j \in Callers PROVE Fetched(j)'
  <2>1. CASE WorkCall(j)
    BY <2>1, WorkCallGoes DEF Goes, Fetched, WorkPlaces, SectionPlaces, CopyPlaces
  <2>. QED  BY <2>1, WhoActs, FetchedStays, FetchedActs
<1>. QED  BY <1>1, SeenStays DEF DocumentInv

LEMMA DocumentInit == Init => DocumentInv
<1>. SUFFICES ASSUME Init PROVE DocumentInv
  OBVIOUS
<1>1. \A i \in Callers : Fetched(i)
  BY DEF Init, WorkInit, Fetched, SectionPlaces, CopyPlaces
<1>2. Absent.revision = "none" /\ Absent.parent = Project
  BY DEF Absent
<1>. DEFINE new == [Absent EXCEPT !.revision = "new"]
<1>3. new.revision = "new" /\ new.parent = Project /\ new # Absent
  BY DEF Absent
<1>4. \A d \in Docs : doc[d] = Absent \/ (d = Project /\ doc[d] = new)
  BY DEF Init
<1>. HIDE DEF new
<1>. QED  BY <1>1, <1>3, <1>4 DEF DocumentInv, Present

LEMMA DocumentsHold == Spec => [](TypeInv /\ DocumentInv)
<1>1. Init => TypeInv /\ DocumentInv
  BY TypeInit, DocumentInit
<1>2. TypeInv /\ DocumentInv /\ [Next]_vars => (TypeInv /\ DocumentInv)'
  BY TypeStep, DocumentStep
<1>. QED  BY <1>1, <1>2, PTL DEF Spec

\* The content of a document gives way only to a call that named it as the
\* content it expects, or that began before it was stored: an old expected
\* revision alone overwrites nothing.
THEOREM DocumentsOverlap == Spec => OverwrittenOnlyByOverlap
<1>1. ASSUME TypeInv, DocumentInv, [Next]_vars, NEW d \in Docs,
             Present(d), doc'[d].revision # doc[d].revision
      PROVE  \E i \in Callers :
               /\ pc'[i] # pc[i]
               /\ \/ frame[i].since < setAt[d]
                  \/ call[i].op \in {"main", "section"} /\ call[i].expected = doc[d].revision
  <2>1. PICK i \in Callers, e \in Docs :
          \E new : Replace(e, new) /\ Sound(e, new) /\ GoesBy(i, e, new)
    BY <1>1, Replaces
  <2>2. PICK new : Replace(e, new) /\ Sound(e, new) /\ GoesBy(i, e, new)
    BY <2>1
  <2>3. /\ doc'[e] = new /\ \A x \in Docs : x # e => doc'[x] = doc[x]
    BY <1>1, <2>2, DocumentReplaced DEF Sound, TypeInv, CallersTyped
  <2>4. e = d /\ new.revision # doc[d].revision
    BY <1>1, <2>3
  <2>5. doc[d].revision # "none"
    BY <1>1, Exists
  <2>. QED  BY <2>2, <2>4, <2>5 DEF GoesBy
<1>2. TypeInv /\ DocumentInv /\ [Next]_vars =>
        [\A d \in Docs : Present(d) /\ doc'[d].revision # doc[d].revision =>
          \E i \in Callers :
             /\ pc'[i] # pc[i]
             /\ \/ frame[i].since < setAt[d]
                \/ call[i].op \in {"main", "section"} /\ call[i].expected = doc[d].revision]_vars
  BY <1>1
<1>. QED  BY <1>2, DocumentsHold, PTL DEF Spec, OverwrittenOnlyByOverlap

-----------------------------------------------------------------------------
(***************************************************************************)
(* Proofs of part 4.  As long as calls follow one another, whoever takes a *)
(* step is the only caller that is not idle.                               *)
(***************************************************************************)

ActsAlone(i) == solo /\ \A j \in Callers : j # i => pc[j] = "idle" /\ pc'[j] = "idle"

LEMMA BeginsWhenAlone ==
    ASSUME NEW i \in Callers,
           \/ BeginWork(i) \/ BeginReconcile(i) \/ BeginBootstrap(i) \/ BeginMain(i)
           \/ BeginSection(i) \/ BeginProposal(i)
    PROVE  pc[i] = "idle" /\ solo' = (solo /\ \A j \in Callers : pc[j] = "idle")
<1>1. \E c, place, f : Begin(i, c, place, f)
  <2>1. CASE BeginFinish(i)
    BY <2>1 DEF BeginFinish
  <2>2. CASE BeginCapture(i)
    BY <2>2 DEF BeginCapture
  <2>3. CASE BeginPublish(i)
    BY <2>3 DEF BeginPublish
  <2>4. CASE BeginReconcile(i)
    BY <2>4 DEF BeginReconcile
  <2>5. CASE BeginBootstrap(i)
    BY <2>5 DEF BeginBootstrap
  <2>6. CASE BeginMain(i)
    BY <2>6 DEF BeginMain
  <2>7. CASE BeginSection(i)
    BY <2>7 DEF BeginSection
  <2>8. CASE BeginProposal(i)
    BY <2>8 DEF BeginProposal
  <2>. QED  BY <2>1, <2>2, <2>3, <2>4, <2>5, <2>6, <2>7, <2>8 DEF BeginWork
<1>. QED  BY <1>1 DEF Begin

LEMMA OneActs ==
    ASSUME TypeInv, SoloInv, NEW i \in Callers, WorkCall(i) \/ DocumentCall(i), solo'
    PROVE  ActsAlone(i) /\ ~Fail(i)
<1>1. solo /\ \A j \in Callers : j # i => pc[j] = "idle"
  <2>1. CASE \/ BeginWork(i) \/ BeginReconcile(i) \/ BeginBootstrap(i) \/ BeginMain(i)
             \/ BeginSection(i) \/ BeginProposal(i)
    BY <2>1, BeginsWhenAlone
  <2>2. CASE \/ ReadExisting(i) \/ WriteCandidate(i) \/ Evaluate(i) \/ StoreVerdict(i)
             \/ VerdictRefused(i) \/ StoreResult(i) \/ Enqueue(i) \/ Rewrite(i)
    <3>1. pc[i] # "idle" /\ solo' = solo
      BY <2>2, ReadExistingMoves, WriteCandidateMoves, EvaluateMoves, StoreVerdictMoves,
         StoreResultMoves, RewriteMoves
         DEF VerdictRefused, Enqueue
    <3>. QED  BY <3>1 DEF SoloInv, Alone
  <2>3. CASE Fail(i)
    BY <2>3 DEF Fail
  <2>4. CASE \/ Bootstrap(i) \/ UpdateMain(i) \/ NoteAudit(i) \/ Propose(i)
             \/ UpsertSection(i) \/ Unlink(i) \/ Link(i)
    <3>1. pc[i] # "idle" /\ solo' = solo
      BY <2>4 DEF Bootstrap, UpdateMain, NoteAudit, Propose, UpsertSection, Unlink, Link, GoTo
    <3>. QED  BY <3>1 DEF SoloInv, Alone
  <2>5. CASE ReadPrevious(i) \/ ReadParent(i) \/ ReadWritten(i)
    <3>1. pc[i] # "idle" /\ solo' = solo
      BY <2>5 DEF ReadPrevious, ReadParent, ReadWritten, Fetch, GoTo
    <3>. QED  BY <3>1 DEF SoloInv, Alone
  <2>. QED  BY <2>1, <2>2, <2>3, <2>4, <2>5 DEF WorkCall, DocumentCall
<1>2. \A j \in Callers : j # i => pc'[j] = pc[j]
  BY WorkCallGoes, DocumentCallGoes DEF Goes
<1>3. ~Fail(i)
  BY DEF Fail
<1>. QED  BY <1>1, <1>2, <1>3 DEF ActsAlone

\* The places a step starts from.
LEMMA WorkCallStarts ==
    ASSUME NEW i \in Callers, WorkCall(i), ~Fail(i)
    PROVE  pc[i] \in {"idle"} \cup WorkPlaces
<1>1. CASE BeginWork(i) \/ BeginReconcile(i)
  BY <1>1, BeginsWhenAlone
<1>2. CASE \/ ReadExisting(i) \/ WriteCandidate(i) \/ Evaluate(i) \/ StoreVerdict(i)
           \/ VerdictRefused(i) \/ StoreResult(i) \/ Enqueue(i) \/ Rewrite(i)
  BY <1>2 DEF ReadExisting, WriteCandidate, Evaluate, StoreVerdict, VerdictRefused, StoreResult,
              Enqueue, Rewrite, WorkPlaces
<1>. QED  BY <1>1, <1>2 DEF WorkCall

LEMMA DocumentCallStarts ==
    ASSUME NEW i \in Callers, DocumentCall(i)
    PROVE  pc[i] # "enqueue"
<1>1. CASE BeginBootstrap(i) \/ BeginMain(i) \/ BeginSection(i) \/ BeginProposal(i)
  BY <1>1, BeginsWhenAlone
<1>2. CASE \/ Bootstrap(i) \/ UpdateMain(i) \/ NoteAudit(i) \/ Propose(i) \/ UpsertSection(i)
           \/ Unlink(i) \/ Link(i) \/ ReadPrevious(i) \/ ReadParent(i) \/ ReadWritten(i)
  BY <1>2 DEF Bootstrap, UpdateMain, NoteAudit, Propose, UpsertSection, Unlink, Link,
              ReadPrevious, ReadParent, ReadWritten
<1>. QED  BY <1>1, <1>2 DEF DocumentCall

\* The packets.
LEMMA AllQueued ==
    ASSUME SoloInv, NEW i \in Callers, ActsAlone(i), pc[i] # "enqueue"
    PROVE  /\ \A w \in Works : work[w].hash # NoHash => <<w, work[w].hash>> \in queued
           /\ \A a \in artifacts : a \in queued
           /\ \A c \in Checkpoints : checkpoints[c] # NoCall =>
                 \E w \in Works : <<w, c>> \in queued
<1>1. \A k : ~Enqueues(k)
  BY DEF Enqueues, ActsAlone
<1>. QED  BY <1>1 DEF SoloInv, ActsAlone, PacketsInv

LEMMA WorkCallPackets ==
    ASSUME TypeInv, SoloInv, NEW i \in Callers, WorkCall(i), solo'
    PROVE  PacketsInv'
<1>1. ActsAlone(i) /\ ~Fail(i)
  BY OneActs
<1>2. CASE Enqueue(i)
  <2>. DEFINE k == <<call[i].work, call[i].seed>>
  <2>1. queued' = queued \cup {k} /\ UNCHANGED <<work, artifacts, checkpoints>>
    BY <1>2 DEF Enqueue
  <2>2. \A x : Enqueues(x) => x = k
    BY <1>1 DEF Enqueues, ActsAlone
  <2>. HIDE DEF k
  <2>3. \A x : x \in queued \/ Enqueues(x) => x \in queued'
    BY <2>1, <2>2
  <2>. QED  BY <1>1, <2>1, <2>3 DEF SoloInv, ActsAlone, PacketsInv
<1>3. CASE StoreResult(i)
  <2>. DEFINE k == <<call[i].work, call[i].seed>>
  <2>1. pc[i] = "persist" /\ pc'[i] = "enqueue" /\ call'[i] = call[i] /\ call[i].work \in Works
    BY <1>3, StoreResultMoves DEF Goes, Results
  <2>3. queued' = queued
        /\ artifacts' = IF call[i].op # "publish" THEN artifacts ELSE artifacts \cup {k}
    BY <1>3 DEF StoreResult
  <2>. HIDE DEF k
  <2>4. \A w \in Works : work'[w].hash # NoHash =>
          <<w, work'[w].hash>> \in queued' \/ <<w, work'[w].hash>> = k
    <3>. SUFFICES ASSUME NEW w \in Works, work'[w].hash # NoHash
                  PROVE  <<w, work'[w].hash>> \in queued' \/ <<w, work'[w].hash>> = k
      OBVIOUS
    <3>. DEFINE new == [status |-> call[i].outcome, hash |-> call[i].seed,
                        listed |-> frame[i].listed]
    <3>1. new.hash = call[i].seed
      OBVIOUS
    <3>2. work'[w] = IF call[i].op = "finish" /\ w = call[i].work THEN new ELSE work[w]
      BY <1>3, ResultWritten
    <3>. HIDE DEF new
    <3>3. CASE call[i].op = "finish" /\ w = call[i].work
      BY <3>1, <3>2, <3>3 DEF k
    <3>4. CASE ~(call[i].op = "finish" /\ w = call[i].work)
      BY <1>1, <2>1, <2>3, <3>2, <3>4, AllQueued
    <3>. QED  BY <3>3, <3>4
  <2>5. \A a \in artifacts' : a \in queued' \/ a = k
    BY <1>1, <2>1, <2>3, AllQueued
  <2>6. \A c \in Checkpoints : checkpoints'[c] # NoCall =>
          \E w \in Works : <<w, c>> \in queued' \/ <<w, c>> = k
    <3>. SUFFICES ASSUME NEW c \in Checkpoints, checkpoints'[c] # NoCall
                  PROVE  \E w \in Works : <<w, c>> \in queued' \/ <<w, c>> = k
      OBVIOUS
    <3>2. checkpoints'[c] = IF call[i].op = "capture" /\ c = call[i].seed
                            THEN frame[i].listed ELSE checkpoints[c]
      BY <1>3, ResultWritten
    <3>3. CASE c = call[i].seed
      BY <2>1, <3>3 DEF k
    <3>4. CASE c # call[i].seed
      BY <1>1, <2>1, <2>3, <3>2, <3>4, AllQueued
    <3>. QED  BY <3>3, <3>4
  <2>7. \A x : x = k => \E j \in Callers : pc'[j] = "enqueue"
                                            /\ <<call'[j].work, call'[j].seed>> = x
    BY <2>1 DEF k
  <2>. QED  BY <2>4, <2>5, <2>6, <2>7 DEF PacketsInv, Enqueues
<1>4. CASE \/ BeginWork(i) \/ BeginReconcile(i) \/ ReadExisting(i) \/ Evaluate(i)
           \/ VerdictRefused(i) \/ WriteCandidate(i) \/ Rewrite(i) \/ StoreVerdict(i)
  <2>1. UNCHANGED <<work, artifacts, checkpoints, queued>>
    <3>1. CASE BeginWork(i) \/ BeginReconcile(i) \/ ReadExisting(i) \/ Evaluate(i)
               \/ VerdictRefused(i)
      BY <3>1 DEF BeginWork, BeginFinish, BeginCapture, BeginPublish, BeginReconcile,
                  ReadExisting, Evaluate, VerdictRefused, workVars
    <3>2. CASE WriteCandidate(i) \/ Rewrite(i) \/ StoreVerdict(i)
      BY <3>2 DEF WriteCandidate, Rewrite, StoreVerdict
    <3>. QED  BY <1>4, <3>1, <3>2
  <2>2. pc[i] # "enqueue"
    <3>1. CASE BeginWork(i) \/ BeginReconcile(i)
      BY <3>1, BeginsWhenAlone
    <3>. QED  BY <1>4, <3>1 DEF ReadExisting, Evaluate, VerdictRefused, WriteCandidate, Rewrite,
                                StoreVerdict
  <2>. QED  BY <1>1, <2>1, <2>2, AllQueued DEF PacketsInv
<1>. QED  BY <1>1, <1>2, <1>3, <1>4 DEF WorkCall

LEMMA DocumentCallPackets ==
    ASSUME TypeInv, SoloInv, NEW i \in Callers, DocumentCall(i), solo'
    PROVE  PacketsInv'
<1>1. UNCHANGED <<work, artifacts, checkpoints, queued>>
  BY DocumentCallKeepsWork DEF workVars
<1>2. ActsAlone(i) /\ pc[i] # "enqueue"
  BY OneActs, DocumentCallStarts
<1>. QED  BY <1>1, <1>2, AllQueued DEF PacketsInv

-----------------------------------------------------------------------------
\* The links.
LEMMA LinksOfOne ==
    ASSUME SoloInv, NEW i \in Callers, ActsAlone(i)
    PROVE  /\ \A s \in Sections : (pc[i] \in Relinking => call[i].doc # s) => Linked(s)
           /\ \A p \in Proposals : proposed[p] <= 1
           /\ Progress(i)
<1>1. \A j \in Callers : j # i => pc[j] \notin Relinking
  BY DEF ActsAlone, Relinking
<1>. QED  BY <1>1 DEF SoloInv, ActsAlone, LinksInv

LEMMA LinksFromOne ==
    ASSUME NEW i \in Callers, ActsAlone(i), Progress(i)',
           \A p \in Proposals : proposed'[p] <= 1,
           \A s \in Sections : (pc'[i] \in Relinking => call'[i].doc # s) => Linked(s)'
    PROVE  LinksInv'
<1>1. \A j \in Callers : j # i => Progress(j)'
  BY DEF ActsAlone, Progress, Relinking
<1>2. (\A p \in Proposals : proposed[p] <= 1)' /\ \A j \in Callers : Progress(j)'
  BY <1>1
<1>. QED  BY <1>2 DEF LinksInv

\* A document is replaced by one that differs in nothing the links of s depend on.
LEMMA LinkedStays ==
    ASSUME TypeInv, NEW s \in Sections, Linked(s), NEW d \in Docs, NEW new \in Documents,
           Replace(d, new), s \in new.links <=> s \in doc[d].links,
           s = d => Present(d) /\ new # Absent /\ new.parent = doc[d].parent
    PROVE  Linked(s)'
<1>1. s \in Docs /\ rev \in Nat /\ RecordsTyped
  BY DEF Docs, TypeInv, CallersTyped
<1>2. doc'[d] = new /\ \A e \in Docs : e # d => doc'[e] = doc[e]
  BY <1>1, DocumentReplaced
<1>3. (Present(s)' <=> Present(s)) /\ doc'[s].parent = doc[s].parent
  BY <1>1, <1>2 DEF Present
<1>4. \A e \in Docs : s \in doc'[e].links <=> s \in doc[e].links
  BY <1>2
<1>5. \A e \in Docs : s \in doc[e].links <=> Present(s) /\ doc[s].parent = e
  BY DEF Linked
<1>6. \A e \in Docs : s \in doc'[e].links <=> Present(s)' /\ doc'[s].parent = e
  BY <1>3, <1>4, <1>5
<1>. QED  BY <1>6 DEF Linked, Present

LEMMA WorkCallLinks ==
    ASSUME TypeInv, SoloInv, NEW i \in Callers, WorkCall(i), UNCHANGED docVars, solo'
    PROVE  LinksInv'
<1>1. ActsAlone(i) /\ ~Fail(i)
  BY OneActs
<1>2. pc[i] \in {"idle"} \cup WorkPlaces
  BY <1>1, WorkCallStarts
<1>3. pc'[i] \in {"idle"} \cup WorkPlaces
  BY WorkCallGoes DEF Goes
<1>4. \A s \in Sections : Linked(s)
  BY <1>1, <1>2, LinksOfOne DEF Relinking, WorkPlaces
<1>5. \A s \in Sections : Linked(s)'
  BY <1>4 DEF Linked, Present, docVars
<1>6. Progress(i)'
  BY <1>3 DEF Progress, Relinking, WorkPlaces
<1>7. \A p \in Proposals : proposed'[p] <= 1
  BY <1>1, LinksOfOne DEF docVars
<1>. QED  BY <1>1, <1>5, <1>6, <1>7, LinksFromOne

LEMMA BeginDocumentLinks ==
    ASSUME TypeInv, SoloInv, NEW i \in Callers, solo',
           BeginBootstrap(i) \/ BeginMain(i) \/ BeginSection(i) \/ BeginProposal(i)
    PROVE  LinksInv'
<1>1. ActsAlone(i) /\ pc[i] = "idle"
  BY OneActs, BeginsWhenAlone DEF DocumentCall
<1>2. UNCHANGED docVars
  BY DEF BeginBootstrap, BeginMain, BeginSection, BeginProposal
<1>3. \A s \in Sections : Linked(s)
  BY <1>1, LinksOfOne DEF Relinking
<1>4. \A s \in Sections : Linked(s)'
  BY <1>2, <1>3 DEF Linked, Present, docVars
<1>5. \A p \in Proposals : proposed'[p] <= 1
  BY <1>1, <1>2, LinksOfOne DEF docVars
<1>6. rev \in Nat /\ Project \in Docs /\ \A s \in Sections : s \in Docs
  BY DEF TypeInv, CallersTyped, Docs
<1>7. ASSUME NEW copy \in Documents
      PROVE  LET f == [NoFrame EXCEPT !.copy = copy] IN [f EXCEPT !.since = rev].copy = copy
  <2>. DEFINE f == [NoFrame EXCEPT !.copy = copy]
  <2>1. f \in Frames /\ f.copy = copy
    BY NoFrameTyped, FrameCopies DEF Copies
  <2>. HIDE DEF f
  <2>2. [f EXCEPT !.since = rev].copy = copy
    BY <1>6, <2>1, FrameBegins
  <2>. QED  BY <2>2 DEF f
<1>8. Progress(i)'
  <2>1. CASE BeginBootstrap(i)
    <3>1. pc'[i] = "bootstrap" /\ ~Present(Project)
      BY <2>1, BeginBootstrapMoves DEF Begins, Goes
    <3>. QED  BY <1>2, <3>1 DEF Progress, Relinking, Present, docVars
  <2>2. CASE BeginMain(i)
    <3>1. PICK v \in Versions :
            LET copy == [doc[Project] EXCEPT !.revision = v]
            IN  copy \in Documents
                /\ \E c : Begins(i, "main", c, [NoFrame EXCEPT !.copy = copy])
      BY <2>2, BeginMainMoves
    <3>. DEFINE copy == [doc[Project] EXCEPT !.revision = v]
                f == [NoFrame EXCEPT !.copy = copy]
    <3>2. copy.links = doc[Project].links
      BY <1>6 DEF TypeInv, RecordsTyped, Documents
    <3>3. copy \in Documents /\ \E c : Begins(i, "main", c, f)
      BY <3>1
    <3>. HIDE DEF copy
    <3>4. [f EXCEPT !.since = rev].copy = copy
      BY <1>7, <3>3
    <3>. HIDE DEF f
    <3>5. pc'[i] = "main" /\ frame'[i].copy = copy
      BY <3>3, <3>4 DEF Begins, Goes
    <3>. QED  BY <1>2, <3>2, <3>5 DEF Progress, Relinking, docVars
  <2>3. CASE BeginSection(i)
    <3>1. PICK d \in Sections, p \in Docs, v \in Versions, expected \in Versions \cup {"none"} :
            LET copy == [revision |-> v, parent |-> p, links |-> doc[d].links]
                from == IF Present(d) THEN doc[d].parent ELSE p
            IN  /\ copy \in Documents
                /\ Begins(i, "section",
                          [op |-> "section", expected |-> expected, doc |-> d,
                           from |-> from, to |-> p],
                          [NoFrame EXCEPT !.copy = copy])
      BY <2>3, BeginSectionMoves
    <3>. DEFINE copy == [revision |-> v, parent |-> p, links |-> doc[d].links]
                from == IF Present(d) THEN doc[d].parent ELSE p
                f == [NoFrame EXCEPT !.copy = copy]
                c == [op |-> "section", expected |-> expected, doc |-> d, from |-> from,
                      to |-> p]
    <3>2. copy.links = doc[d].links /\ copy.parent = p
      OBVIOUS
    <3>3. copy \in Documents /\ Begins(i, "section", c, f) /\ c.doc = d /\ c.from = from
          /\ c.to = p
      BY <3>1
    <3>4. from = IF Present(d) THEN doc[d].parent ELSE p
      OBVIOUS
    <3>. HIDE DEF copy, from
    <3>5. [f EXCEPT !.since = rev].copy = copy
      BY <1>7, <3>3
    <3>. HIDE DEF f, c
    <3>6. pc'[i] = "section" /\ call'[i] = c /\ frame'[i].copy = copy
      BY <3>3, <3>5 DEF Begins, Goes
    <3>. QED  BY <1>2, <3>2, <3>3, <3>4, <3>6 DEF Progress, Relinking, Present, docVars
  <2>4. CASE BeginProposal(i)
    <3>1. PICK p \in Proposals :
            /\ proposed[p] = 0
            /\ Begins(i, "propose", [op |-> "propose", proposal |-> p], NoFrame)
      BY <2>4, BeginProposalMoves
    <3>. DEFINE c == [op |-> "propose", proposal |-> p]
    <3>2. proposed[p] = 0 /\ Begins(i, "propose", c, NoFrame) /\ c.proposal = p
      BY <3>1
    <3>. HIDE DEF c
    <3>3. pc'[i] = "propose" /\ call'[i] = c
      BY <3>2 DEF Begins, Goes
    <3>. QED  BY <1>2, <3>2, <3>3 DEF Progress, Relinking, docVars
  <2>. QED  BY <2>1, <2>2, <2>3, <2>4
<1>. QED  BY <1>1, <1>4, <1>5, <1>8, LinksFromOne

\* The steps that read: the documents stay, and the copy is the document.
LEMMA ReadsLinks ==
    ASSUME TypeInv, DocumentInv, SoloInv, NEW i \in Callers, solo',
           ReadPrevious(i) \/ ReadParent(i) \/ ReadWritten(i)
    PROVE  LinksInv'
<1>. DEFINE c == call[i]
<1>1. ActsAlone(i)
  BY OneActs DEF DocumentCall
<1>2. UNCHANGED docVars
  BY DEF ReadPrevious, ReadParent, ReadWritten
<1>3. /\ \A s \in Sections : (pc[i] \in Relinking => c.doc # s) => Linked(s)
      /\ \A p \in Proposals : proposed'[p] <= 1
      /\ Progress(i)
  BY <1>1, <1>2, LinksOfOne DEF docVars
<1>4. pc[i] \in SectionPlaces => c.from \in Docs /\ c.to \in Docs /\ c.doc \in Docs
  BY DEF TypeInv, CallTyped, Docs
<1>5. ASSUME NEW s \in Sections, Linked(s)
      PROVE  Linked(s)'
  BY <1>2, <1>5 DEF Linked, Present, docVars
<1>6. CASE ReadPrevious(i)
  <2>1. pc[i] = "unlink" /\ (\/ Moves(c) /\ Fetch(i, "unlinked", frame[i], c.from)
                             \/ ~Moves(c) /\ GoTo(i, "link", frame[i]))
    BY <1>6 DEF ReadPrevious
  <2>2. doc[c.doc].parent = c.to /\ LinkedOnlyBy(c.doc, c.from)
    BY <1>3, <2>1 DEF Progress, Relinking
  <2>3. CASE Moves(c) /\ Fetch(i, "unlinked", frame[i], c.from)
    <3>1. pc'[i] = "unlinked" /\ call'[i] = c /\ frame'[i].copy = doc[c.from]
      BY <1>4, <2>1, <2>3, Fetches DEF Goes, Places, SectionPlaces
    <3>2. Progress(i)'
      BY <1>2, <2>2, <3>1 DEF Progress, Relinking, LinkedOnlyBy, docVars
    <3>3. \A s \in Sections : (pc'[i] \in Relinking => call'[i].doc # s) => Linked(s)'
      BY <1>3, <1>5, <2>1, <3>1 DEF Relinking
    <3>. QED  BY <1>1, <1>3, <3>2, <3>3, LinksFromOne
  <2>4. CASE ~Moves(c) /\ GoTo(i, "link", frame[i])
    <3>1. pc'[i] = "link" /\ call'[i] = c
      BY <2>4, SectionMoves DEF Goes, Places, SectionPlaces
    <3>2. Progress(i)'
      BY <1>2, <2>2, <2>4, <3>1 DEF Progress, Relinking, LinkedOnlyBy, Moves, docVars
    <3>3. \A s \in Sections : (pc'[i] \in Relinking => call'[i].doc # s) => Linked(s)'
      BY <1>3, <1>5, <2>1, <3>1 DEF Relinking
    <3>. QED  BY <1>1, <1>3, <3>2, <3>3, LinksFromOne
  <2>. QED  BY <2>1, <2>3, <2>4
<1>7. CASE ReadParent(i)
  <2>1. pc[i] = "link" /\ Fetch(i, "linked", frame[i], c.to)
    BY <1>7 DEF ReadParent
  <2>2. pc'[i] = "linked" /\ call'[i] = c /\ frame'[i].copy = doc[c.to]
    <3>1. c.to \in Docs /\ "linked" \in Places
      BY <1>4, <2>1 DEF Places, SectionPlaces
    <3>2. Goes(i, "linked", c, [frame[i] EXCEPT !.copy = doc[c.to]])
          /\ frame'[i].copy = doc[c.to]
      BY <2>1, <3>1, Fetches
    <3>. QED  BY <3>2 DEF Goes
  <2>3. doc[c.doc].parent = c.to /\ LinkedOnlyBy(c.doc, c.to)
    BY <1>3, <2>1 DEF Progress, Relinking
  <2>4. Progress(i)'
    BY <1>2, <2>2, <2>3 DEF Progress, Relinking, LinkedOnlyBy, docVars
  <2>5. \A s \in Sections : (pc'[i] \in Relinking => call'[i].doc # s) => Linked(s)'
    BY <1>3, <1>5, <2>1, <2>2 DEF Relinking
  <2>. QED  BY <1>1, <1>3, <2>4, <2>5, LinksFromOne
<1>8. CASE ReadWritten(i)
  <2>1. pc[i] = "audit" /\ Fetch(i, "audited", frame[i], c.doc)
    BY <1>8 DEF ReadWritten
  <2>2. pc'[i] = "audited" /\ call'[i] = c /\ frame'[i].copy = doc[c.doc]
    <3>1. c.doc \in Docs /\ "audited" \in Places
      BY <1>4, <2>1 DEF Places, SectionPlaces
    <3>2. Goes(i, "audited", c, [frame[i] EXCEPT !.copy = doc[c.doc]])
          /\ frame'[i].copy = doc[c.doc]
      BY <2>1, <3>1, Fetches
    <3>. QED  BY <3>2 DEF Goes
  <2>3. Progress(i)'
    BY <1>2, <2>2 DEF Progress, Relinking, docVars
  <2>4. \A s \in Sections : Linked(s)'
    BY <1>3, <1>5, <2>1 DEF Relinking
  <2>. QED  BY <1>1, <1>3, <2>3, <2>4, LinksFromOne
<1>. QED  BY <1>6, <1>7, <1>8

\* The steps that write a document back: into an unlinked state, and out of it.
LEMMA WritesLinks ==
    ASSUME TypeInv, DocumentInv, SoloInv, NEW i \in Callers, solo',
           UpsertSection(i) \/ Unlink(i) \/ Link(i)
    PROVE  LinksInv'
<1>. DEFINE c == call[i]
            f == frame[i]
            s == c.doc
<1>1. ActsAlone(i)
  BY OneActs DEF DocumentCall
<1>2. UNCHANGED proposed
  BY DEF UpsertSection, Unlink, Link
<1>3. /\ \A x \in Sections : (pc[i] \in Relinking => s # x) => Linked(x)
      /\ \A p \in Proposals : proposed'[p] <= 1
      /\ Progress(i)
  BY <1>1, <1>2, LinksOfOne
<1>4. pc[i] \in SectionPlaces => s \in Sections /\ c.from \in Docs /\ c.to \in Docs /\ s \in Docs
  BY DEF TypeInv, CallTyped, Docs
<1>5. /\ pc[i] \in CopyPlaces => f.copy \in Documents /\ f.copy.revision # "none"
      /\ pc[i] \in SectionPlaces \ {"section"} => Present(c.from) /\ Present(c.to) /\ Present(s)
  BY DEF TypeInv, CallTyped, DocumentInv, Fetched, SectionPlaces
<1>6. rev \in Nat /\ RecordsTyped
  BY DEF TypeInv, CallersTyped
<1>7. Absent.revision = "none"
  BY DEF Absent
<1>8. CASE UpsertSection(i)
  <2>1. pc[i] = "section" /\ Replace(s, f.copy) /\ GoTo(i, "unlink", f)
    BY <1>8 DEF UpsertSection
  <2>2. pc'[i] = "unlink" /\ call'[i] = c
    BY <2>1, SectionMoves DEF Goes, Places, SectionPlaces
  <2>3. s \in Sections /\ s \in Docs /\ f.copy \in Documents
    BY <1>4, <1>5, <2>1 DEF SectionPlaces, CopyPlaces
  <2>4. /\ f.copy.links = doc[s].links /\ f.copy.parent = c.to
        /\ c.from = IF Present(s) THEN doc[s].parent ELSE c.to
    BY <1>3, <2>1 DEF Progress
  <2>5. doc'[s] = f.copy /\ \A e \in Docs : e # s => doc'[e] = doc[e]
    BY <1>6, <2>1, <2>3, DocumentReplaced
  <2>6. \A e \in Docs : s \in doc[e].links => Present(s) /\ doc[s].parent = e
    BY <1>3, <2>1, <2>3 DEF Linked, Relinking
  <2>7. \A e \in Docs : s \in doc'[e].links => e = c.from
    BY <2>4, <2>5, <2>6
  <2>8. Progress(i)'
    BY <2>2, <2>4, <2>5, <2>7 DEF Progress, Relinking, LinkedOnlyBy
  <2>9. ASSUME NEW x \in Sections, x # s PROVE Linked(x)'
    <3>1. Linked(x)
      BY <1>3, <2>1, <2>9 DEF Relinking
    <3>. QED  BY <2>1, <2>3, <2>4, <2>9, <3>1, LinkedStays
  <2>10. \A x \in Sections : (pc'[i] \in Relinking => call'[i].doc # x) => Linked(x)'
    BY <2>2, <2>9 DEF Relinking
  <2>. QED  BY <1>1, <1>3, <2>8, <2>10, LinksFromOne
<1>9. CASE Unlink(i)
  <2>. DEFINE new == [f.copy EXCEPT !.links = @ \ {s}]
  <2>1. pc[i] = "unlinked" /\ Replace(c.from, new) /\ GoTo(i, "link", f)
    BY <1>9 DEF Unlink
  <2>2. pc'[i] = "link" /\ call'[i] = c
    BY <2>1, SectionMoves DEF Goes, Places, SectionPlaces
  <2>3. /\ s \in Sections /\ s \in Docs /\ c.from \in Docs /\ Present(c.from)
        /\ f.copy \in Documents /\ f.copy.revision # "none"
    BY <1>4, <1>5, <2>1 DEF SectionPlaces, CopyPlaces
  <2>4. f.copy = doc[c.from] /\ doc[s].parent = c.to /\ LinkedOnlyBy(s, c.from)
    BY <1>3, <2>1 DEF Progress, Relinking
  <2>5. /\ new \in Documents /\ new.links = doc[c.from].links \ {s}
        /\ new.parent = doc[c.from].parent /\ new # Absent
    <3>1. /\ new.revision = f.copy.revision /\ new.parent = f.copy.parent
          /\ new.links = f.copy.links \ {s} /\ new \in Documents
      BY <2>3, CopyLinksTyped, CopyLinks
    <3>. HIDE DEF new
    <3>. QED  BY <1>7, <2>3, <2>4, <3>1
  <2>. HIDE DEF new
  <2>6. doc'[c.from] = new /\ \A e \in Docs : e # c.from => doc'[e] = doc[e]
    BY <1>6, <2>1, <2>3, <2>5, DocumentReplaced
  <2>7. doc'[s].parent = c.to
    BY <2>3, <2>4, <2>5, <2>6
  <2>8. \A e \in Docs : s \notin doc'[e].links
    BY <2>4, <2>5, <2>6 DEF LinkedOnlyBy
  <2>9. Progress(i)'
    BY <2>2, <2>7, <2>8 DEF Progress, Relinking, LinkedOnlyBy
  <2>10. ASSUME NEW x \in Sections, x # s PROVE Linked(x)'
    <3>1. Linked(x)
      BY <1>3, <2>1, <2>10 DEF Relinking
    <3>2. x \in new.links <=> x \in doc[c.from].links
      BY <2>5, <2>10
    <3>. QED  BY <2>1, <2>3, <2>5, <3>1, <3>2, LinkedStays
  <2>11. \A x \in Sections : (pc'[i] \in Relinking => call'[i].doc # x) => Linked(x)'
    BY <2>2, <2>10 DEF Relinking
  <2>. QED  BY <1>1, <1>3, <2>9, <2>11, LinksFromOne
<1>10. CASE Link(i)
  <2>. DEFINE new == [f.copy EXCEPT !.links = @ \cup {s}]
  <2>1. pc[i] = "linked" /\ Replace(c.to, new) /\ GoTo(i, "audit", f)
    BY <1>10 DEF Link
  <2>2. pc'[i] = "audit"
    BY <2>1, SectionMoves DEF Goes, Places, SectionPlaces
  <2>3. /\ s \in Sections /\ s \in Docs /\ c.to \in Docs /\ Present(c.to) /\ Present(s)
        /\ f.copy \in Documents /\ f.copy.revision # "none"
    BY <1>4, <1>5, <2>1 DEF SectionPlaces, CopyPlaces
  <2>4. f.copy = doc[c.to] /\ doc[s].parent = c.to /\ LinkedOnlyBy(s, c.to)
    BY <1>3, <2>1 DEF Progress, Relinking
  <2>5. /\ new \in Documents /\ new.links = doc[c.to].links \cup {s}
        /\ new.parent = doc[c.to].parent /\ new # Absent
    <3>1. /\ new.revision = f.copy.revision /\ new.parent = f.copy.parent
          /\ new.links = f.copy.links \cup {s} /\ new \in Documents
      BY <2>3, CopyLinksTyped, CopyLinks
    <3>. HIDE DEF new
    <3>. QED  BY <1>7, <2>3, <2>4, <3>1
  <2>. HIDE DEF new
  <2>6. doc'[c.to] = new /\ \A e \in Docs : e # c.to => doc'[e] = doc[e]
    BY <1>6, <2>1, <2>3, <2>5, DocumentReplaced
  <2>7. doc'[s].parent = c.to /\ doc'[s] # Absent
    BY <2>3, <2>4, <2>5, <2>6 DEF Present
  <2>8. \A e \in Docs : s \in doc'[e].links <=> e = c.to
    BY <2>4, <2>5, <2>6 DEF LinkedOnlyBy
  <2>9. Linked(s)'
    <3>1. \A e \in Docs : s \in doc'[e].links <=> doc'[s] # Absent /\ doc'[s].parent = e
      BY <2>7, <2>8
    <3>2. call'[i] = c
      BY <2>1, SectionMoves DEF Goes, Places, SectionPlaces
    <3>. QED  BY <3>1, <3>2 DEF Linked, Present
  <2>10. ASSUME NEW x \in Sections, x # s PROVE Linked(x)'
    <3>1. Linked(x)
      BY <1>3, <2>1, <2>10 DEF Relinking
    <3>2. x \in new.links <=> x \in doc[c.to].links
      BY <2>5, <2>10
    <3>. QED  BY <2>1, <2>3, <2>5, <3>1, <3>2, LinkedStays
  <2>11. \A x \in Sections : Linked(x)'
    <3>1. call'[i] = c
      BY <2>1, SectionMoves DEF Goes, Places, SectionPlaces
    <3>. QED  BY <2>9, <2>10, <3>1 DEF Linked, Present
  <2>12. Progress(i)'
    BY <2>2 DEF Progress, Relinking
  <2>. QED  BY <1>1, <1>3, <2>11, <2>12, LinksFromOne
<1>. QED  BY <1>8, <1>9, <1>10

\* The last steps of the calls.
LEMMA ReturnsLinks ==
    ASSUME TypeInv, DocumentInv, SoloInv, NEW i \in Callers, solo',
           Bootstrap(i) \/ UpdateMain(i) \/ NoteAudit(i) \/ Propose(i)
    PROVE  LinksInv'
<1>. DEFINE c == call[i]
            f == frame[i]
<1>1. ActsAlone(i)
  BY OneActs DEF DocumentCall
<1>2. pc'[i] = "idle"
  <2>1. Return(i)
    BY DEF Bootstrap, UpdateMain, NoteAudit, Propose
  <2>. QED  BY <2>1, ReturnMoves DEF Goes, TypeInv
<1>3. pc[i] \in {"bootstrap", "main", "audited", "propose"}
  BY DEF Bootstrap, UpdateMain, NoteAudit, Propose
<1>4. /\ \A s \in Sections : Linked(s)
      /\ \A p \in Proposals : proposed[p] <= 1
      /\ Progress(i)
  BY <1>1, <1>3, LinksOfOne DEF Relinking
<1>5. Progress(i)'
  BY <1>2 DEF Progress, Relinking
<1>6. Project \in Docs /\ Project \notin Sections /\ CallTyped(i) /\ Fetched(i)
  BY DocumentAssumption DEF Docs, TypeInv, DocumentInv
<1>7. Absent.revision = "none" /\ Absent.links = {}
  BY DEF Absent
<1>8. ASSUME \A s \in Sections : Linked(s)', \A p \in Proposals : proposed'[p] <= 1
      PROVE  LinksInv'
  BY <1>1, <1>5, <1>8, LinksFromOne
<1>9. CASE Bootstrap(i)
  <2>. DEFINE new == [Absent EXCEPT !.revision = "new"]
  <2>1. pc[i] = "bootstrap" /\ Replace(Project, new) /\ proposed' = proposed
    BY <1>9 DEF Bootstrap
  <2>2. new \in Documents /\ new.links = {}
    BY DEF Absent, Documents, Docs
  <2>. HIDE DEF new
  <2>3. doc[Project].links = {}
    BY <1>4, <1>7, <2>1 DEF Progress, Present
  <2>4. \A s \in Sections : Linked(s)'
    BY <1>4, <1>6, <2>1, <2>2, <2>3, LinkedStays
  <2>. QED  BY <1>4, <1>8, <2>1, <2>4
<1>10. CASE UpdateMain(i)
  <2>1. pc[i] = "main" /\ Replace(Project, f.copy) /\ proposed' = proposed
    BY <1>10 DEF UpdateMain
  <2>2. f.copy \in Documents /\ f.copy.links = doc[Project].links
    BY <1>4, <1>6, <2>1 DEF CallTyped, Progress, CopyPlaces
  <2>3. \A s \in Sections : Linked(s)'
    BY <1>4, <1>6, <2>1, <2>2, LinkedStays
  <2>. QED  BY <1>4, <1>8, <2>1, <2>3
<1>11. CASE NoteAudit(i)
  <2>1. pc[i] = "audited" /\ Replace(c.doc, f.copy) /\ proposed' = proposed
    BY <1>11 DEF NoteAudit
  <2>2. /\ c.doc \in Docs /\ f.copy \in Documents /\ f.copy = doc[c.doc]
        /\ f.copy.revision # "none" /\ Present(c.doc)
    BY <1>4, <1>6, <2>1 DEF CallTyped, Progress, Fetched, CopyPlaces, SectionPlaces, Docs
  <2>3. f.copy # Absent
    BY <1>7, <2>2
  <2>4. \A s \in Sections : Linked(s)'
    BY <1>4, <2>1, <2>2, <2>3, LinkedStays
  <2>. QED  BY <1>4, <1>8, <2>1, <2>4
<1>12. CASE Propose(i)
  <2>1. /\ pc[i] = "propose" /\ doc' = doc
        /\ proposed' = [proposed EXCEPT ![c.proposal] = @ + 1]
    BY <1>12 DEF Propose
  <2>2. proposed[c.proposal] = 0 /\ proposed \in [Proposals -> Nat]
    BY <1>4, <2>1 DEF Progress, TypeInv, RecordsTyped
  <2>3. \A p \in Proposals : proposed'[p] <= 1
    BY <1>4, <2>1, <2>2
  <2>4. \A s \in Sections : Linked(s)'
    BY <1>4, <2>1 DEF Linked, Present
  <2>. QED  BY <1>8, <2>3, <2>4
<1>. QED  BY <1>9, <1>10, <1>11, <1>12

LEMMA SoloStep == TypeInv /\ DocumentInv /\ SoloInv /\ [Next]_vars => SoloInv'
<1>. SUFFICES ASSUME TypeInv, DocumentInv, SoloInv, [Next]_vars, solo'
              PROVE  (Alone /\ LinksInv /\ PacketsInv)'
  BY DEF SoloInv
<1>1. ASSUME NEW i \in Callers, ActsAlone(i) PROVE Alone'
  BY <1>1 DEF ActsAlone, Alone
<1>2. ASSUME UNCHANGED <<callVars, docVars, solo, artifacts, queued, checkpoints>>,
             \A w \in Works : work'[w].hash = work[w].hash
      PROVE  (Alone /\ LinksInv /\ PacketsInv)'
  <2>1. Alone /\ LinksInv /\ PacketsInv
    BY <1>2 DEF SoloInv
  <2>2. Alone'
    BY <1>2, <2>1 DEF Alone, callVars
  <2>3. LinksInv'
    BY <1>2, <2>1 DEF LinksInv, Linked, LinkedOnlyBy, Progress, Present, callVars, docVars
  <2>4. PacketsInv'
    BY <1>2, <2>1 DEF PacketsInv, Enqueues, callVars
  <2>. QED  BY <2>2, <2>3, <2>4
<1>3. CASE UNCHANGED vars
  BY <1>2, <1>3 DEF vars, callVars, docVars, workVars
<1>4. ASSUME NEW w \in Works, StartWork(w), UNCHANGED docVars
      PROVE  (Alone /\ LinksInv /\ PacketsInv)'
  <2>1. \A v \in Works : work'[v].hash = work[v].hash
    BY <1>4, WorkStarted
  <2>. QED  BY <1>2, <1>4, <2>1 DEF StartWork
<1>5. ASSUME NEW r \in Refs, Reassess(r), UNCHANGED docVars
      PROVE  (Alone /\ LinksInv /\ PacketsInv)'
  BY <1>2, <1>5 DEF Reassess
<1>6. ASSUME NEW i \in Callers, WorkCall(i), UNCHANGED docVars
      PROVE  (Alone /\ LinksInv /\ PacketsInv)'
  BY <1>1, <1>6, OneActs, WorkCallLinks, WorkCallPackets
<1>7. ASSUME NEW i \in Callers, DocumentCall(i)
      PROVE  (Alone /\ LinksInv /\ PacketsInv)'
  <2>1. LinksInv'
    BY <1>7, BeginDocumentLinks, ReadsLinks, WritesLinks, ReturnsLinks DEF DocumentCall
  <2>. QED  BY <1>1, <1>7, <2>1, OneActs, DocumentCallPackets
<1>. QED  BY <1>3, <1>4, <1>5, <1>6, <1>7, NextCases

LEMMA SoloInit == Init => SoloInv
<1>. SUFFICES ASSUME Init PROVE SoloInv
  OBVIOUS
<1>1. Alone
  BY DEF Init, WorkInit, Alone
<1>2. Absent.links = {} /\ [Absent EXCEPT !.revision = "new"].links = {}
  BY DEF Absent
<1>3. \A d \in Docs : doc[d].links = {}
  BY <1>2 DEF Init
<1>4. \A s \in Sections : s \in Docs /\ doc[s] = Absent
  BY DocumentAssumption DEF Init, Docs
<1>5. \A s \in Sections : Linked(s)
  BY <1>3, <1>4 DEF Linked, Present
<1>6. \A i \in Callers : Progress(i)
  BY DEF Init, WorkInit, Progress, Relinking
<1>7. LinksInv
  BY <1>5, <1>6 DEF Init, LinksInv
<1>8. PacketsInv
  BY DEF Init, WorkInit, PacketsInv
<1>. QED  BY <1>1, <1>7, <1>8 DEF SoloInv

\* As long as calls follow one another and none is cut short, between two of
\* them the sections are linked by exactly their parents, a proposal has at most
\* one packet and everything stored has its packet in the queue.
THEOREM SequentialCallsAreExact == Spec => []SequentialIsExact
<1>1. Init => TypeInv /\ DocumentInv /\ SoloInv
  BY TypeInit, DocumentInit, SoloInit
<1>2. TypeInv /\ DocumentInv /\ SoloInv /\ [Next]_vars => (TypeInv /\ DocumentInv /\ SoloInv)'
  BY TypeStep, DocumentStep, SoloStep
<1>3. SoloInv => SequentialIsExact
  <2>. SUFFICES ASSUME SoloInv, solo, \A i \in Callers : pc[i] = "idle"
                PROVE  SequentialIsExact
    BY DEF SequentialIsExact
  <2>1. \A s \in Sections : Linked(s)
    BY DEF SoloInv, LinksInv, Relinking
  <2>2. \A k : ~Enqueues(k)
    BY DEF Enqueues
  <2>3. PacketsInv /\ \A p \in Proposals : proposed[p] <= 1
    BY DEF SoloInv, LinksInv
  <2>. QED  BY <2>1, <2>2, <2>3 DEF SequentialIsExact, Linked, PacketsInv
<1>. QED  BY <1>1, <1>2, <1>3, PTL DEF Spec

\* The whole invariant, of which every result above is a part.
THEOREM DocumentsInvariant == Spec => []Inv
<1>1. Init => Inv
  BY TypeInit, MemoryInit, ListInit, CloseoutInit, DocumentInit, SoloInit DEF Inv
<1>2. Inv /\ [Next]_vars => Inv'
  BY TypeStep, MemoryStep, ListStep, CloseoutStep, DocumentStep, SoloStep DEF Inv
<1>. QED  BY <1>1, <1>2, PTL DEF Spec
=============================================================================
