------------------------------ MODULE WorkMemory ------------------------------
(***************************************************************************)
(* How work produces memory.  Callers start work items, capture context,   *)
(* publish resources, close work out and reconcile memories; each memory   *)
(* goes through the policy gates of evaluateMemory, and its verdict is     *)
(* published by compare-and-swap on the revision the gates read.  Every    *)
(* other write replaces a whole record (upsertRecord) without looking at   *)
(* the pointer.  A call is a sequence of reads and publications, between   *)
(* which other calls run and the process may die.                          *)
(*                                                                         *)
(* One Begin action stands for a call's arrival and its first reads; a     *)
(* call that is refused there, or answered from a stored result, changes   *)
(* nothing and has no action.                                              *)
(***************************************************************************)
EXTENDS Naturals, Sequences, FiniteSets

CONSTANTS
    Callers, Works,
    Refs, SourceOf, Directives,  \* evidence records, the artifact behind each,
                                 \* the verified directives among them
    Bundles,                     \* the lists of memory submissions callers send
    NewScope,                    \* the scope reconcileMemory narrows to
    Hashes, Checkpoints, BundleOf, \* result hashes; checkpoints and their updates
    Artifacts,                   \* contents published for a work item
    Outcomes,                    \* of the closeouts callers send
    NoHash, NoCall,
    Workloads                    \* bounds: which calls a behaviour has, how many,
                                 \* how many edits of others and failures

\* text: what SECRET_PATTERN and the length test say of the statement.
Submission == [kind : {"fact", "lesson", "decision", "open_question"},
               statement : STRING, scope : STRING, refs : SUBSET Refs,
               text : {"ok", "secret", "short"}]

ASSUME WorkAssumption ==
    /\ IsFiniteSet(Refs) /\ SourceOf \in [Refs -> Refs] /\ Directives \subseteq Refs
    /\ \A b \in Bundles \cup {BundleOf[c] : c \in Checkpoints} :
          \A n \in DOMAIN b : b[n] \in Submission
    /\ NoHash \notin Hashes
    /\ Outcomes \subseteq {"completed", "cancelled", "blocked"}
    /\ \A load \in Workloads : {load.calls, load.edits, load.failures} \subseteq Nat

VARIABLES
    rev,          \* number of publications: the knowledge revision
    standing,     \* ref -> is the record behind it eligible as evidence?
    work,         \* work item -> status, result hash and the memories listed in
                  \* its stored closeout
    memory,       \* id -> submission, status and whether a validation event is named
    checkpoints,  \* checkpoint -> memories listed in its stored result, or NoCall
    artifacts,    \* <<work, content>> of the published resources
    queued,       \* idempotency keys of the packets that were enqueued
    pc, call, frame, \* per caller: where it is, its input, what it has read
    workload, calls, edits, failures,
    vouched,      \* history: memories whose record is as validateAndStore wrote it
    judged,       \* history: memories that ever got a verdict
    closedAt,     \* history: work item -> revision of its latest closeout
    solo          \* history: no two calls have overlapped and none was cut short

workVars == <<standing, work, memory, checkpoints, artifacts, queued, vouched, judged, closedAt>>
callVars == <<pc, call, frame>>

\* What a call remembers: the revision it began at, the base of its verdict, the
\* submission it is at, the memory record it copied, the ids it will list.
NoFrame == [since |-> 0, base |-> 0, n |-> 1, copy |-> NoCall, verdict |-> "none",
            listed |-> {}]

Open(w) == work[w].status \in {"in_progress", "blocked"}

WorkInit ==
    /\ rev = 0
    /\ standing \in {[r \in Refs |-> s] : s \in {"eligible", "ineligible"}}
    /\ \E s \in {"absent", "in_progress"} :
          work = [w \in Works |-> [status |-> s, hash |-> NoHash, listed |-> {}]]
    /\ memory = <<>>
    /\ checkpoints = [c \in Checkpoints |-> NoCall]
    /\ artifacts = {} /\ queued = {} /\ vouched = {} /\ judged = {}
    /\ closedAt = [w \in Works |-> 0]
    /\ pc = [i \in Callers |-> "idle"]
    /\ call = [i \in Callers |-> NoCall]
    /\ frame = [i \in Callers |-> NoFrame]
    /\ workload \in Workloads
    /\ calls = 0 /\ edits = 0 /\ failures = 0
    /\ solo = TRUE

-----------------------------------------------------------------------------
(* The steps every call is made of *)

Begin(i, c, place, f) ==
    /\ pc[i] = "idle" /\ calls < workload.calls /\ c.op \in workload.ops
    /\ calls' = calls + 1
    /\ call' = [call EXCEPT ![i] = c]
    /\ frame' = [frame EXCEPT ![i] = [f EXCEPT !.since = rev]]
    /\ pc' = [pc EXCEPT ![i] = place]
    /\ solo' = (solo /\ \A j \in Callers : pc[j] = "idle")
    /\ UNCHANGED <<rev, workload, edits, failures>>

GoTo(i, place, f) ==
    /\ pc' = [pc EXCEPT ![i] = place]
    /\ frame' = [frame EXCEPT ![i] = f]
    /\ UNCHANGED <<call, workload, calls, edits, failures, solo>>

\* The call returns, or throws because of others (which only costs a stutter).
Return(i) ==
    /\ pc' = [pc EXCEPT ![i] = "idle"]
    /\ call' = [call EXCEPT ![i] = NoCall]
    /\ frame' = [frame EXCEPT ![i] = NoFrame]
    /\ UNCHANGED <<workload, calls, edits>>

\* publish() without and with an expectedParent.
PublishBlind(base) == rev' = rev + 1
Publish(base) == rev = base /\ rev' = rev + 1

-----------------------------------------------------------------------------
(* Memory policy *)

\* memoryFromSubmission: the digest that names a memory, and its first record.
MemoryId(seed, n, s) == <<seed, n, s.kind, s.statement>>
Candidate(s) == [sub |-> s, status |-> "candidate", event |-> FALSE]

With(id, m) == [x \in DOMAIN memory \cup {id} |-> IF x = id THEN m ELSE memory[x]]

Eligible(r) == standing[r] = "eligible"

\* evaluateMemory: what a memory has to pass to be accepted.
GatesWithoutSource(id, s) ==
    /\ s.kind = "open_question" \/ s.refs # {}
    /\ \A r \in s.refs : Eligible(r)
    /\ s.kind = "lesson" => Cardinality({SourceOf[r] : r \in s.refs}) >= 2
    /\ s.kind = "decision" => s.refs \cap Directives # {}
    /\ \A m \in DOMAIN memory \ {id} :
          memory[m].status = "accepted" /\ memory[m].sub.kind = s.kind
              /\ memory[m].sub.scope = s.scope => memory[m].sub.statement = s.statement
Gates(id, s) ==
    /\ GatesWithoutSource(id, s)
    /\ \A r \in s.refs : Eligible(SourceOf[r])

Verdict(id, s) ==
    IF s.text # "ok" THEN "rejected" ELSE IF Gates(id, s) THEN "accepted" ELSE "quarantined"

\* The memory a call is working on, and the submission to be judged.
Current(i) ==
    LET c == call[i] IN
    IF c.op = "reconcile" THEN [id |-> c.memory, sub |-> frame[i].copy.sub]
    ELSE [id |-> MemoryId(c.seed, frame[i].n, c.bundle[frame[i].n]),
          sub |-> c.bundle[frame[i].n]]

\* persistMemorySubmissions: a memory with a validation event is only listed.
HasVerdictIfPresent(id) == id \in DOMAIN memory
HasVerdict(id) == id \in DOMAIN memory /\ memory[id].event

Listed(f, id) == [f EXCEPT !.listed = @ \cup {id}, !.n = @ + 1, !.verdict = "none"]

ReadExisting(i) ==
    /\ pc[i] = "persist" /\ frame[i].n \in DOMAIN call[i].bundle
    /\ LET id == Current(i).id
       IN  IF HasVerdict(id) THEN GoTo(i, "persist", Listed(frame[i], id))
                             ELSE GoTo(i, "candidate", frame[i])
    /\ UNCHANGED <<rev, workVars>>

\* The candidate replaces whatever has its id by now.
WriteCandidate(i) ==
    /\ pc[i] = "candidate"
    /\ LET m == Current(i)
       IN  /\ memory' = With(m.id, Candidate(m.sub))
           /\ vouched' = vouched \ {m.id}
    /\ rev' = rev + 1
    /\ GoTo(i, "evaluate", frame[i])
    /\ UNCHANGED <<standing, work, checkpoints, artifacts, queued, judged, closedAt>>

\* validateAndStore: the pointer, then the gates on the records.
Evaluate(i) ==
    /\ pc[i] = "evaluate"
    /\ LET m == Current(i)
       IN  GoTo(i, "verdict", [frame[i] EXCEPT !.base = rev, !.verdict = Verdict(m.id, m.sub)])
    /\ UNCHANGED <<rev, workVars>>

\* Event and memory in one revision, if nobody published since.
StoreVerdict(i) ==
    /\ pc[i] = "verdict"
    /\ Publish(frame[i].base)
    /\ LET m == Current(i)
       IN  /\ memory' = With(m.id, [sub |-> m.sub, status |-> frame[i].verdict, event |-> TRUE])
           /\ vouched' = vouched \cup {m.id}
           /\ judged' = judged \cup {m.id}
           /\ IF call[i].op = "reconcile" THEN Return(i) /\ UNCHANGED <<failures, solo>>
              ELSE GoTo(i, "persist", Listed(frame[i], m.id))
    /\ UNCHANGED <<standing, work, checkpoints, artifacts, queued, closedAt>>

\* Somebody did: the call throws, and leaves the candidate.
VerdictRefused(i) ==
    /\ pc[i] = "verdict" /\ rev # frame[i].base
    /\ Return(i)
    /\ UNCHANGED <<rev, workVars, failures, solo>>

-----------------------------------------------------------------------------
(* Work items *)

StartWork(w) ==
    /\ calls < workload.calls /\ work[w].status = "absent"
    /\ work' = [work EXCEPT ![w].status = "in_progress"]
    /\ rev' = rev + 1 /\ calls' = calls + 1
    /\ UNCHANGED <<standing, memory, checkpoints, artifacts, queued, vouched, judged, closedAt,
                   callVars, workload, edits, failures, solo>>

\* A closeout with another hash is refused, one with the same hash replayed.
MayCloseAgain(w, h) == TRUE
MayClose(w, h) == work[w].hash = NoHash

BeginFinish(i) ==
    \E w \in Works, h \in Hashes, b \in Bundles, s \in Outcomes :
        /\ work[w].status # "absent" /\ MayClose(w, h)
        /\ Begin(i, [op |-> "finish", work |-> w, seed |-> h, bundle |-> b, outcome |-> s],
                 "persist", NoFrame)
        /\ UNCHANGED workVars

BeginCapture(i) ==
    \E w \in Works, c \in Checkpoints :
        /\ Open(w) /\ checkpoints[c] = NoCall
        /\ Begin(i, [op |-> "capture", work |-> w, seed |-> c, bundle |-> BundleOf[c]],
                 "persist", NoFrame)
        /\ UNCHANGED workVars

BeginPublish(i) ==
    \E w \in Works, a \in Artifacts :
        /\ Open(w) /\ <<w, a>> \notin artifacts
        /\ Begin(i, [op |-> "publish", work |-> w, seed |-> a, bundle |-> <<>>],
                 "persist", NoFrame)
        /\ UNCHANGED workVars

\* The result of the call: the work item as it was read with the closeout added,
\* the checkpoint, or the artifact record.
StoreResult(i) ==
    /\ pc[i] = "persist" /\ frame[i].n \notin DOMAIN call[i].bundle
    /\ LET c == call[i] IN
       /\ work' = IF c.op # "finish" THEN work
                  ELSE [work EXCEPT ![c.work] = [status |-> c.outcome, hash |-> c.seed,
                                                 listed |-> frame[i].listed]]
       /\ closedAt' = IF c.op # "finish" THEN closedAt ELSE [closedAt EXCEPT ![c.work] = rev + 1]
       /\ checkpoints' = IF c.op # "capture" THEN checkpoints
                         ELSE [checkpoints EXCEPT ![c.seed] = frame[i].listed]
       /\ artifacts' = IF c.op # "publish" THEN artifacts ELSE artifacts \cup {<<c.work, c.seed>>}
    /\ rev' = rev + 1
    /\ GoTo(i, "enqueue", frame[i])
    /\ UNCHANGED <<standing, memory, queued, vouched, judged>>

\* enqueueMaintenance under the key of the result.
Enqueue(i) ==
    /\ pc[i] = "enqueue"
    /\ queued' = queued \cup {<<call[i].work, call[i].seed>>}
    /\ Return(i)
    /\ UNCHANGED <<rev, standing, work, memory, checkpoints, artifacts, vouched, judged,
                   closedAt, failures, solo>>

-----------------------------------------------------------------------------
(* reconcileMemory *)

Reconciled(m, action, r) ==
    CASE action = "add_evidence" -> [m EXCEPT !.sub.refs = @ \cup {r}]
      [] action = "narrow_scope" -> [m EXCEPT !.sub.scope = NewScope]
      [] action = "propose_supersession" -> [m EXCEPT !.status = "candidate"]
      [] action = "revalidate" -> m

BeginReconcile(i) ==
    \E m \in DOMAIN memory, r \in Refs,
       action \in {"add_evidence", "narrow_scope", "propose_supersession", "revalidate"} :
        /\ Begin(i, [op |-> "reconcile", memory |-> m], "rewrite",
                 [NoFrame EXCEPT !.copy = Reconciled(memory[m], action, r)])
        /\ UNCHANGED workVars

\* The changed copy is published, with the status it was read with.
Rewrite(i) ==
    /\ pc[i] = "rewrite"
    /\ memory' = [memory EXCEPT ![call[i].memory] = frame[i].copy]
    /\ vouched' = vouched \ {call[i].memory}
    /\ rev' = rev + 1
    /\ GoTo(i, "evaluate", frame[i])
    /\ UNCHANGED <<standing, work, checkpoints, artifacts, queued, judged, closedAt>>

-----------------------------------------------------------------------------
(* The environment *)

\* A record cited as evidence is parsed, goes stale, is quarantined or verified.
Reassess(r) ==
    /\ edits < workload.edits
    /\ standing' = [standing EXCEPT ![r] = IF @ = "eligible" THEN "ineligible" ELSE "eligible"]
    /\ rev' = rev + 1 /\ edits' = edits + 1
    /\ UNCHANGED <<work, memory, checkpoints, artifacts, queued, vouched, judged, closedAt,
                   callVars, workload, calls, failures, solo>>

\* The process of a call dies, or the queue refuses its packet.
Fail(i) ==
    /\ pc[i] # "idle" /\ failures < workload.failures
    /\ failures' = failures + 1 /\ solo' = FALSE
    /\ Return(i)
    /\ UNCHANGED <<rev, workVars>>

WorkNext ==
    \/ \E w \in Works : StartWork(w)
    \/ \E r \in Refs : Reassess(r)
    \/ \E i \in Callers :
          \/ ReadExisting(i) \/ WriteCandidate(i) \/ Evaluate(i) \/ StoreVerdict(i)
          \/ VerdictRefused(i) \/ BeginFinish(i) \/ BeginCapture(i) \/ BeginPublish(i)
          \/ StoreResult(i) \/ Enqueue(i) \/ BeginReconcile(i) \/ Rewrite(i) \/ Fail(i)

-----------------------------------------------------------------------------
(* Properties *)

\* Two accepted memories of one kind and scope say the same, as far as their
\* records are what validateAndStore wrote: however many callers submit and
\* reconcile at once, the gates saw every other accepted memory.  A record that
\* reconcileMemory or a late retry has written since is not vouched for.
VouchedAgree ==
    \A a, b \in vouched :
        /\ memory[a].status = "accepted" /\ memory[b].status = "accepted"
        /\ memory[a].sub.kind = memory[b].sub.kind /\ memory[a].sub.scope = memory[b].sub.scope
        => memory[a].sub.statement = memory[b].sub.statement

\* A memory gets the verdict accepted only in a revision in which all its evidence,
\* and the artifact behind each piece of it, is eligible, a lesson has two sources
\* and a decision a directive, although the gates ran before the publication.
AcceptedOnEligible ==
    [][\A m \in vouched' \ vouched : memory'[m].status = "accepted" =>
          LET s == memory'[m].sub
              sources == {SourceOf[r] : r \in s.refs}
          IN  /\ \A r \in s.refs \cup sources : standing'[r] = "eligible"
              /\ s.kind = "lesson" => Cardinality(sources) > 1
              /\ s.kind = "decision" => s.refs \cap Directives # {}]_<<rev, workVars>>

\* What a stored closeout or checkpoint lists has been judged: a candidate left
\* behind by a call that died is judged by the retry, not passed over.
ListedWasJudged ==
    /\ \A w \in Works : work[w].listed \subseteq judged
    /\ \A c \in Checkpoints : checkpoints[c] # NoCall => checkpoints[c] \subseteq judged

\* The result of a closed work item is replaced only by a closeout that began
\* before it was stored.
CloseoutLostOnlyByOverlap ==
    [][\A w \in Works : work[w].hash # NoHash /\ work'[w] # work[w] =>
          \E i \in Callers : pc[i] = "persist" /\ pc'[i] = "enqueue"
                             /\ call[i].work = w /\ frame[i].since < closedAt[w]]_<<rev, workVars>>
=============================================================================
