-------------------------- MODULE MaintenanceHarness --------------------------
(***************************************************************************)
(* One maintainer at work on its packets: prepare() refreshes the packet   *)
(* and may have Jev widen its candidate sections, a plan is made from the  *)
(* source catalog or by the model, and applyMaintenancePlan publishes it   *)
(* on the revision it was made for.  Everyone else publishes meanwhile.    *)
(*                                                                         *)
(* A revision is the number of publications so far (the topology revision  *)
(* is a function of it); the digest of a record and of a document's text   *)
(* are version numbers, and a document has one mutable block.  Which       *)
(* blocks, targets and conflicts a packet routes follows from the records  *)
(* seen at its refresh; their number is not limited here.  Plans with a    *)
(* typed resolution are the subject of ConflictResolution.                 *)
(***************************************************************************)
EXTENDS Naturals, FiniteSets, Sequences

CONSTANTS
    Project,      \* the project record with the main document
    Sections,     \* ids of section records
    Sources,      \* ids of artifacts
    Conflicts,    \* ids of conflict records, as a packet's topics give them
    CatalogOf,    \* artifact -> the section source-<digest> in its name
    Packets,      \* packet_id -> evidence_refs, candidate_section_refs, locked
    Setups,       \* deployments: maintenance mode, Jev mode, bounds on others
    MaxSections,  \* budget.max_sections
    MaxCreated,   \* sections one catalog plan may create
    MaxOps,       \* bound on the operations of a model's plan: 1 or 2
    MaxTries,     \* proposals per lease: retry >= 2 gives up
    MaxLeases,    \* bound on leases per packet: the queue's maxAttempts
    OpenAfter,    \* failures that open the circuit to Jev
    NoPacket, None

\* CatalogOf: the digests of two artifact ids differ.
ASSUME HarnessAssumption ==
    /\ MaxTries \in Nat /\ None \notin Nat
    /\ \A s, r \in Sources : CatalogOf[s] = CatalogOf[r] => s = r

Docs == {Project} \cup Sections
Ids  == Docs \cup Sources \cup Conflicts

VARIABLES
    setup,     \* the deployment
    kb,        \* rev, records and the normalized texts on disk
    queue,     \* packet -> status, leases so far, and last_error: a verdict on the
               \* plan ("refused"), or anything else that was thrown ("fault")
    phase,     \* where the maintainer is
    job,       \* the packet it leased
    tries,     \* retry
    packet,    \* the packet as refreshed: base, docs, seen, advice
    pointer,   \* a revision pointer read and not yet used
    snap,      \* Jev's routing snapshot
    view,      \* records read and not yet used
    plan,      \* operations proposed so far
    left,      \* references the catalog plan still has to consider
    failures, circuit,  \* failures of Jev; whether retryAfter is in the future
    edits, faults,      \* publications of others; errors and deaths of the maintainer
    met        \* history: publications of others since the lease

jev    == <<snap, failures, circuit>>
reads  == <<pointer, view>>
making == <<plan, left>>
lease  == <<job, tries>>
others == <<setup, edits, faults, met>>
vars == <<kb, queue, phase, lease, packet, reads, jev, making, others>>

-----------------------------------------------------------------------------
(* Records *)

Record(status) == [status |-> status, text |-> 0, version |-> 0]

Start ==
    [rev |-> 0, texts |-> [s \in Sources |-> 0],
     records |-> [x \in Ids |->
        Record(IF x \in Sources THEN "parsed"
               ELSE IF x = Project \/ (\E p \in DOMAIN Packets : x \in Packets[p].docs)
                    THEN "active" ELSE "absent")]]

\* eligibleEvidenceRecord
Eligible(rs, x) == x \in Sources /\ rs[x].status = "parsed"

\* Documents a packet may be about: the project and its active candidates.
Targets(rs, docs) == {Project} \cup {d \in docs : rs[d].status = "active"}

-----------------------------------------------------------------------------
(* Operations of a plan *)

Op(op, target, expected, ref, evidence) ==
    [op |-> op, target |-> target, expected |-> expected, ref |-> ref,
     evidence |-> evidence]

\* Capabilities of a refreshed packet: what validateMaintenancePlan admits.
Routed(p) ==
    LET targets  == Targets(p.seen, p.docs)
        cited    == {Packets[job].evidence[i] : i \in DOMAIN Packets[job].evidence}
        eligible == {s \in cited : Eligible(p.seen, s)}
    IN  {Op("patch", d, p.seen[d].text, None, s) : d \in targets, s \in cited}
          \cup {Op("create", d, 0, None, s) : d \in Sections, s \in cited}
          \cup {o \in {Op("relate", d, p.seen[d].version, x, s) :
                         d \in targets, x \in targets \cup eligible, s \in cited} :
                  o.target # o.ref}
          \cup {Op("register", c, 0, None, s) : c \in Conflicts, s \in cited}
          \cup {Op("observe", c, p.seen[c].version, None, s) :
                  c \in {x \in Conflicts : p.seen[x].status = "open"}, s \in cited}

\* What applyMaintenancePlan refuses for good, given records rs.
Fatal(rs, ops, p) ==
    \/ \E o \in ops : ~Eligible(rs, o.evidence)
    \/ \E o \in ops : /\ o.op = "relate"
                      /\ \/ o.target \notin Targets(rs, p.docs)
                         \/ rs[o.target].version # o.expected
                         \/ ~(o.ref \in Targets(rs, p.docs) \/ Eligible(rs, o.ref))
    \/ \E o \in ops : /\ o.op = "observe"
                      /\ \/ rs[o.target].status # "open"
                         \/ rs[o.target].version # o.expected
    \/ \E o, q \in ops : {o.op, q.op} = {"patch"} /\ o # q /\ o.target = q.target

\* What it refuses with a message that the loop retries.
Outdated(rs, ops) ==
    \/ \E o \in ops : o.op = "patch" /\ rs[o.target].text # o.expected
    \/ \E o \in ops : o.op = "create" /\ rs[o.target].status # "absent"
    \/ \E o, q \in ops : {o.op, q.op} = {"create"} /\ o # q /\ o.target = q.target

Holds(rs, ops, p) == ~Fatal(rs, ops, p) /\ ~Outdated(rs, ops)

\* A conflict already registered for this packet and topic is left alone.
Effective(rs, ops) ==
    {o \in ops : o.op = "register" => rs[o.target].status = "absent"}

Touched(rs, ops) ==
    LET done == Effective(rs, ops)
    IN  {o.target : o \in done}
          \cup {x \in {Project} : \E o \in done : o.op \in {"create", "register"}}

\* The records a plan writes, over the ones it was evaluated on.
Written(rs, ops) ==
    [x \in Touched(rs, ops) |->
        LET here == {o.op : o \in {q \in Effective(rs, ops) : q.target = x}}
        IN  [status  |-> IF "create" \in here THEN "active"
                         ELSE IF "register" \in here THEN "open" ELSE rs[x].status,
             text    |-> rs[x].text + (IF here \cap {"patch", "create"} # {} THEN 1 ELSE 0),
             version |-> rs[x].version + 1]]

-----------------------------------------------------------------------------
(* The loop *)

GoTo(place) == phase' = place

ClearReads == pointer' = None /\ view' = None
ClearPlan  == plan' = {} /\ left' = <<>>

Init ==
    /\ setup \in Setups
    /\ kb = Start
    /\ queue = [p \in DOMAIN Packets |-> [status |-> "queued", leases |-> 0, error |-> "none"]]
    /\ phase = "idle" /\ job = NoPacket /\ tries = 0
    /\ packet = None /\ pointer = None /\ view = None /\ snap = None
    /\ plan = {} /\ left = <<>>
    /\ failures = 0 /\ circuit = "closed"
    /\ edits = 0 /\ faults = 0 /\ met = 0

Lease(p) ==
    /\ phase = "idle" /\ queue[p].status = "queued"
    /\ queue' = [queue EXCEPT ![p].status = "leased", ![p].leases = @ + 1]
    /\ job' = p /\ tries' = 0 /\ met' = 0 /\ GoTo("refresh")
    /\ UNCHANGED <<kb, packet, reads, jev, making, setup, edits, faults>>

\* The lease ends: with a result, a failure to be repeated, or for good.
EndLease(status, error) ==
    /\ queue' = [queue EXCEPT ![job].status =
                                IF status = "queued" /\ queue[job].leases >= MaxLeases
                                THEN "dead_letter" ELSE status,
                              ![job].error = error]
    /\ GoTo("idle") /\ job' = NoPacket /\ tries' = 0 /\ packet' = None
    /\ ClearReads /\ ClearPlan /\ snap' = None
    /\ UNCHANGED <<kb, failures, circuit, setup, edits, met>>
Settle(status, error) == EndLease(status, error) /\ UNCHANGED faults

\* The next try prepares the packet of the queue again, or keeps the last one.
RetrySamePacket == GoTo("propose") /\ packet' = packet
Retry == GoTo("refresh") /\ packet' = None

\* A refusal whose message the loop retries; one that names a record may hold
\* digits that isRetryableMaintenanceFailure takes for a status code.
TryAgain(names) ==
    IF tries + 1 < MaxTries
    THEN /\ Retry /\ tries' = tries + 1
         /\ ClearReads /\ ClearPlan /\ snap' = None
         /\ UNCHANGED <<kb, queue, job, failures, circuit, others>>
    ELSE \/ Settle("quarantined", "refused")
         \/ names /\ Settle("queued", "refused")

\* Anything else that is thrown, wherever Jev's own try does not catch it: a read
\* or a write that fails, a proposal that is late or malformed, the store's quotas,
\* 15 s without its lock, and an error after the plan was committed.  It ends the
\* lease, and whether it counts as retryable depends on its text.
Fails ==
    /\ phase \in {"refresh", "fallback", "propose", "apply", "check", "publish", "committed"}
    /\ faults < setup.faults /\ faults' = faults + 1
    /\ \E status \in {"queued", "quarantined"} : EndLease(status, "fault")

-----------------------------------------------------------------------------
(* refreshMaintenancePacket: the pointer, then the records *)

Refreshing == phase \in {"refresh", "guide", "fallback"}

ReadPointer ==
    /\ Refreshing /\ pointer = None
    /\ pointer' = kb.rev
    /\ UNCHANGED <<kb, queue, phase, lease, packet, view, jev, making, others>>

Kept(advice) == IF advice # None /\ advice.rev = pointer THEN advice ELSE None

\* Only a guided refresh has advice; the others start from the queue's packet.
Refreshed ==
    [base |-> pointer, seen |-> kb.records,
     docs   |-> IF phase = "guide" THEN packet.docs ELSE Packets[job].docs,
     advice |-> IF phase = "guide" THEN Kept(packet.advice) ELSE None]

AsksJev == setup.jev # "off" /\ circuit = "closed"

Refresh ==
    /\ Refreshing /\ pointer # None
    /\ packet' = Refreshed
    /\ GoTo(IF phase = "guide" THEN "guided"
            ELSE IF phase = "refresh" /\ AsksJev THEN "snapshot" ELSE "propose")
    /\ left' = Packets[job].evidence
    /\ ClearReads /\ snap' = None
    /\ UNCHANGED <<kb, queue, lease, failures, circuit, plan, others>>

-----------------------------------------------------------------------------
(* JevMaintenanceAdvisor.prepare *)

\* The catch block: a fallback on the packet as it was, counted or not.
Fallback(counts) ==
    /\ GoTo("fallback")
    /\ failures' = IF counts THEN failures + 1 ELSE failures
    /\ circuit' = IF counts /\ failures + 1 >= OpenAfter THEN "open" ELSE circuit
    /\ ClearReads /\ snap' = None
    /\ UNCHANGED <<kb, queue, lease, packet, making, others>>

\* buildRoutingSnapshot: the pointer, the records, the texts, the pointer.
Snapshotting == phase \in {"snapshot", "recheck"}

SnapshotPointer ==
    /\ Snapshotting /\ pointer = None
    /\ pointer' = kb.rev
    /\ UNCHANGED <<kb, queue, phase, lease, packet, view, jev, making, others>>

SnapshotRecords ==
    /\ Snapshotting /\ pointer # None /\ view = None
    /\ view' = kb.records
    /\ UNCHANGED <<kb, queue, phase, lease, packet, pointer, jev, making, others>>

Snapshot ==
    [rev |-> pointer, records |-> view,
     texts |-> [s \in {x \in Sources : view[x].status = "parsed"} |-> kb.texts[s]]]

Augment(suggested) ==
    [packet EXCEPT !.docs = @ \cup suggested,
                   !.advice = [rev |-> snap.rev, sections |-> suggested]]

\* Suggestions fill free slots of the budget.
Suggestions ==
    {S \in SUBSET (Targets(snap.records, Sections) \ {Project}) :
        Cardinality(S \cup packet.docs) <= MaxSections}

SnapshotDone ==
    /\ Snapshotting /\ view # None
    /\ IF kb.rev # pointer \/ (phase = "recheck" /\ Snapshot # snap)
       THEN Fallback(FALSE)
       ELSE /\ IF phase = "snapshot"
               THEN GoTo("judge") /\ snap' = Snapshot /\ UNCHANGED <<packet, failures>>
               ELSE /\ failures' = 0 /\ UNCHANGED snap
                    /\ IF setup.jev = "shadow"
                       THEN GoTo("propose") /\ UNCHANGED packet
                       ELSE /\ GoTo("guide")
                            /\ \E S \in Suggestions : packet' = Augment(S)
            /\ ClearReads
            /\ UNCHANGED <<kb, queue, lease, circuit, making, others>>

\* A read or the evaluator fails.
JevFails ==
    /\ phase \in {"snapshot", "judge", "recheck", "guide", "guided"}
    /\ Fallback(TRUE)

\* judgeRouting: without candidates it is not asked, and an answer counts only
\* while the pointer is still the snapshot's.
Judge ==
    /\ phase = "judge"
    /\ LET sections == Targets(snap.records, Sections) \ {Project}
       IN  IF DOMAIN snap.texts = {} \/ sections = {}
           THEN Fallback(FALSE)
           ELSE \/ kb.rev # snap.rev /\ Fallback(FALSE)
                \/ /\ kb.rev = snap.rev /\ GoTo("recheck")
                   /\ UNCHANGED <<kb, queue, lease, packet, reads, jev, making, others>>

Guided ==
    /\ phase = "guided"
    /\ IF kb.rev # packet.base \/ packet.advice = None
       THEN Fallback(FALSE)
       ELSE /\ GoTo("propose")
            /\ UNCHANGED <<kb, queue, lease, packet, reads, jev, making, others>>

CircuitCloses ==
    /\ circuit = "open" /\ circuit' = "closed"
    /\ UNCHANGED <<kb, queue, phase, lease, packet, reads, snap, failures, making, others>>

-----------------------------------------------------------------------------
(* Making a plan *)

\* sourceCatalogPlan looks at one reference after the other, on the records
\* of the moment.
CatalogNext ==
    /\ phase = "propose" /\ setup.mode = "catalog"
    /\ IF left = <<>> \/ Cardinality(plan) >= MaxCreated
       THEN GoTo("apply") /\ UNCHANGED making
       ELSE LET s == Head(left)
                d == CatalogOf[s]
                fresh == Eligible(kb.records, s) /\ kb.records[d].status = "absent"
            IN  /\ plan' = IF fresh THEN plan \cup {Op("create", d, 0, None, s)} ELSE plan
                /\ left' = Tail(left) /\ UNCHANGED phase
    /\ UNCHANGED <<kb, queue, lease, packet, reads, jev, others>>

\* The adapter relabels the model's plan and validates it: an answer outside the
\* packet, too, fails.
ModelProposes ==
    /\ phase = "propose" /\ setup.mode = "qwen" /\ ~Packets[job].locked
    /\ \E o, q \in Routed(packet) :
          \E ops \in {{}, {o}, {o, q}} : Cardinality(ops) <= MaxOps /\ plan' = ops
    /\ GoTo("apply") /\ left' = <<>>
    /\ UNCHANGED <<kb, queue, lease, packet, reads, jev, others>>

-----------------------------------------------------------------------------
(* applyMaintenancePlan *)

\* A locked packet needs a typed resolution, which the catalog never makes.
CheckBase ==
    /\ phase = "apply"
    /\ IF Packets[job].locked THEN Settle("quarantined", "refused")
       ELSE IF kb.rev # packet.base THEN TryAgain(FALSE)
       ELSE /\ GoTo("check") /\ pointer' = kb.rev
            /\ UNCHANGED <<kb, queue, lease, packet, view, jev, making, others>>

CheckRecords ==
    /\ phase = "check"
    /\ LET rs == kb.records
       IN  \/ Fatal(rs, plan, packet) /\ Settle("quarantined", "refused")
           \/ /\ Outdated(rs, plan) /\ \A o \in plan : Eligible(rs, o.evidence)
              /\ TryAgain(TRUE)
           \/ /\ Holds(rs, plan, packet)
              /\ IF Effective(rs, plan) = {}
                 THEN Settle("completed", queue[job].error)
                 ELSE /\ GoTo("publish") /\ view' = rs
                      /\ UNCHANGED <<kb, queue, lease, packet, pointer, jev, making, others>>

\* Publication replaces whole records on top of the active revision.
PublishBlind(ws) ==
    kb' = [kb EXCEPT !.rev = @ + 1,
                     !.records = [x \in Ids |-> IF x \in DOMAIN ws THEN ws[x] ELSE @[x]]]

Publish(ws) ==
    /\ kb.rev = pointer
    /\ kb' = [kb EXCEPT !.rev = @ + 1,
                        !.records = [x \in Ids |-> IF x \in DOMAIN ws THEN ws[x] ELSE @[x]]]

Commit ==
    /\ phase = "publish"
    /\ Publish(Written(view, plan))
    /\ GoTo("committed")
    /\ UNCHANGED <<queue, lease, packet, reads, jev, making, others>>

CommitRefused ==
    /\ phase = "publish" /\ kb.rev # pointer
    /\ TryAgain(FALSE)

Complete == phase = "committed" /\ Settle("completed", queue[job].error)

-----------------------------------------------------------------------------
(* Everyone else *)

\* Another publication: a document or conflict changes, an artifact goes stale,
\* a section or a conflict appears, a conflict is locked.
Successors(x) ==
    LET r == kb.records[x]
        statuses == CASE x \in Sources   -> {"stale", "parsed"}
                      [] x \in Docs      -> {"active"}
                      [] x \in Conflicts -> {"open", "resolution_pending"}
    IN  {[status |-> st, text |-> r.text + 1, version |-> r.version + 1] : st \in statuses}

PublishOther(x) ==
    /\ edits < setup.edits /\ edits' = edits + 1
    /\ met' = IF phase = "idle" THEN met ELSE met + 1
    /\ \E r \in Successors(x) :
          kb' = [kb EXCEPT !.rev = @ + 1, !.records[x] = r]
    /\ UNCHANGED <<queue, phase, lease, packet, reads, jev, making, setup, faults>>

\* A normalized text is replaced on disk before its record is published.
ReplaceText(s) ==
    /\ edits < setup.edits /\ edits' = edits + 1
    /\ kb' = [kb EXCEPT !.texts[s] = @ + 1]
    /\ UNCHANGED <<queue, phase, lease, packet, reads, jev, making, setup, faults, met>>

\* The maintainer dies; its lease lapses and a new process starts.
Crash ==
    /\ phase # "idle" /\ faults < setup.faults
    /\ faults' = faults + 1
    /\ queue' = [queue EXCEPT ![job].status =
                   IF queue[job].leases >= MaxLeases THEN "dead_letter" ELSE "queued"]
    /\ GoTo("idle") /\ job' = NoPacket /\ tries' = 0 /\ packet' = None
    /\ ClearReads /\ ClearPlan
    /\ snap' = None /\ failures' = 0 /\ circuit' = "closed"
    /\ UNCHANGED <<kb, setup, edits, met>>

Next ==
    \/ \E p \in DOMAIN Packets : Lease(p)
    \/ ReadPointer \/ Refresh
    \/ SnapshotPointer \/ SnapshotRecords \/ SnapshotDone
    \/ Judge \/ Guided \/ JevFails \/ CircuitCloses
    \/ CatalogNext \/ ModelProposes \/ Fails
    \/ CheckBase \/ CheckRecords \/ Commit \/ CommitRefused \/ Complete
    \/ \E x \in Ids : PublishOther(x)
    \/ \E s \in Sources : ReplaceText(s)
    \/ Crash

Spec == Init /\ [][Next]_vars

-----------------------------------------------------------------------------
(* Properties *)

\* A plan is committed only if every operation still holds for the records it
\* replaces, whatever was published since it was made; no other change of a
\* record is overwritten; and the documents it changes are the packet's own or
\* were suggested by advice on this very revision (applyMaintenancePlan, two
\* reads and a publication; prepare() and its fallbacks).
CommittedPlanStillHolds ==
    [][phase = "publish" /\ phase' = "committed" =>
         /\ Holds(kb.records, plan, packet)
         /\ \A x \in Ids : \/ kb'.records[x] = kb.records[x]
                           \/ kb'.records[x].version > kb.records[x].version
         /\ \A o \in plan : \/ o.op \notin {"patch", "relate"}
                            \/ o.target \in {Project} \cup Packets[job].docs
                            \/ /\ packet.advice # None
                               /\ packet.advice.rev = kb.rev
                               /\ o.target \in packet.advice.sections]_vars

\* A plan that fits the packet it was made for is refused for good only because of
\* others.  In catalog mode each try takes a publication of its own, so three
\* for a stale base; a model may have spent its tries on plans that did not fit
\* (the retry loop of runDeploymentMaintenance).  Excepted are locked packets, and
\* packets given up on with another error than a refusal (last_error).
GivenUpOnlyByInterference ==
    [][\A p \in DOMAIN Packets :
         /\ queue[p].status = "leased" /\ queue'[p].status = "quarantined"
         /\ queue'[p].error = "refused"
         /\ phase \in {"apply", "check", "publish"} /\ ~Packets[p].locked
         /\ Holds(packet.seen, plan, packet)
         => met >= IF setup.mode = "qwen" THEN 1
                   ELSE IF phase = "check" THEN tries + 1 ELSE MaxTries]_vars
=============================================================================
