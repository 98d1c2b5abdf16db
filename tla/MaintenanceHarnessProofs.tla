----------------------- MODULE MaintenanceHarnessProofs -----------------------
(***************************************************************************)
(* Proofs about MaintenanceHarness: for any packets, records, deployments  *)
(* and bounds, and any number of publications by others.                   *)
(***************************************************************************)
EXTENDS MaintenanceHarness, TLAPS

-----------------------------------------------------------------------------
(* The inductive invariant *)

Planned  == {"propose", "apply", "check", "publish"}
Prepared == {"snapshot", "recheck", "judge", "guide", "guided"} \cup Planned

KbTyped ==
    /\ kb = [rev |-> kb.rev, texts |-> kb.texts, records |-> kb.records]
    /\ kb.rev \in Nat /\ DOMAIN kb.records = Ids
    /\ \A x \in Ids : kb.records[x].version \in Nat
QueueTyped ==
    queue \in [DOMAIN Packets ->
                 [status : {"queued", "leased", "completed", "quarantined", "dead_letter"},
                  leases : Nat, error : {"none", "refused", "fault"}]]

\* Records read at a revision are the present ones while the revision is.
Fresh(base, records) ==
    base \in Nat /\ base <= kb.rev /\ (base = kb.rev => records = kb.records)

Own == packet.docs = Packets[job].docs
Advised ==
    /\ packet.advice.rev = packet.base
    /\ packet.docs = Packets[job].docs \cup packet.advice.sections

\* The packet the maintainer has, and whose documents it is about.
PacketInv ==
    phase \in Prepared =>
      /\ packet = [base |-> packet.base, seen |-> packet.seen,
                   docs |-> packet.docs, advice |-> packet.advice]
      /\ Fresh(packet.base, packet.seen)
      /\ phase \in {"snapshot", "recheck", "judge"} => Own
      /\ phase = "guide" => packet.docs = Packets[job].docs \cup packet.advice.sections
      /\ phase = "guided" /\ packet.advice # None => Advised
      /\ phase \in Planned => Own \/ (packet.advice # None /\ Advised)

\* What applyMaintenancePlan read is of the revision it will publish on.
ReadInv ==
    /\ pointer # None => phase # "idle" /\ pointer \in Nat /\ pointer <= kb.rev
    /\ phase \in {"check", "publish"} => pointer = packet.base
    /\ phase = "publish" => Fresh(pointer, view) /\ Holds(view, plan, packet)

\* The operations of a plan fit the packet; those of the catalog hold until
\* somebody publishes.
PlanInv ==
    /\ phase \notin Planned \cup {"committed"} => plan = {}
    /\ phase \in Planned =>
         \A o \in plan : o.op \in {"patch", "relate"} => o.target \in {Project} \cup packet.docs
    /\ setup.mode # "qwen" =>
         /\ \A o \in plan : \E s \in Sources : o = Op("create", CatalogOf[s], 0, None, s)
         /\ phase \in Planned /\ kb.rev = packet.base => Holds(kb.records, plan, packet)

\* Publications of others pay for the tries of a catalog, and for every revision
\* since the packet's.
Owed == IF setup.mode = "qwen" THEN 0 ELSE tries
MetInv ==
    /\ tries \in Nat /\ met \in Nat
    /\ phase # "idle" => Owed <= met
    /\ Refreshing /\ pointer # None => Owed + kb.rev <= met + pointer
    /\ phase \in Prepared => Owed + kb.rev <= met + packet.base

Inv == KbTyped /\ QueueTyped /\ PacketInv /\ ReadInv /\ PlanInv /\ MetInv

-----------------------------------------------------------------------------
(* The records *)

LEMMA InitInv == Init => Inv
<1>. SUFFICES ASSUME Init PROVE Inv
  OBVIOUS
<1>1. KbTyped
  BY DEF Init, Start, Record, KbTyped
<1>2. QueueTyped
  BY DEF Init, QueueTyped
<1>3. PacketInv /\ ReadInv /\ PlanInv
  BY DEF Init, PacketInv, ReadInv, PlanInv, Planned, Prepared
<1>4. MetInv
  BY DEF Init, MetInv, Refreshing, Prepared, Planned
<1>. QED  BY <1>1, <1>2, <1>3, <1>4 DEF Inv

LEMMA OtherPublishes ==
    ASSUME KbTyped, NEW x \in Ids, PublishOther(x)
    PROVE  KbTyped' /\ kb'.rev = kb.rev + 1
<1>1. PICK r \in Successors(x) : kb' = [kb EXCEPT !.rev = @ + 1, !.records[x] = r]
  BY DEF PublishOther
<1>2. r.version = kb.records[x].version + 1
  BY DEF Successors
<1>3. kb' = [rev |-> kb.rev + 1, texts |-> kb.texts, records |-> [kb.records EXCEPT ![x] = r]]
  BY <1>1 DEF KbTyped
<1>4. DOMAIN [kb.records EXCEPT ![x] = r] = Ids
      /\ \A y \in Ids : [kb.records EXCEPT ![x] = r][y].version \in Nat
  BY <1>2 DEF KbTyped
<1>. QED  BY <1>3, <1>4 DEF KbTyped

LEMMA TextReplaced ==
    ASSUME KbTyped, NEW s \in Sources, ReplaceText(s)
    PROVE  KbTyped' /\ kb'.rev = kb.rev /\ kb'.records = kb.records
<1>1. kb' = [rev |-> kb.rev, texts |-> [kb.texts EXCEPT ![s] = @ + 1], records |-> kb.records]
  BY DEF ReplaceText, KbTyped
<1>. QED  BY <1>1 DEF KbTyped

\* A plan replaces records by ones of the next version.
LEMMA PlanWrites ==
    ASSUME NEW rs, NEW ops, NEW x \in DOMAIN Written(rs, ops)
    PROVE  Written(rs, ops)[x].version = rs[x].version + 1
BY DEF Written

LEMMA Committed ==
    ASSUME KbTyped, ReadInv, Commit
    PROVE  /\ KbTyped' /\ kb'.rev = kb.rev + 1 /\ kb.rev = pointer /\ view = kb.records
           /\ \A x \in Ids : \/ kb'.records[x] = kb.records[x]
                             \/ kb'.records[x].version = kb.records[x].version + 1
<1>. DEFINE ws == Written(view, plan)
            new == [x \in Ids |-> IF x \in DOMAIN ws THEN ws[x] ELSE kb.records[x]]
<1>1. /\ kb.rev = pointer
      /\ kb' = [kb EXCEPT !.rev = @ + 1,
                          !.records = [x \in Ids |-> IF x \in DOMAIN ws THEN ws[x] ELSE @[x]]]
  BY DEF Commit, Publish
<1>2. view = kb.records
  BY <1>1 DEF Commit, ReadInv, Fresh
<1>3. \A x \in DOMAIN ws : ws[x].version = kb.records[x].version + 1
  BY <1>2, PlanWrites
<1>. HIDE DEF ws
<1>4. kb' = [rev |-> kb.rev + 1, texts |-> kb.texts, records |-> new]
  BY <1>1 DEF KbTyped
<1>5. \A x \in Ids : new[x] = kb.records[x] \/ new[x].version = kb.records[x].version + 1
  BY <1>3
<1>6. DOMAIN new = Ids /\ \A x \in Ids : new[x].version \in Nat
  BY <1>5 DEF KbTyped
<1>. HIDE DEF new
<1>7. kb'.rev = kb.rev + 1 /\ kb'.records = new /\ kb'.texts = kb.texts /\ kb.rev \in Nat
  BY <1>4 DEF KbTyped
<1>8. KbTyped'
  BY <1>4, <1>6, <1>7 DEF KbTyped
<1>. QED  BY <1>1, <1>2, <1>5, <1>7, <1>8 DEF KbTyped

-----------------------------------------------------------------------------
(* The ends of a lease and of a try *)

\* A row of the queue with another status and another error is still a row.
LEMMA RowTyped ==
    ASSUME QueueTyped, NEW status \in {"queued", "completed", "quarantined", "dead_letter"},
           NEW error,
           job \in DOMAIN Packets => error \in {"none", "refused", "fault"},
           queue' = [queue EXCEPT ![job].status = status, ![job].error = error]
    PROVE  QueueTyped'
<1>1. CASE job \notin DOMAIN Packets
  <2>1. queue' = queue
    BY <1>1 DEF QueueTyped
  <2>. QED  BY <2>1 DEF QueueTyped
<1>2. CASE job \in DOMAIN Packets
  BY <1>2 DEF QueueTyped
<1>. QED  BY <1>1, <1>2

LEMMA LeaseEnds ==
    ASSUME Inv, NEW status \in {"queued", "completed", "quarantined"},
           NEW error \in {"refused", "fault", queue[job].error}, EndLease(status, error)
    PROVE  Inv'
<1>1. /\ phase' = "idle" /\ tries' = 0 /\ pointer' = None /\ plan' = {} /\ kb' = kb
      /\ setup' = setup /\ met' = met
      /\ queue' = [queue EXCEPT ![job].status =
                                  IF status = "queued" /\ queue[job].leases >= MaxLeases
                                  THEN "dead_letter" ELSE status,
                                ![job].error = error]
  BY DEF EndLease, GoTo, ClearReads, ClearPlan
<1>2. KbTyped'
  BY <1>1 DEF Inv, KbTyped
<1>3. QueueTyped'
  <2>1. job \in DOMAIN Packets => error \in {"none", "refused", "fault"}
    BY DEF Inv, QueueTyped
  <2>2. \/ queue' = [queue EXCEPT ![job].status = "dead_letter", ![job].error = error]
        \/ queue' = [queue EXCEPT ![job].status = status, ![job].error = error]
    BY <1>1
  <2>. QED  BY <2>1, <2>2, RowTyped DEF Inv
<1>4. PacketInv' /\ ReadInv' /\ PlanInv' /\ MetInv'
  BY <1>1 DEF Inv, PacketInv, ReadInv, PlanInv, MetInv, Owed, Refreshing, Planned, Prepared
<1>. QED  BY <1>2, <1>3, <1>4 DEF Inv

LEMMA Settles ==
    ASSUME Inv, NEW status \in {"queued", "completed", "quarantined"},
           NEW error \in {"refused", queue[job].error}, Settle(status, error)
    PROVE  Inv'
BY LeaseEnds DEF Settle

LEMMA FailsStep ==
    ASSUME Inv, Fails
    PROVE  Inv'
BY LeaseEnds DEF Fails

LEMMA TriesAgain ==
    ASSUME Inv, NEW names \in BOOLEAN, TryAgain(names), phase # "idle",
           setup.mode # "qwen" => tries + 1 <= met
    PROVE  Inv'
<1>1. CASE tries + 1 < MaxTries
  <2>1. /\ phase' = "refresh" /\ tries' = tries + 1 /\ pointer' = None /\ plan' = {}
        /\ kb' = kb /\ setup' = setup /\ met' = met /\ queue' = queue
    BY <1>1 DEF TryAgain, Retry, GoTo, ClearReads, ClearPlan, others
  <2>2. KbTyped' /\ QueueTyped'
    BY <2>1 DEF Inv, KbTyped, QueueTyped
  <2>3. PacketInv' /\ ReadInv' /\ PlanInv'
    BY <2>1 DEF Inv, PacketInv, ReadInv, PlanInv, Planned, Prepared
  <2>4. MetInv'
    BY <2>1 DEF Inv, MetInv, Owed, Refreshing, Planned, Prepared
  <2>. QED  BY <2>2, <2>3, <2>4 DEF Inv
<1>2. CASE ~(tries + 1 < MaxTries)
  BY <1>2, Settles DEF TryAgain
<1>. QED  BY <1>1, <1>2

\* The packet no longer fits only if somebody published since.
LEMMA FitsUntilPublished ==
    ASSUME Inv, phase \in Planned, setup.mode # "qwen",
           kb.rev # packet.base \/ ~Holds(kb.records, plan, packet)
    PROVE  tries + 1 <= met
<1>1. kb.rev # packet.base
  BY DEF Inv, PlanInv
<1>2. packet.base \in Nat /\ packet.base <= kb.rev /\ kb.rev \in Nat
  BY DEF Inv, PacketInv, KbTyped, Fresh, Prepared
<1>3. tries + kb.rev <= met + packet.base /\ tries \in Nat /\ met \in Nat
  BY DEF Inv, MetInv, Owed, Prepared
<1>. QED  BY <1>1, <1>2, <1>3

-----------------------------------------------------------------------------
(* The steps that only read *)

LEMMA StoresKept ==
    ASSUME Inv, kb' = kb, queue' = queue
    PROVE  KbTyped' /\ QueueTyped'
BY DEF Inv, KbTyped, QueueTyped

\* The place changes among those before a plan, and the packet stays.
LEMMA PreparationStep ==
    ASSUME Inv, UNCHANGED <<kb, queue, setup, tries, met, job, packet, plan>>,
           phase \in {"snapshot", "judge", "recheck", "guided"},
           \/ phase' = phase
           \/ phase = "snapshot" /\ phase' = "judge"
           \/ phase = "judge" /\ phase' = "recheck"
           \/ phase' = "propose" /\ (Own \/ (packet.advice # None /\ Advised)),
           pointer' \in {None, pointer, kb.rev}
    PROVE  Inv'
<1>1. KbTyped' /\ QueueTyped' /\ kb.rev \in Nat
  BY StoresKept DEF Inv, KbTyped
<1>2. PacketInv'
  BY DEF Inv, PacketInv, Fresh, Own, Advised, Prepared, Planned
<1>3. ReadInv'
  <2>1. pointer' # None => pointer' \in Nat /\ pointer' <= kb.rev
    BY <1>1 DEF Inv, ReadInv
  <2>. QED  BY <2>1 DEF ReadInv
<1>4. plan = {}
  BY DEF Inv, PlanInv, Planned
<1>5. PlanInv'
  BY <1>4 DEF PlanInv, Planned, Holds, Fatal, Outdated
<1>6. MetInv'
  BY DEF Inv, MetInv, Owed, Refreshing, Prepared, Planned
<1>. QED  BY <1>1, <1>2, <1>3, <1>5, <1>6 DEF Inv

LEMMA LeaseStep ==
    ASSUME Inv, NEW p \in DOMAIN Packets, Lease(p)
    PROVE  Inv'
<1>1. /\ phase = "idle" /\ phase' = "refresh" /\ tries' = 0 /\ met' = 0
      /\ UNCHANGED <<kb, setup, pointer, view, plan, packet>>
      /\ queue' = [queue EXCEPT ![p].status = "leased", ![p].leases = @ + 1]
  BY DEF Lease, GoTo, reads, making
<1>2. KbTyped'
  BY <1>1 DEF Inv, KbTyped
<1>3. QueueTyped'
  BY <1>1 DEF Inv, QueueTyped
<1>4. PacketInv' /\ PlanInv'
  BY <1>1 DEF Inv, PacketInv, PlanInv, Prepared, Planned
<1>5. ReadInv'
  BY <1>1 DEF Inv, ReadInv
<1>6. MetInv'
  BY <1>1 DEF Inv, ReadInv, MetInv, Owed, Refreshing, Prepared, Planned
<1>. QED  BY <1>2, <1>3, <1>4, <1>5, <1>6 DEF Inv

LEMMA ReadPointerStep ==
    ASSUME Inv, ReadPointer
    PROVE  Inv'
<1>1. /\ Refreshing /\ pointer = None /\ pointer' = kb.rev
      /\ UNCHANGED <<kb, queue, phase, job, tries, packet, plan, setup, met, view>>
  BY DEF ReadPointer, lease, making, others
<1>2. KbTyped' /\ QueueTyped' /\ kb.rev \in Nat
  BY <1>1, StoresKept DEF Inv, KbTyped
<1>3. PacketInv'
  BY <1>1 DEF Inv, PacketInv, Fresh, Own, Advised
<1>4. ReadInv'
  BY <1>1, <1>2 DEF ReadInv, Refreshing
<1>5. PlanInv'
  BY <1>1 DEF Inv, PlanInv, Planned, Refreshing
<1>6. MetInv'
  BY <1>1, <1>2 DEF Inv, MetInv, Owed, Refreshing
<1>. QED  BY <1>2, <1>3, <1>4, <1>5, <1>6 DEF Inv

LEMMA RefreshStep ==
    ASSUME Inv, Refresh
    PROVE  Inv'
<1>1. /\ Refreshing /\ pointer # None /\ packet' = Refreshed
      /\ pointer' = None /\ UNCHANGED <<kb, queue, job, tries, plan, setup, met>>
  BY DEF Refresh, ClearReads, lease, others
<1>2. phase' \in {"guided", "snapshot", "propose"}
      /\ (phase' = "guided" <=> phase = "guide")
  BY <1>1 DEF Refresh, GoTo
<1>3. pointer \in Nat /\ pointer <= kb.rev /\ KbTyped' /\ QueueTyped'
  BY <1>1, StoresKept DEF Inv, ReadInv
<1>4. /\ packet' = [base |-> pointer, seen |-> kb.records,
                    docs |-> packet'.docs, advice |-> packet'.advice]
      /\ packet'.base = pointer /\ packet'.seen = kb.records
  BY <1>1 DEF Refreshed
<1>5. PacketInv'
  <2>1. CASE phase = "guide"
    <3>1. packet'.docs = packet.docs /\ packet'.advice = Kept(packet.advice)
      BY <1>1, <2>1 DEF Refreshed
    <3>2. packet.docs = Packets[job].docs \cup packet.advice.sections
      BY <2>1 DEF Inv, PacketInv, Prepared
    <3>3. packet'.advice # None => packet'.advice = packet.advice /\ packet.advice.rev = pointer
      BY <3>1 DEF Kept
    <3>. QED  BY <1>1, <1>2, <1>3, <1>4, <2>1, <3>1, <3>2, <3>3
              DEF PacketInv, Fresh, Advised, Planned
  <2>2. CASE phase # "guide"
    <3>1. packet'.docs = Packets[job].docs
      BY <1>1, <2>2 DEF Refreshed
    <3>. QED  BY <1>1, <1>2, <1>3, <1>4, <2>2, <3>1 DEF PacketInv, Fresh, Own, Planned
  <2>. QED  BY <2>1, <2>2
<1>6. ReadInv'
  BY <1>1, <1>2 DEF ReadInv
<1>7. PlanInv'
  <2>1. plan' = {}
    BY <1>1 DEF Inv, PlanInv, Refreshing, Planned
  <2>. QED  BY <2>1 DEF PlanInv, Holds, Fatal, Outdated
<1>8. MetInv'
  BY <1>1, <1>2, <1>4 DEF Inv, MetInv, Owed, Refreshing, Prepared, Planned
<1>. QED  BY <1>3, <1>5, <1>6, <1>7, <1>8 DEF Inv

LEMMA FallbackStep ==
    ASSUME Inv, NEW counts, Fallback(counts), phase \in Prepared \ Planned
    PROVE  Inv'
<1>1. /\ phase' = "fallback" /\ pointer' = None
      /\ UNCHANGED <<kb, queue, job, tries, packet, plan, setup, met>>
  BY DEF Fallback, GoTo, ClearReads, lease, making, others
<1>2. KbTyped' /\ QueueTyped'
  BY <1>1, StoresKept
<1>3. PacketInv' /\ ReadInv' /\ PlanInv'
  BY <1>1 DEF Inv, PacketInv, ReadInv, PlanInv, Prepared, Planned
<1>4. MetInv'
  BY <1>1 DEF Inv, MetInv, Owed, Refreshing, Prepared, Planned
<1>. QED  BY <1>2, <1>3, <1>4 DEF Inv

LEMMA AdviceStep ==
    ASSUME Inv, phase = "recheck", phase' = "guide", pointer' = None,
           NEW S, packet' = Augment(S),
           UNCHANGED <<kb, queue, job, tries, plan, setup, met>>
    PROVE  Inv'
<1>1. KbTyped' /\ QueueTyped'
  BY StoresKept
<1>2. /\ packet = [base |-> packet.base, seen |-> packet.seen,
                   docs |-> packet.docs, advice |-> packet.advice]
      /\ Fresh(packet.base, packet.seen) /\ packet.docs = Packets[job].docs
  BY DEF Inv, PacketInv, Prepared, Own
<1>. DEFINE advice == [rev |-> snap.rev, sections |-> S]
<1>3. packet' = [base |-> packet.base, seen |-> packet.seen, docs |-> packet.docs \cup S,
                 advice |-> advice]
  BY <1>2 DEF Augment
<1>4. advice.sections = S
  OBVIOUS
<1>. HIDE DEF advice
<1>5. PacketInv'
  BY <1>2, <1>3, <1>4 DEF PacketInv, Fresh, Planned
<1>6. ReadInv' /\ PlanInv'
  BY DEF Inv, ReadInv, PlanInv, Planned
<1>7. MetInv'
  BY <1>3 DEF Inv, MetInv, Owed, Refreshing, Prepared, Planned
<1>. QED  BY <1>1, <1>5, <1>6, <1>7 DEF Inv

LEMMA SnapshotStep ==
    ASSUME Inv, SnapshotPointer \/ SnapshotRecords \/ SnapshotDone
    PROVE  Inv'
<1>1. Snapshotting /\ phase \in Prepared \ Planned /\ phase \in {"snapshot", "recheck"}
  BY DEF SnapshotPointer, SnapshotRecords, SnapshotDone, Snapshotting, Prepared, Planned
<1>2. CASE SnapshotPointer \/ SnapshotRecords
  <2>1. /\ UNCHANGED <<kb, queue, setup, tries, met, job, packet, plan, phase>>
        /\ pointer' \in {pointer, kb.rev}
    BY <1>2 DEF SnapshotPointer, SnapshotRecords, lease, making, others
  <2>. QED  BY <1>1, <2>1, PreparationStep
<1>3. CASE SnapshotDone /\ ~Fallback(FALSE)
  <2>1. /\ UNCHANGED <<kb, queue, setup, tries, met, job, plan>> /\ pointer' = None
        /\ \/ phase = "snapshot" /\ phase' = "judge" /\ packet' = packet
           \/ /\ phase = "recheck"
              /\ \/ phase' = "propose" /\ packet' = packet
                 \/ phase' = "guide" /\ \E S \in Suggestions : packet' = Augment(S)
    BY <1>1, <1>3 DEF SnapshotDone, GoTo, ClearReads, lease, making, others
  <2>2. CASE phase' = "guide"
    BY <2>1, <2>2, AdviceStep
  <2>3. CASE phase' # "guide"
    <3>1. phase = "recheck" => Own
      BY DEF Inv, PacketInv, Prepared
    <3>2. /\ UNCHANGED <<kb, queue, setup, tries, met, job, packet, plan>>
          /\ \/ phase = "snapshot" /\ phase' = "judge"
             \/ phase' = "propose" /\ Own
      BY <2>1, <2>3, <3>1
    <3>. QED  BY <1>1, <2>1, <3>2, PreparationStep
  <2>. QED  BY <2>2, <2>3
<1>. QED  BY <1>1, <1>2, <1>3, FallbackStep

LEMMA JudgeStep ==
    ASSUME Inv, Judge
    PROVE  Inv'
<1>1. phase = "judge" /\ phase \in Prepared \ Planned
  BY DEF Judge, Prepared, Planned
<1>2. \/ \E counts \in BOOLEAN : Fallback(counts)
      \/ phase' = "recheck" /\ UNCHANGED <<kb, queue, lease, packet, reads, making, others>>
  BY DEF Judge, GoTo
<1>3. CASE phase' = "recheck" /\ UNCHANGED <<kb, queue, lease, packet, reads, making, others>>
  <2>1. UNCHANGED <<kb, queue, setup, tries, met, job, packet, plan, pointer>>
    BY <1>3 DEF lease, reads, making, others
  <2>. QED  BY <1>1, <1>3, <2>1, PreparationStep
<1>. QED  BY <1>1, <1>2, <1>3, FallbackStep

LEMMA JevFailsStep ==
    ASSUME Inv, JevFails
    PROVE  Inv'
<1>1. phase \in Prepared \ Planned
  BY DEF JevFails, Prepared, Planned
<1>. QED  BY <1>1, FallbackStep DEF JevFails

LEMMA GuidedStep ==
    ASSUME Inv, Guided
    PROVE  Inv'
<1>1. phase = "guided" /\ phase \in Prepared \ Planned
  BY DEF Guided, Prepared, Planned
<1>2. CASE ~Fallback(FALSE)
  <2>1. /\ phase' = "propose" /\ packet.advice # None
        /\ UNCHANGED <<kb, queue, setup, tries, met, job, packet, plan, pointer>>
    BY <1>2 DEF Guided, GoTo, lease, reads, making, others
  <2>2. Advised
    BY <1>1, <2>1 DEF Inv, PacketInv
  <2>. QED  BY <1>1, <2>1, <2>2, PreparationStep
<1>. QED  BY <1>1, <1>2, FallbackStep

-----------------------------------------------------------------------------
(* Plans *)

\* A section per source, while none of them exists.
LEMMA CatalogHolds ==
    ASSUME NEW ops, \A o \in ops : \E s \in Sources : o = Op("create", CatalogOf[s], 0, None, s),
           NEW rs, NEW p,
           \A o \in ops : Eligible(rs, o.evidence) /\ rs[o.target].status = "absent"
    PROVE  Holds(rs, ops, p)
<1>1. \A o \in ops : o.op = "create"
  BY DEF Op
<1>2. \A o, q \in ops : o.target = q.target => o = q
  <2>. SUFFICES ASSUME NEW o \in ops, NEW q \in ops, o.target = q.target PROVE o = q
    OBVIOUS
  <2>1. PICK s \in Sources : o = Op("create", CatalogOf[s], 0, None, s)
    OBVIOUS
  <2>2. PICK r \in Sources : q = Op("create", CatalogOf[r], 0, None, r)
    OBVIOUS
  <2>3. CatalogOf[s] = CatalogOf[r]
    BY <2>1, <2>2 DEF Op
  <2>. QED  BY <2>1, <2>2, <2>3, HarnessAssumption
<1>3. ~Fatal(rs, ops, p)
  BY <1>1 DEF Fatal
<1>4. ~Outdated(rs, ops)
  BY <1>1, <1>2 DEF Outdated
<1>. QED  BY <1>3, <1>4 DEF Holds

LEMMA HeldByAll ==
    ASSUME NEW ops, NEW rs, NEW p, Holds(rs, ops, p)
    PROVE  \A o \in ops : /\ Eligible(rs, o.evidence)
                          /\ o.op = "create" => rs[o.target].status = "absent"
BY DEF Holds, Fatal, Outdated

\* What the packet routes is about its documents.
LEMMA RoutedTargets ==
    ASSUME NEW o \in Routed(packet), o.op \in {"patch", "relate"}
    PROVE  o.target \in {Project} \cup packet.docs
<1>. DEFINE targets == Targets(packet.seen, packet.docs)
            cited == {Packets[job].evidence[i] : i \in DOMAIN Packets[job].evidence}
            eligible == {s \in cited : Eligible(packet.seen, s)}
<1>1. targets \subseteq {Project} \cup packet.docs
  BY DEF Targets
<1>2. \/ \E d \in targets, s \in cited : o = Op("patch", d, packet.seen[d].text, None, s)
      \/ \E d \in Sections, s \in cited : o = Op("create", d, 0, None, s)
      \/ \E d \in targets, x \in targets \cup eligible, s \in cited :
            o = Op("relate", d, packet.seen[d].version, x, s)
      \/ \E c \in Conflicts, s \in cited : o = Op("register", c, 0, None, s)
      \/ \E c \in Conflicts, s \in cited : o = Op("observe", c, packet.seen[c].version, None, s)
  BY DEF Routed
<1>. HIDE DEF targets, cited, eligible
<1>. QED  BY <1>1, <1>2 DEF Op

LEMMA CatalogStep ==
    ASSUME Inv, CatalogNext
    PROVE  Inv'
<1>1. /\ phase = "propose" /\ setup.mode # "qwen" /\ setup' = setup
      /\ UNCHANGED <<kb, queue, job, tries, packet, pointer, met>>
  BY DEF CatalogNext, lease, reads, others
<1>2. \/ phase' = "apply" /\ plan' = plan
      \/ phase' = phase /\ plan' = plan
      \/ /\ phase' = phase
         /\ \E s \in Sources : /\ plan' = plan \cup {Op("create", CatalogOf[s], 0, None, s)}
                               /\ Eligible(kb.records, s)
                               /\ kb.records[CatalogOf[s]].status = "absent"
  BY DEF CatalogNext, GoTo, making, Eligible
<1>3. KbTyped' /\ QueueTyped'
  BY <1>1, StoresKept
<1>4. PacketInv' /\ ReadInv' /\ MetInv'
  BY <1>1, <1>2 DEF Inv, PacketInv, ReadInv, MetInv, Owed, Fresh, Own, Advised, Refreshing,
                    Prepared, Planned
<1>5. PlanInv'
  <2>1. CASE plan' = plan
    BY <1>1, <1>2, <2>1 DEF Inv, PlanInv, Planned
  <2>2. ASSUME NEW s \in Sources, plan' = plan \cup {Op("create", CatalogOf[s], 0, None, s)},
               Eligible(kb.records, s), kb.records[CatalogOf[s]].status = "absent",
               phase' = phase
        PROVE  PlanInv'
    <3>. DEFINE new == Op("create", CatalogOf[s], 0, None, s)
    <3>1. new.op = "create" /\ new.target = CatalogOf[s] /\ new.evidence = s
      BY DEF Op
    <3>2. \A o \in plan : \E r \in Sources : o = Op("create", CatalogOf[r], 0, None, r)
      BY <1>1 DEF Inv, PlanInv
    <3>3. \A o \in plan' : \E r \in Sources : o = Op("create", CatalogOf[r], 0, None, r)
      BY <2>2, <3>2
    <3>4. \A o \in plan : o.op = "create"
      BY <3>2 DEF Op
    <3>. HIDE DEF new
    <3>5. plan' = plan \cup {new}
      BY <2>2 DEF new
    <3>6. \A o \in plan' : o.op = "create"
      BY <3>1, <3>4, <3>5
    <3>7. ASSUME kb.rev = packet.base
          PROVE  Holds(kb.records, plan', packet)
      <4>1. Holds(kb.records, plan, packet)
        BY <1>1, <3>7 DEF Inv, PlanInv, Planned
      <4>2. \A o \in plan' : Eligible(kb.records, o.evidence)
                             /\ kb.records[o.target].status = "absent"
        BY <2>2, <3>1, <3>4, <3>5, <4>1, HeldByAll
      <4>. QED  BY <3>3, <4>2, CatalogHolds
    <3>. QED  BY <1>1, <2>2, <3>3, <3>6, <3>7 DEF PlanInv, Planned
  <2>. QED  BY <1>2, <2>1, <2>2
<1>. QED  BY <1>3, <1>4, <1>5 DEF Inv

LEMMA ModelStep ==
    ASSUME Inv, ModelProposes
    PROVE  Inv'
<1>1. /\ phase = "propose" /\ setup.mode = "qwen" /\ phase' = "apply"
      /\ UNCHANGED <<kb, queue, job, tries, packet, pointer, met, setup>>
  BY DEF ModelProposes, GoTo, lease, reads, others
<1>2. PICK o, q \in Routed(packet) : plan' \in {{}, {o}, {o, q}}
  BY DEF ModelProposes
<1>3. \A e \in plan' : e.op \in {"patch", "relate"} => e.target \in {Project} \cup packet.docs
  BY <1>2, RoutedTargets
<1>4. KbTyped' /\ QueueTyped'
  BY <1>1, StoresKept
<1>5. PacketInv' /\ ReadInv' /\ MetInv'
  BY <1>1 DEF Inv, PacketInv, ReadInv, MetInv, Owed, Fresh, Own, Advised, Refreshing,
              Prepared, Planned
<1>6. PlanInv'
  BY <1>1, <1>3 DEF PlanInv, Planned
<1>. QED  BY <1>4, <1>5, <1>6 DEF Inv

-----------------------------------------------------------------------------
(* applyMaintenancePlan *)

LEMMA CheckBaseStep ==
    ASSUME Inv, CheckBase
    PROVE  Inv'
<1>1. phase = "apply" /\ phase \in Planned
  BY DEF CheckBase, Planned
<1>2. CASE Settle("quarantined", "refused")
  BY <1>2, Settles
<1>3. CASE kb.rev # packet.base /\ TryAgain(FALSE)
  BY <1>1, <1>3, FitsUntilPublished, TriesAgain
<1>4. CASE ~Settle("quarantined", "refused") /\ ~(kb.rev # packet.base /\ TryAgain(FALSE))
  <2>1. /\ phase' = "check" /\ pointer' = kb.rev /\ kb.rev = packet.base
        /\ UNCHANGED <<kb, queue, job, tries, packet, plan, met, setup>>
    BY <1>4 DEF CheckBase, GoTo, lease, making, others
  <2>2. KbTyped' /\ QueueTyped' /\ kb.rev \in Nat
    BY <2>1, StoresKept DEF Inv, KbTyped
  <2>3. PacketInv' /\ PlanInv' /\ MetInv'
    BY <1>1, <2>1 DEF Inv, PacketInv, PlanInv, MetInv, Owed, Fresh, Own, Advised, Refreshing,
                      Prepared, Planned
  <2>4. ReadInv'
    BY <2>1, <2>2 DEF ReadInv
  <2>. QED  BY <2>2, <2>3, <2>4 DEF Inv
<1>. QED  BY <1>2, <1>3, <1>4

LEMMA CheckRecordsStep ==
    ASSUME Inv, CheckRecords
    PROVE  Inv'
<1>1. phase = "check" /\ phase \in Planned
  BY DEF CheckRecords, Planned
<1>2. CASE Settle("quarantined", "refused") \/ Settle("completed", queue[job].error)
  BY <1>2, Settles
<1>3. CASE Outdated(kb.records, plan) /\ TryAgain(TRUE)
  <2>1. ~Holds(kb.records, plan, packet)
    BY <1>3 DEF Holds
  <2>. QED  BY <1>1, <1>3, <2>1, FitsUntilPublished, TriesAgain
<1>4. CASE /\ ~Settle("quarantined", "refused") /\ ~Settle("completed", queue[job].error)
           /\ ~(Outdated(kb.records, plan) /\ TryAgain(TRUE))
  <2>1. /\ phase' = "publish" /\ view' = kb.records /\ Holds(kb.records, plan, packet)
        /\ UNCHANGED <<kb, queue, job, tries, packet, plan, pointer, met, setup>>
    BY <1>4 DEF CheckRecords, GoTo, lease, making, others
  <2>2. KbTyped' /\ QueueTyped'
    BY <2>1, StoresKept
  <2>3. PacketInv' /\ PlanInv' /\ MetInv'
    BY <1>1, <2>1 DEF Inv, PacketInv, PlanInv, MetInv, Owed, Fresh, Own, Advised, Refreshing,
                      Prepared, Planned
  <2>4. pointer = packet.base /\ Fresh(packet.base, packet.seen)
    BY <1>1 DEF Inv, ReadInv, PacketInv, Prepared
  <2>5. ReadInv'
    BY <2>1, <2>4 DEF ReadInv, Fresh
  <2>. QED  BY <2>2, <2>3, <2>5 DEF Inv
<1>. QED  BY <1>2, <1>3, <1>4 DEF CheckRecords

LEMMA CommitStep ==
    ASSUME Inv, Commit
    PROVE  Inv'
<1>1. /\ phase = "publish" /\ phase' = "committed"
      /\ UNCHANGED <<queue, job, tries, packet, plan, pointer, met, setup>>
  BY DEF Commit, GoTo, lease, reads, making, others
<1>2. KbTyped' /\ kb'.rev = kb.rev + 1 /\ kb.rev \in Nat
  BY Committed DEF Inv, KbTyped
<1>3. QueueTyped'
  BY <1>1 DEF Inv, QueueTyped
<1>4. PacketInv' /\ PlanInv'
  BY <1>1 DEF Inv, PacketInv, PlanInv, Prepared, Planned
<1>5. ReadInv'
  BY <1>1, <1>2 DEF Inv, ReadInv
<1>6. MetInv'
  BY <1>1 DEF Inv, MetInv, Owed, Refreshing, Prepared, Planned
<1>. QED  BY <1>2, <1>3, <1>4, <1>5, <1>6 DEF Inv

LEMMA CommitRefusedStep ==
    ASSUME Inv, CommitRefused
    PROVE  Inv'
<1>1. phase = "publish" /\ kb.rev # pointer /\ TryAgain(FALSE)
  BY DEF CommitRefused
<1>2. pointer = packet.base /\ phase \in Planned
  BY <1>1 DEF Inv, ReadInv, Planned
<1>. QED  BY <1>1, <1>2, FitsUntilPublished, TriesAgain

-----------------------------------------------------------------------------
(* Everyone else *)

LEMMA PublishOtherStep ==
    ASSUME Inv, NEW x \in Ids, PublishOther(x)
    PROVE  Inv'
<1>1. /\ UNCHANGED <<queue, phase, job, tries, packet, pointer, view, plan, setup>>
      /\ met' = IF phase = "idle" THEN met ELSE met + 1
  BY DEF PublishOther, lease, reads, making
<1>2. KbTyped' /\ kb'.rev = kb.rev + 1 /\ kb.rev \in Nat
  BY OtherPublishes DEF Inv, KbTyped
<1>3. QueueTyped'
  BY <1>1 DEF Inv, QueueTyped
<1>4. \A base, records : Fresh(base, records) =>
         base \in Nat /\ base <= kb'.rev /\ base # kb'.rev
  BY <1>2 DEF Fresh
<1>5. phase \in Prepared => Fresh(packet.base, packet.seen)
  BY DEF Inv, PacketInv
<1>6. PacketInv'
  <2>1. phase \in Prepared => Fresh(packet.base, packet.seen)'
    BY <1>1, <1>4, <1>5 DEF Fresh
  <2>. QED  BY <1>1, <2>1 DEF Inv, PacketInv, Fresh, Own, Advised
<1>7. ReadInv'
  <2>1. pointer # None => pointer \in Nat /\ pointer <= kb'.rev
    BY <1>2 DEF Inv, ReadInv
  <2>2. phase = "publish" => Fresh(pointer, view)'
    BY <1>1, <1>4 DEF Inv, ReadInv, Fresh
  <2>. QED  BY <1>1, <2>1, <2>2 DEF Inv, ReadInv, Fresh
<1>8. PlanInv'
  <2>1. phase \in Planned => packet.base # kb'.rev
    BY <1>4, <1>5 DEF Prepared
  <2>. QED  BY <1>1, <2>1 DEF Inv, PlanInv
<1>9. MetInv'
  <2>1. phase = "idle" => phase \notin Prepared /\ ~Refreshing
    BY DEF Prepared, Planned, Refreshing
  <2>2. phase \in Prepared => packet.base \in Nat
    BY <1>4, <1>5
  <2>3. pointer # None => pointer \in Nat
    BY DEF Inv, ReadInv
  <2>4. tries \in Nat /\ met \in Nat /\ Owed \in Nat /\ Owed' = Owed
    BY <1>1 DEF Inv, MetInv, Owed
  <2>. QED  BY <1>1, <1>2, <2>1, <2>2, <2>3, <2>4 DEF Inv, MetInv, Refreshing
<1>. QED  BY <1>2, <1>3, <1>6, <1>7, <1>8, <1>9 DEF Inv

\* Neither a text on disk nor the circuit to Jev enters the invariant.
LEMMA NothingMoves ==
    ASSUME Inv, KbTyped', kb'.rev = kb.rev, kb'.records = kb.records,
           UNCHANGED <<queue, phase, job, tries, packet, pointer, view, plan, setup, met>>
    PROVE  Inv'
<1>1. QueueTyped'
  BY DEF Inv, QueueTyped
<1>2. PacketInv' /\ ReadInv' /\ PlanInv' /\ MetInv'
  BY DEF Inv, PacketInv, ReadInv, PlanInv, MetInv, Owed, Fresh, Own, Advised, Refreshing
<1>. QED  BY <1>1, <1>2 DEF Inv

LEMMA CrashStep ==
    ASSUME Inv, Crash
    PROVE  Inv'
<1>1. /\ phase' = "idle" /\ tries' = 0 /\ pointer' = None /\ plan' = {} /\ kb' = kb
      /\ setup' = setup /\ met' = met
      /\ queue' = [queue EXCEPT ![job].status =
                     IF queue[job].leases >= MaxLeases THEN "dead_letter" ELSE "queued"]
  BY DEF Crash, GoTo, ClearReads, ClearPlan
<1>2. KbTyped'
  BY <1>1 DEF Inv, KbTyped
<1>3. QueueTyped'
  BY <1>1 DEF Inv, QueueTyped
<1>4. PacketInv' /\ ReadInv' /\ PlanInv' /\ MetInv'
  BY <1>1 DEF Inv, PacketInv, ReadInv, PlanInv, MetInv, Owed, Refreshing, Planned, Prepared
<1>. QED  BY <1>2, <1>3, <1>4 DEF Inv

-----------------------------------------------------------------------------
(* Results *)

LEMMA NextInv == Inv /\ [Next]_vars => Inv'
<1>. SUFFICES ASSUME Inv, [Next]_vars PROVE Inv'
  OBVIOUS
<1>1. CASE UNCHANGED vars
  <2>1. KbTyped'
    BY <1>1 DEF Inv, KbTyped, vars
  <2>. QED  BY <1>1, <2>1, NothingMoves DEF vars, lease, reads, making, others
<1>2. CASE \E p \in DOMAIN Packets : Lease(p)
  BY <1>2, LeaseStep
<1>3. CASE ReadPointer \/ Refresh
  BY <1>3, ReadPointerStep, RefreshStep
<1>4. CASE SnapshotPointer \/ SnapshotRecords \/ SnapshotDone
  BY <1>4, SnapshotStep
<1>5. CASE Judge \/ Guided \/ JevFails
  BY <1>5, JudgeStep, GuidedStep, JevFailsStep
<1>6. CASE CircuitCloses
  <2>1. KbTyped'
    BY <1>6 DEF Inv, KbTyped, CircuitCloses
  <2>. QED  BY <1>6, <2>1, NothingMoves DEF CircuitCloses, lease, reads, making, others
<1>7. CASE CatalogNext \/ ModelProposes
  BY <1>7, CatalogStep, ModelStep
<1>8. CASE Fails \/ Complete
  BY <1>8, FailsStep, Settles DEF Complete
<1>9. CASE CheckBase \/ CheckRecords
  BY <1>9, CheckBaseStep, CheckRecordsStep
<1>10. CASE Commit \/ CommitRefused
  BY <1>10, CommitStep, CommitRefusedStep
<1>11. CASE \E x \in Ids : PublishOther(x)
  BY <1>11, PublishOtherStep
<1>12. ASSUME NEW s \in Sources, ReplaceText(s) PROVE Inv'
  <2>1. KbTyped' /\ kb'.rev = kb.rev /\ kb'.records = kb.records
    BY <1>12, TextReplaced DEF Inv
  <2>. QED  BY <1>12, <2>1, NothingMoves DEF ReplaceText, lease, reads, making
<1>13. CASE Crash
  BY <1>13, CrashStep
<1>. QED  BY <1>1, <1>2, <1>3, <1>4, <1>5, <1>6, <1>7, <1>8, <1>9, <1>10, <1>11, <1>12, <1>13
          DEF Next

\* Whatever is read, proposed, refused or published, and by whom: the records
\* behind a plan are those of its revision, and tries are paid by publications.
THEOREM HarnessInvariant == Spec => []Inv
<1>. QED  BY InitInv, NextInv, PTL DEF Spec

\* A committed plan holds for the records it replaces, loses no other change of
\* them, and is about documents that were the packet's or were suggested by
\* advice on this very revision.
THEOREM CommittedPlansHold == Spec => CommittedPlanStillHolds
<1>1. ASSUME Inv, [Next]_vars, phase = "publish", phase' = "committed"
      PROVE  /\ Holds(kb.records, plan, packet)
             /\ \A x \in Ids : \/ kb'.records[x] = kb.records[x]
                               \/ kb'.records[x].version > kb.records[x].version
             /\ \A o \in plan : \/ o.op \notin {"patch", "relate"}
                                \/ o.target \in {Project} \cup Packets[job].docs
                                \/ /\ packet.advice # None
                                   /\ packet.advice.rev = kb.rev
                                   /\ o.target \in packet.advice.sections
  <2>1. Commit
    BY <1>1 DEF Next, Lease, ReadPointer, Refresh, Refreshing, SnapshotPointer, SnapshotRecords,
                SnapshotDone, Snapshotting, Judge, Guided, CircuitCloses, CatalogNext,
                JevFails, ModelProposes, Fails, CheckBase, CheckRecords, CommitRefused, TryAgain,
                Retry, Settle, EndLease, Fallback, GoTo, Complete, PublishOther, ReplaceText,
                Crash, vars
  <2>2. /\ kb.rev = pointer /\ view = kb.records
        /\ \A x \in Ids : \/ kb'.records[x] = kb.records[x]
                          \/ kb'.records[x].version = kb.records[x].version + 1
    BY <1>1, <2>1, Committed DEF Inv
  <2>3. \A x \in Ids : kb.records[x].version \in Nat
    BY <1>1 DEF Inv, KbTyped
  <2>4. /\ Holds(view, plan, packet) /\ pointer = packet.base
        /\ Own \/ (packet.advice # None /\ Advised)
        /\ \A o \in plan : o.op \in {"patch", "relate"} => o.target \in {Project} \cup packet.docs
    BY <1>1 DEF Inv, ReadInv, PacketInv, PlanInv, Prepared, Planned
  <2>5. \A o \in plan : \/ o.op \notin {"patch", "relate"}
                        \/ o.target \in {Project} \cup Packets[job].docs
                        \/ /\ packet.advice # None
                           /\ packet.advice.rev = kb.rev
                           /\ o.target \in packet.advice.sections
    BY <2>2, <2>4 DEF Own, Advised
  <2>. QED  BY <2>2, <2>3, <2>4, <2>5
<1>2. Inv /\ [Next]_vars =>
        [phase = "publish" /\ phase' = "committed" =>
           /\ Holds(kb.records, plan, packet)
           /\ \A x \in Ids : \/ kb'.records[x] = kb.records[x]
                             \/ kb'.records[x].version > kb.records[x].version
           /\ \A o \in plan : \/ o.op \notin {"patch", "relate"}
                              \/ o.target \in {Project} \cup Packets[job].docs
                              \/ /\ packet.advice # None
                                 /\ packet.advice.rev = kb.rev
                                 /\ o.target \in packet.advice.sections]_vars
  BY <1>1
<1>. QED  BY <1>2, HarnessInvariant, PTL DEF Spec, CommittedPlanStillHolds

\* Settling gives the packet a verdict of its own, and no other packet one.
LEMMA GivesUp ==
    ASSUME Inv, [Next]_vars, NEW p \in DOMAIN Packets,
           queue[p].status = "leased", queue'[p].status = "quarantined",
           queue'[p].error = "refused",
           phase \in {"apply", "check", "publish"}, ~Packets[p].locked
    PROVE  /\ p = job
           /\ \/ phase \in {"apply", "publish"} /\ kb.rev # packet.base
                 /\ tries + 1 >= MaxTries
              \/ phase = "check" /\ ~Holds(kb.records, plan, packet)
<1>1. ASSUME NEW status, NEW error, EndLease(status, error)
      PROVE  p = job /\ status = "quarantined" /\ error = "refused"
  <2>1. queue' = [queue EXCEPT ![job].status =
                                 IF status = "queued" /\ queue[job].leases >= MaxLeases
                                 THEN "dead_letter" ELSE status,
                               ![job].error = error]
    BY <1>1 DEF EndLease
  <2>. QED  BY <2>1 DEF Inv, QueueTyped
<1>2. ASSUME NEW names, TryAgain(names)
      PROVE  p = job /\ tries + 1 >= MaxTries
  <2>1. queue' # queue
    OBVIOUS
  <2>2. ~(tries + 1 < MaxTries) /\ (Settle("quarantined", "refused") \/ Settle("queued", "refused"))
    BY <1>2, <2>1 DEF TryAgain
  <2>3. tries \in Nat /\ MaxTries \in Nat
    BY HarnessAssumption DEF Inv, MetInv
  <2>. QED  BY <1>1, <2>2, <2>3 DEF Settle
<1>3. queue' # queue
  OBVIOUS
<1>4. CheckBase \/ CheckRecords \/ CommitRefused
  <2>1. ~Crash
    BY DEF Crash, Inv, QueueTyped
  <2>2. ~Fails
    BY <1>1 DEF Fails
  <2>. QED  BY <1>3, <2>1, <2>2 DEF Next, Lease, ReadPointer, Refresh, Refreshing, SnapshotPointer,
              SnapshotRecords, SnapshotDone, Snapshotting, Fallback, Judge, Guided, CircuitCloses,
              JevFails, CatalogNext, ModelProposes, Commit, Complete, PublishOther, ReplaceText,
              vars
<1>5. CASE CheckBase
  <2>1. phase = "apply"
    BY <1>5 DEF CheckBase
  <2>2. CASE Packets[job].locked
    BY <1>1, <1>5, <2>2 DEF CheckBase, Settle
  <2>3. CASE ~Packets[job].locked
    BY <1>2, <1>3, <1>5, <2>1, <2>3 DEF CheckBase
  <2>. QED  BY <2>2, <2>3
<1>6. CASE CheckRecords
  <2>1. phase = "check" /\ (\/ Fatal(kb.records, plan, packet) /\ Settle("quarantined", "refused")
                            \/ Outdated(kb.records, plan) /\ TryAgain(TRUE)
                            \/ Settle("completed", queue[job].error))
    BY <1>3, <1>6 DEF CheckRecords
  <2>2. CASE Fatal(kb.records, plan, packet) /\ Settle("quarantined", "refused")
    <3>1. p = job
      BY <1>1, <2>2 DEF Settle
    <3>. QED  BY <2>1, <2>2, <3>1 DEF Holds
  <2>3. CASE Outdated(kb.records, plan) /\ TryAgain(TRUE)
    <3>1. p = job
      BY <1>2, <2>3
    <3>. QED  BY <2>1, <2>3, <3>1 DEF Holds
  <2>4. CASE Settle("completed", queue[job].error)
    <3>1. "completed" = "quarantined"
      BY <1>1, <2>4 DEF Settle
    <3>. QED  BY <3>1
  <2>. QED  BY <2>1, <2>2, <2>3, <2>4
<1>7. CASE CommitRefused
  <2>1. phase = "publish" /\ kb.rev # pointer /\ TryAgain(FALSE)
    BY <1>7 DEF CommitRefused
  <2>. QED  BY <1>2, <2>1 DEF Inv, ReadInv
<1>. QED  BY <1>4, <1>5, <1>6, <1>7

\* A plan that fits its packet is refused for good only because of others: for a
\* catalog every try takes a publication of its own.
THEOREM GivenUpForOthers == Spec => GivenUpOnlyByInterference
<1>1. ASSUME Inv, [Next]_vars, NEW p \in DOMAIN Packets,
             queue[p].status = "leased", queue'[p].status = "quarantined",
             queue'[p].error = "refused",
             phase \in {"apply", "check", "publish"}, ~Packets[p].locked,
             Holds(packet.seen, plan, packet)
      PROVE  met >= IF setup.mode = "qwen" THEN 1
                    ELSE IF phase = "check" THEN tries + 1 ELSE MaxTries
  <2>1. \/ phase \in {"apply", "publish"} /\ kb.rev # packet.base /\ tries + 1 >= MaxTries
        \/ phase = "check" /\ ~Holds(kb.records, plan, packet)
    BY <1>1, GivesUp
  <2>2. phase \in Planned /\ phase \in Prepared
    BY <1>1 DEF Planned, Prepared
  <2>3. /\ packet.base \in Nat /\ packet.base <= kb.rev /\ kb.rev \in Nat
        /\ packet.base = kb.rev => packet.seen = kb.records
    BY <1>1, <2>2 DEF Inv, PacketInv, KbTyped, Fresh
  <2>4. kb.rev # packet.base
    BY <1>1, <2>1, <2>3
  <2>5. tries \in Nat /\ met \in Nat /\ MaxTries \in Nat
    BY <1>1, HarnessAssumption DEF Inv, MetInv
  <2>6. CASE setup.mode = "qwen"
    <3>1. kb.rev <= met + packet.base
      BY <1>1, <2>2, <2>3, <2>5, <2>6 DEF Inv, MetInv, Owed
    <3>. QED  BY <2>3, <2>4, <2>5, <2>6, <3>1
  <2>7. CASE setup.mode # "qwen"
    <3>1. tries + 1 <= met
      BY <1>1, <2>2, <2>4, <2>7, FitsUntilPublished
    <3>. QED  BY <1>1, <2>1, <2>5, <2>7, <3>1
  <2>. QED  BY <2>6, <2>7
<1>2. Inv /\ [Next]_vars =>
        [\A p \in DOMAIN Packets :
           /\ queue[p].status = "leased" /\ queue'[p].status = "quarantined"
           /\ queue'[p].error = "refused"
           /\ phase \in {"apply", "check", "publish"} /\ ~Packets[p].locked
           /\ Holds(packet.seen, plan, packet)
           => met >= IF setup.mode = "qwen" THEN 1
                     ELSE IF phase = "check" THEN tries + 1 ELSE MaxTries]_vars
  BY <1>1
<1>. QED  BY <1>2, HarnessInvariant, PTL DEF Spec, GivenUpOnlyByInterference
=============================================================================
