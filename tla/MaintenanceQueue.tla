--------------------------- MODULE MaintenanceQueue ---------------------------
(***************************************************************************)
(* The durable maintenance queue, maintenance/jobs.sqlite, and the worker  *)
(* loops that drain it.  Runtimes enqueue packets; each maintainer process *)
(* leases the oldest queued packet for a while, works on it and reports    *)
(* success or failure.  A statement, and a transaction() as a whole, is    *)
(* atomic; other processes run between two of them.  A worker whose report *)
(* is refused leaves its loop and its process ends.                        *)
(*                                                                         *)
(* packet_id is a digest of idempotency_key, so one identity stands for    *)
(* both.  A row's timestamps are reduced to what the statements compare:   *)
(* its place in created_at order, whether its lease has expired and        *)
(* whether it was settled a retention period ago.  What the work is, and   *)
(* whether it succeeds, is left open here.                                 *)
(***************************************************************************)
EXTENDS Naturals, FiniteSets

CONSTANTS
    Workers,      \* lease owners: knowledge-maintainer:<pid>
    NoOwner,      \* lease_owner IS NULL
    NoPacket,     \* a worker has leased nothing
    Packets,      \* packets, by idempotency key
    OldRows,      \* rows of an older release, which no longer parse
    PrincipalOf,  \* packet -> actor_principal
    ProjectOf,    \* packet -> project_id
    BytesOf,      \* packet -> packet_bytes
    Limits,       \* MAINTENANCE_QUEUE_LIMITS
    MaxAttempts,  \* the maxAttempts of fail()
    Stall,        \* may others run between the two statements of fail()?
    MaxLapses,    \* bound on leases that expire under a worker at work
    MaxCrashes,   \* bound on process crashes
    MaxInserts    \* bound on rows inserted

LimitNames == {"totalJobs", "totalBytes", "principalJobs", "principalBytes",
               "projectJobs", "projectBytes"}

ASSUME QueueAssumption ==
    /\ NoOwner \notin Workers
    /\ NoPacket \notin Packets
    /\ IsFiniteSet(Packets)
    /\ OldRows \subseteq Packets
    /\ BytesOf \in [Packets -> Nat]
    /\ Limits \in [LimitNames -> Nat]
    /\ MaxAttempts \in Nat \ {0}
    /\ Stall \in BOOLEAN
    /\ {MaxLapses, MaxCrashes, MaxInserts} \subseteq Nat

VARIABLES
    rows,      \* the table: packet -> row, absent when there is none
    pc,        \* per worker: where its loop is
    job,       \* per worker: the packet it has leased
    verdict,   \* per worker: what fail() was told, then what it will write
    inserted,  \* rows inserted so far: the created_at order
    lapses, crashes,
    failures   \* history: failures recorded since the row was inserted

counters == <<inserted, lapses, crashes>>
vars == <<rows, pc, job, verdict, counters, failures>>

Terminal == {"completed", "quarantined", "dead_letter"}
Active   == {"queued", "leased"}

Rows == [status : Terminal \cup Active \cup {"absent"}, attempts : Nat,
         owner : Workers \cup {NoOwner}, lapsed : BOOLEAN, aged : BOOLEAN,
         created : Nat, parses : BOOLEAN]

NoRow == [status |-> "absent", attempts |-> 0, owner |-> NoOwner,
          lapsed |-> FALSE, aged |-> FALSE, created |-> 0, parses |-> TRUE]

\* A row just inserted: queued, no attempt made.
NewRow(place, parses) ==
    [NoRow EXCEPT !.status = "queued", !.created = place, !.parses = parses]

\* The worker is between leasing a packet and reporting on it.
Busy == {"unreadable", "working", "failing", "recording"}

Init ==
    /\ rows = [p \in Packets |-> IF p \in OldRows THEN NewRow(0, FALSE) ELSE NoRow]
    /\ pc = [w \in Workers |-> "idle"]
    /\ job = [w \in Workers |-> NoPacket]
    /\ verdict = [w \in Workers |-> "none"]
    /\ inserted = 0
    /\ lapses = 0
    /\ crashes = 0
    /\ failures = [p \in Packets |-> 0]

-----------------------------------------------------------------------------
(* The statements of the queue *)

GoTo(w, phase) == pc' = [pc EXCEPT ![w] = phase]

\* The worker is through with its job: it polls again, or its process is gone.
PutDown(w, phase) ==
    /\ GoTo(w, phase)
    /\ job' = [job EXCEPT ![w] = NoPacket]
    /\ verdict' = [verdict EXCEPT ![w] = "none"]

\* A row is given a status that is not leased.
UnleaseOwned(row, status) ==
    [row EXCEPT !.status = status, !.lapsed = FALSE, !.aged = FALSE]
Unlease(row, status) ==
    [row EXCEPT !.status = status, !.owner = NoOwner, !.lapsed = FALSE,
                !.aged = FALSE]

\* collectExpired()
CollectedAnyAge(table) ==
    [p \in Packets |-> IF table[p].status \in Terminal THEN NoRow ELSE table[p]]
CollectedAnyStatus(table) ==
    [p \in Packets |-> IF table[p].aged \/ table[p].lapsed THEN NoRow ELSE table[p]]
Collected(table) ==
    [p \in Packets |-> IF table[p].status \in Terminal /\ table[p].aged
                       THEN NoRow ELSE table[p]]

\* The expired leases are given back.
RequeuedNone(table) == table
RequeuedAny(table) ==
    [p \in Packets |-> IF table[p].status = "leased" THEN Unlease(table[p], "queued")
                       ELSE table[p]]
Requeued(table) ==
    [p \in Packets |-> IF table[p].status = "leased" /\ table[p].lapsed
                       THEN Unlease(table[p], "queued") ELSE table[p]]

\* WHERE status='queued' ORDER BY created_at LIMIT 1
IsOldest(table, p) ==
    /\ table[p].status = "queued"
    /\ \A q \in Packets :
          table[q].status = "queued" => table[p].created <= table[q].created

\* WHERE status='leased' AND lease_owner=?
Owns(w) == rows[job[w]].status = "leased" /\ rows[job[w]].owner = w

\* The rows that count against the same limit as p.
Stored(table) == {q \in Packets : table[q].status # "absent"}
SamePrincipal(table, p) == {q \in Stored(table) : PrincipalOf[q] = PrincipalOf[p]}
SameProject(table, p) == {q \in Stored(table) : ProjectOf[q] = ProjectOf[p]}

\* SUM(packet_bytes): their bytes, counted.
BytesIn(packets) == UNION {{q} \X (1..BytesOf[q]) : q \in packets}
Bytes(packets) == Cardinality(BytesIn(packets))

\* One more row of these bytes keeps the rows within the two limits.
HasRoomIfPending(packets, jobs, bytes, p) ==
    /\ Cardinality({q \in packets : rows[q].status \in Active}) < jobs
    /\ Bytes(packets) + BytesOf[p] <= bytes
HasRoomWithoutPacket(packets, jobs, bytes, p) ==
    Cardinality(packets) < jobs /\ Bytes(packets) <= bytes
HasRoom(packets, jobs, bytes, p) ==
    /\ Cardinality(packets) < jobs
    /\ Bytes(packets) + BytesOf[p] <= bytes

\* What fail() decides from the attempts it read.
VerdictUncounted(told, attempts) == IF told = "reject" THEN "quarantined" ELSE "queued"
Verdict(told, attempts) ==
    IF told = "reject" THEN "quarantined"
    ELSE IF attempts < MaxAttempts THEN "queued" ELSE "dead_letter"

-----------------------------------------------------------------------------
(* enqueue(): one immediate transaction; refused for want of room, it is   *)
(* rolled back as a whole and leaves no trace.                             *)

EnqueueNew(p) ==
    /\ inserted < MaxInserts
    /\ LET table == Collected(rows)
       IN  /\ table[p].status = "absent"
           /\ HasRoom(Stored(table), Limits.totalJobs, Limits.totalBytes, p)
           /\ HasRoom(SamePrincipal(table, p), Limits.principalJobs, Limits.principalBytes, p)
           /\ HasRoom(SameProject(table, p), Limits.projectJobs, Limits.projectBytes, p)
           /\ rows' = [table EXCEPT ![p] = NewRow(inserted + 1, TRUE)]
    /\ inserted' = inserted + 1
    /\ failures' = [failures EXCEPT ![p] = 0]
    /\ UNCHANGED <<pc, job, verdict, lapses, crashes>>

\* A row with this key is there, settled ones included.
EnqueueAgain(p) ==
    /\ Collected(rows)[p].status # "absent"
    /\ rows' = Collected(rows)
    /\ UNCHANGED <<pc, job, verdict, counters, failures>>

(* The worker loop *)

\* lease(): the transaction finds a queued row, and toJob() parses it or not.
LeaseNext(w) ==
    /\ pc[w] = "idle"
    /\ LET table == Requeued(Collected(rows))
       IN  \E p \in Packets :
             /\ IsOldest(table, p)
             /\ rows' = [table EXCEPT ![p] =
                    [@ EXCEPT !.status = "leased", !.owner = w,
                              !.attempts = table[p].attempts + 1]]
             /\ job' = [job EXCEPT ![w] = p]
             /\ GoTo(w, IF table[p].parses THEN "working" ELSE "unreadable")
    /\ UNCHANGED <<verdict, counters, failures>>

\* lease(): there is none; the loop sleeps and polls again.
PollEmpty(w) ==
    /\ pc[w] = "idle"
    /\ LET table == Requeued(Collected(rows))
       IN  /\ \A p \in Packets : table[p].status # "queued"
           /\ rows' = table
    /\ UNCHANGED <<pc, job, verdict, counters, failures>>

\* lease(), its other UPDATE: the row that does not parse is set aside.
QuarantineUnreadable(w) ==
    /\ pc[w] = "unreadable"
    /\ rows' = IF Owns(w) THEN [rows EXCEPT ![job[w]] = Unlease(@, "quarantined")]
               ELSE rows
    /\ PutDown(w, "idle")
    /\ UNCHANGED <<counters, failures>>

\* The plan is applied: complete().  Without the lease it throws, and the
\* loop reports that as a failure of the job.
CompleteJob(w) ==
    /\ pc[w] = "working"
    /\ IF Owns(w)
       THEN /\ rows' = [rows EXCEPT ![job[w]] = Unlease(@, "completed")]
            /\ PutDown(w, "idle")
       ELSE /\ GoTo(w, "failing")
            /\ verdict' = [verdict EXCEPT ![w] = "reject"]
            /\ UNCHANGED <<rows, job>>
    /\ UNCHANGED <<counters, failures>>

\* The advisor, the model or the harness throws.
WorkThrows(w) ==
    /\ pc[w] = "working"
    /\ \E told \in {"retry", "reject"} : verdict' = [verdict EXCEPT ![w] = told]
    /\ GoTo(w, "failing")
    /\ UNCHANGED <<rows, job, counters, failures>>

\* fail(), its SELECT: without the lease it throws and ends the process.
CheckLease(w) ==
    /\ pc[w] = "failing"
    /\ IF Owns(w)
       THEN /\ verdict' = [verdict EXCEPT ![w] =
                               Verdict(verdict[w], rows[job[w]].attempts)]
            /\ GoTo(w, "recording")
            /\ UNCHANGED job
       ELSE PutDown(w, "stopped")
    /\ UNCHANGED <<rows, counters, failures>>

\* fail(), its UPDATE: by packet_id alone.
RecordFailure(w) ==
    /\ pc[w] = "recording"
    /\ IF rows[job[w]].status = "absent"
       THEN UNCHANGED <<rows, failures>>
       ELSE /\ rows' = [rows EXCEPT ![job[w]] = Unlease(@, verdict[w])]
            /\ failures' = [failures EXCEPT ![job[w]] = @ + 1]
    /\ PutDown(w, "idle")
    /\ UNCHANGED counters

-----------------------------------------------------------------------------
(* The environment *)

Crash(w) ==
    /\ pc[w] # "stopped"
    /\ crashes < MaxCrashes
    /\ crashes' = crashes + 1
    /\ PutDown(w, "stopped")
    /\ UNCHANGED <<rows, inserted, lapses, failures>>

\* The supervisor starts the process again.
Restart(w) ==
    /\ pc[w] = "stopped"
    /\ GoTo(w, "idle")
    /\ UNCHANGED <<rows, job, verdict, counters, failures>>

\* The process that leased p is not at work on it any more.
Abandoned(p) ==
    \A w \in Workers : ~(rows[p].owner = w /\ job[w] = p)

\* lease_expires_at goes by.
LeaseExpires(p) ==
    /\ rows[p].status = "leased"
    /\ ~rows[p].lapsed
    /\ \/ Abandoned(p) /\ UNCHANGED lapses
       \/ ~Abandoned(p) /\ lapses < MaxLapses /\ lapses' = lapses + 1
    /\ rows' = [rows EXCEPT ![p].lapsed = TRUE]
    /\ UNCHANGED <<pc, job, verdict, inserted, crashes, failures>>

\* Thirty days pass over a settled row.
RowAges(p) ==
    /\ rows[p].status \in Terminal
    /\ ~rows[p].aged
    /\ rows' = [rows EXCEPT ![p].aged = TRUE]
    /\ UNCHANGED <<pc, job, verdict, counters, failures>>

-----------------------------------------------------------------------------
\* The statements of a running worker.
Work(w) ==
    \/ LeaseNext(w) \/ PollEmpty(w) \/ QuarantineUnreadable(w)
    \/ CompleteJob(w) \/ WorkThrows(w) \/ CheckLease(w)

\* Without Stall the two statements of fail() run back to back.
Interleaves == Stall \/ \A w \in Workers : pc[w] # "recording"

Next ==
    \/ \E w \in Workers : RecordFailure(w) \/ Crash(w)
    \/ /\ Interleaves
       /\ \/ \E p \in Packets :
                EnqueueNew(p) \/ EnqueueAgain(p) \/ LeaseExpires(p) \/ RowAges(p)
          \/ \E w \in Workers : Work(w) \/ Restart(w)

Fairness ==
    /\ \A w \in Workers : WF_vars(Work(w) \/ RecordFailure(w) \/ Restart(w))
    /\ \A p \in Packets : WF_vars(Abandoned(p) /\ LeaseExpires(p))

Spec == Init /\ [][Next]_vars

FairSpec == Spec /\ Fairness

-----------------------------------------------------------------------------
(* Properties *)

\* Types, and the columns that go together: a leased row has an owner, only a
\* leased row has an expiry and only a settled one is collected.
TypeOK ==
    /\ rows \in [Packets -> Rows]
    /\ pc \in [Workers -> Busy \cup {"idle", "stopped"}]
    /\ job \in [Workers -> Packets \cup {NoPacket}]
    /\ \A w \in Workers : pc[w] \in Busy <=> job[w] # NoPacket
    /\ verdict \in [Workers -> {"none", "retry", "reject", "queued",
                                "dead_letter", "quarantined"}]
    /\ \A w \in Workers : pc[w] = "recording" =>
           verdict[w] \in {"queued", "dead_letter", "quarantined"}
    /\ inserted \in Nat /\ lapses \in Nat /\ crashes \in Nat
    /\ failures \in [Packets -> Nat]
    /\ \A p \in Packets :
          /\ rows[p].owner # NoOwner <=> rows[p].status = "leased"
          /\ rows[p].lapsed => rows[p].status = "leased"
          /\ rows[p].aged => rows[p].status \in Terminal

\* However many processes enqueue at once, no principal, no project and not the
\* whole table holds more rows than its limit; settled rows count until they are
\* collected.
JobsWithinLimits ==
    /\ Cardinality(Stored(rows)) <= Limits.totalJobs
    /\ \A p \in Stored(rows) :
          /\ Cardinality(SamePrincipal(rows, p)) <= Limits.principalJobs
          /\ Cardinality(SameProject(rows, p)) <= Limits.projectJobs

\* The same for the bytes of their packets.
BytesWithinLimits ==
    /\ Bytes(Stored(rows)) <= Limits.totalBytes
    /\ \A p \in Stored(rows) :
          /\ Bytes(SamePrincipal(rows, p)) <= Limits.principalBytes
          /\ Bytes(SameProject(rows, p)) <= Limits.projectBytes

\* Only settled rows are collected: a packet that was accepted stays in the
\* table until some worker settles it.
ActiveRetained ==
    [][\A p \in Packets : rows[p].status \in Active => rows'[p].status # "absent"]_vars

\* What was settled stays as it was settled for the retention period: no late
\* report of a worker whose lease went to another, and no second enqueue,
\* brings a job back or changes its outcome.
SettledStays ==
    [][\A p \in Packets : rows[p].status \in Terminal /\ ~rows[p].aged =>
          rows'[p].status = rows[p].status]_vars

\* Leases that expire and workers that die do not reset the count: a job fails
\* at most MaxAttempts times, and is not offered again after the last one.
RetriesBounded ==
    \A p \in Packets :
        /\ failures[p] <= MaxAttempts
        /\ rows[p].status \in Active => failures[p] < MaxAttempts

\* Two workers run the same packet only after a lease expired under one of them.
OneWorkerPerJob ==
    (\E v, w \in Workers : v # w /\ job[v] = job[w] /\ job[v] # NoPacket)
        => lapses > 0

\* fail() settles or requeues a row only for the worker that holds its lease.
FailsOwnJob ==
    [][\A w \in Workers :
          pc[w] = "recording" /\ pc'[w] = "idle" /\ rows' # rows => Owns(w)]_vars

\* Every packet accepted is settled in the end.
EveryJobSettles ==
    \A p \in Packets : rows[p].status \in Active ~> rows[p].status \notin Active
=============================================================================
