----------------------- MODULE MaintenanceQueueProofs -----------------------
(***************************************************************************)
(* Proofs about MaintenanceQueue for any number of workers and packets,    *)
(* any limits, and any number of expired leases and crashes.               *)
(***************************************************************************)
EXTENDS MaintenanceQueue, FiniteSetTheorems, TLAPS

(***************************************************************************)
(* Part 1: types, and the columns of a row that go together.               *)
(***************************************************************************)

RowOK(row) ==
    /\ row \in Rows
    /\ row.owner # NoOwner <=> row.status = "leased"
    /\ row.lapsed => row.status = "leased"
    /\ row.aged => row.status \in Terminal

TableOK(table) ==
    /\ table \in [Packets -> Rows]
    /\ \A p \in Packets : RowOK(table[p])

\* The rows the statements write.
LEMMA RowNone == RowOK(NoRow)
BY QueueAssumption DEF RowOK, Rows, NoRow, Terminal, Active

LEMMA RowInserted ==
    ASSUME NEW place \in Nat, NEW parses \in BOOLEAN
    PROVE  RowOK(NewRow(place, parses))
BY QueueAssumption DEF RowOK, Rows, NoRow, NewRow, Terminal, Active

LEMMA RowGivenUp ==
    ASSUME NEW row \in Rows, NEW status \in Terminal \cup {"queued"}
    PROVE  RowOK(Unlease(row, status))
BY QueueAssumption DEF RowOK, Rows, Unlease, Terminal, Active

\* What is collected and requeued before the rest of a transaction.
LEMMA TableStatements ==
    ASSUME NEW table, TableOK(table)
    PROVE  TableOK(Collected(table)) /\ TableOK(Requeued(table))
<1>1. TableOK(Collected(table))
  BY RowNone DEF TableOK, Collected, RowOK
<1>2. TableOK(Requeued(table))
  BY RowGivenUp DEF TableOK, Requeued, RowOK
<1>. QED  BY <1>1, <1>2

\* TypeOK in three parts, which different variables disturb.
WorkersOK ==
    /\ pc \in [Workers -> Busy \cup {"idle", "stopped"}]
    /\ job \in [Workers -> Packets \cup {NoPacket}]
    /\ \A w \in Workers : pc[w] \in Busy <=> job[w] # NoPacket
    /\ verdict \in [Workers -> {"none", "retry", "reject", "queued",
                                "dead_letter", "quarantined"}]
    /\ \A w \in Workers : pc[w] = "recording" =>
           verdict[w] \in {"queued", "dead_letter", "quarantined"}

CountsOK ==
    /\ inserted \in Nat /\ lapses \in Nat /\ crashes \in Nat
    /\ failures \in [Packets -> Nat]

LEMMA TypeParts == TypeOK <=> TableOK(rows) /\ WorkersOK /\ CountsOK
BY DEF TypeOK, TableOK, RowOK, WorkersOK, CountsOK

LEMMA QueueTypeInit == Init => TypeOK
<1>. SUFFICES ASSUME Init PROVE TableOK(rows) /\ WorkersOK /\ CountsOK
  BY TypeParts
<1>1. TableOK(rows)
  <2>1. \A p \in Packets : RowOK(rows[p])
    BY RowNone, RowInserted DEF Init
  <2>2. rows = [p \in Packets |-> rows[p]]
    BY DEF Init
  <2>. QED  BY <2>1, <2>2 DEF TableOK, RowOK
<1>2. WorkersOK
  BY DEF Init, WorkersOK, Busy
<1>3. CountsOK
  BY DEF Init, CountsOK
<1>. QED  BY <1>1, <1>2, <1>3

\* Replacing one row by a consistent one.
LEMMA RowReplaced ==
    ASSUME NEW table, TableOK(table), NEW p \in Packets, NEW row, RowOK(row)
    PROVE  TableOK([table EXCEPT ![p] = row])
BY DEF TableOK, RowOK

\* The row that a worker holding it gives another status.
LEMMA RowUnleased ==
    ASSUME NEW table, TableOK(table), NEW p \in Packets,
           NEW status \in Terminal \cup {"queued"}
    PROVE  TableOK([table EXCEPT ![p] = Unlease(@, status)])
<1>1. RowOK(Unlease(table[p], status))
  BY RowGivenUp DEF TableOK
<1>. QED  BY <1>1, RowReplaced

\* The table lease() works on, and the row it takes from it.
LEMMA RowLeased ==
    ASSUME NEW table, TableOK(table), NEW p \in Packets, NEW w \in Workers,
           IsOldest(table, p)
    PROVE  TableOK([table EXCEPT ![p] =
               [@ EXCEPT !.status = "leased", !.owner = w,
                         !.attempts = table[p].attempts + 1]])
<1>1. RowOK(table[p]) /\ table[p].status = "queued"
  BY DEF TableOK, IsOldest
<1>2. ASSUME NEW row \in Rows, ~row.aged
      PROVE  RowOK([row EXCEPT !.status = "leased", !.owner = w,
                               !.attempts = row.attempts + 1])
  <2>1. w # NoOwner
    BY QueueAssumption
  <2>2. row.attempts + 1 \in Nat
    BY DEF Rows
  <2>3. [row EXCEPT !.status = "leased", !.owner = w, !.attempts = row.attempts + 1] \in Rows
    BY <2>2 DEF Rows, Active, Terminal
  <2>. QED  BY <1>2, <2>1, <2>3 DEF RowOK, Rows
<1>3. table[p] \in Rows /\ ~table[p].aged
  BY <1>1 DEF RowOK, Terminal
<1>. QED  BY <1>2, <1>3, RowReplaced

LEMMA TableStep ==
    ASSUME TableOK(rows), WorkersOK, CountsOK, Next
    PROVE  TableOK(rows')
<1>a. TableOK(Collected(rows)) /\ TableOK(Requeued(Collected(rows)))
  BY TableStatements
<1>b. ASSUME NEW w \in Workers, pc[w] \in Busy PROVE job[w] \in Packets
  BY <1>b DEF WorkersOK
<1>1. ASSUME NEW p \in Packets, EnqueueNew(p) PROVE TableOK(rows')
  <2>1. RowOK(NewRow(inserted + 1, TRUE))
    <3>1. inserted + 1 \in Nat
      BY DEF CountsOK
    <3>. QED  BY <3>1, RowInserted
  <2>2. rows' = [Collected(rows) EXCEPT ![p] = NewRow(inserted + 1, TRUE)]
    BY <1>1 DEF EnqueueNew
  <2>. QED  BY <1>a, <2>1, <2>2, RowReplaced
<1>2. ASSUME NEW p \in Packets, EnqueueAgain(p) PROVE TableOK(rows')
  BY <1>2, <1>a DEF EnqueueAgain
<1>3. ASSUME NEW p \in Packets, LeaseExpires(p) PROVE TableOK(rows')
  BY <1>3 DEF LeaseExpires, TableOK, RowOK, Rows, Terminal
<1>4. ASSUME NEW p \in Packets, RowAges(p) PROVE TableOK(rows')
  BY <1>4 DEF RowAges, TableOK, RowOK, Rows
<1>5. ASSUME NEW w \in Workers, LeaseNext(w) PROVE TableOK(rows')
  <2>. DEFINE table == Requeued(Collected(rows))
  <2>1. PICK p \in Packets :
          /\ IsOldest(table, p)
          /\ rows' = [table EXCEPT ![p] =
                 [@ EXCEPT !.status = "leased", !.owner = w,
                           !.attempts = table[p].attempts + 1]]
    BY <1>5 DEF LeaseNext
  <2>2. TableOK(table)
    BY <1>a
  <2>. HIDE DEF table
  <2>. QED  BY <2>1, <2>2, RowLeased
<1>6. ASSUME NEW w \in Workers, PollEmpty(w) PROVE TableOK(rows')
  BY <1>6, <1>a DEF PollEmpty
<1>7. ASSUME NEW w \in Workers, QuarantineUnreadable(w) PROVE TableOK(rows')
  <2>1. job[w] \in Packets /\ "quarantined" \in Terminal
    BY <1>7, <1>b DEF QuarantineUnreadable, Busy, Terminal
  <2>2. rows' = rows \/ rows' = [rows EXCEPT ![job[w]] = Unlease(@, "quarantined")]
    BY <1>7 DEF QuarantineUnreadable
  <2>. QED  BY <2>1, <2>2, RowUnleased
<1>8. ASSUME NEW w \in Workers, CompleteJob(w) PROVE TableOK(rows')
  <2>1. job[w] \in Packets /\ "completed" \in Terminal
    BY <1>8, <1>b DEF CompleteJob, Busy, Terminal
  <2>2. rows' = rows \/ rows' = [rows EXCEPT ![job[w]] = Unlease(@, "completed")]
    BY <1>8 DEF CompleteJob
  <2>. QED  BY <2>1, <2>2, RowUnleased
<1>9. ASSUME NEW w \in Workers, RecordFailure(w) PROVE TableOK(rows')
  <2>1. job[w] \in Packets /\ verdict[w] \in Terminal \cup {"queued"}
    BY <1>9, <1>b DEF RecordFailure, Terminal, WorkersOK, Busy
  <2>2. rows' = rows \/ rows' = [rows EXCEPT ![job[w]] = Unlease(@, verdict[w])]
    BY <1>9 DEF RecordFailure
  <2>. QED  BY <2>1, <2>2, RowUnleased
<1>10. ASSUME NEW w \in Workers, WorkThrows(w) \/ CheckLease(w) \/ Crash(w) \/ Restart(w)
       PROVE  TableOK(rows')
  BY <1>10 DEF WorkThrows, CheckLease, Crash, Restart
<1>. QED
  BY <1>1, <1>2, <1>3, <1>4, <1>5, <1>6, <1>7, <1>8, <1>9, <1>10 DEF Next, Work

LEMMA WorkersStep ==
    ASSUME WorkersOK, Next
    PROVE  WorkersOK'
<1>. USE DEF WorkersOK, GoTo, PutDown, Busy, counters
<1>1. ASSUME NEW p \in Packets,
             EnqueueNew(p) \/ EnqueueAgain(p) \/ LeaseExpires(p) \/ RowAges(p)
      PROVE  WorkersOK'
  BY <1>1 DEF EnqueueNew, EnqueueAgain, LeaseExpires, RowAges
<1>2. ASSUME NEW w \in Workers, LeaseNext(w) PROVE WorkersOK'
  BY <1>2, QueueAssumption DEF LeaseNext
<1>3. ASSUME NEW w \in Workers, PollEmpty(w) PROVE WorkersOK'
  BY <1>3 DEF PollEmpty
<1>4. ASSUME NEW w \in Workers, QuarantineUnreadable(w) PROVE WorkersOK'
  BY <1>4 DEF QuarantineUnreadable
<1>5. ASSUME NEW w \in Workers, CompleteJob(w) PROVE WorkersOK'
  BY <1>5 DEF CompleteJob
<1>6. ASSUME NEW w \in Workers, WorkThrows(w) PROVE WorkersOK'
  BY <1>6 DEF WorkThrows
<1>7. ASSUME NEW w \in Workers, CheckLease(w) PROVE WorkersOK'
  BY <1>7 DEF CheckLease, Verdict
<1>8. ASSUME NEW w \in Workers, RecordFailure(w) PROVE WorkersOK'
  BY <1>8 DEF RecordFailure
<1>9. ASSUME NEW w \in Workers, Crash(w) PROVE WorkersOK'
  BY <1>9 DEF Crash
<1>10. ASSUME NEW w \in Workers, Restart(w) PROVE WorkersOK'
  BY <1>10 DEF Restart
<1>. QED
  BY <1>1, <1>2, <1>3, <1>4, <1>5, <1>6, <1>7, <1>8, <1>9, <1>10 DEF Next, Work

LEMMA CountsStep ==
    ASSUME CountsOK, Next
    PROVE  CountsOK'
<1>. USE DEF CountsOK, counters
<1>1. ASSUME NEW p \in Packets, EnqueueNew(p) PROVE CountsOK'
  BY <1>1 DEF EnqueueNew
<1>2. ASSUME NEW p \in Packets, LeaseExpires(p) PROVE CountsOK'
  BY <1>2 DEF LeaseExpires
<1>3. ASSUME NEW w \in Workers, RecordFailure(w) PROVE CountsOK'
  BY <1>3 DEF RecordFailure
<1>4. ASSUME NEW w \in Workers, Crash(w) PROVE CountsOK'
  BY <1>4 DEF Crash
<1>5. ASSUME NEW p \in Packets, EnqueueAgain(p) \/ RowAges(p) PROVE CountsOK'
  BY <1>5 DEF EnqueueAgain, RowAges
<1>6. ASSUME NEW w \in Workers, Work(w) \/ Restart(w) PROVE CountsOK'
  BY <1>6 DEF Work, LeaseNext, PollEmpty, QuarantineUnreadable, CompleteJob,
              WorkThrows, CheckLease, Restart
<1>. QED  BY <1>1, <1>2, <1>3, <1>4, <1>5, <1>6 DEF Next

LEMMA QueueTypeStep ==
    ASSUME TypeOK, [Next]_vars
    PROVE  TypeOK'
<1>1. TableOK(rows) /\ WorkersOK /\ CountsOK
  BY TypeParts
<1>2. CASE Next
  <2>1. TableOK(rows') /\ WorkersOK' /\ CountsOK'
    BY <1>1, <1>2, TableStep, WorkersStep, CountsStep
  <2>. QED  BY <2>1 DEF TypeOK, TableOK, RowOK, WorkersOK, CountsOK
<1>3. CASE UNCHANGED vars
  BY <1>3 DEF vars, counters, TypeOK
<1>. QED  BY <1>2, <1>3

\* The columns of every row stay consistent with its status, whatever the
\* workers and the enqueuing processes interleave.
THEOREM QueueTypeCorrect == Spec => []TypeOK
BY QueueTypeInit, QueueTypeStep, PTL DEF Spec

(***************************************************************************)
(* Part 2: what the transactions leave alone, for any interleaving.        *)
(***************************************************************************)

\* Collecting and requeueing touch expired leases and aged settled rows only.
LEMMA SweepKeeps ==
    ASSUME NEW p \in Packets
    PROVE  /\ ~(rows[p].status \in Terminal /\ rows[p].aged) =>
                 Collected(rows)[p] = rows[p]
           /\ ~(rows[p].status \in Terminal /\ rows[p].aged)
              /\ ~(rows[p].status = "leased" /\ rows[p].lapsed) =>
                 Requeued(Collected(rows))[p] = rows[p]
           /\ rows[p].status \in Terminal /\ rows[p].aged =>
                 /\ Collected(rows)[p] = NoRow
                 /\ Requeued(Collected(rows))[p] = NoRow
           /\ rows[p].status = "leased" /\ rows[p].lapsed =>
                 Requeued(Collected(rows))[p] = Unlease(rows[p], "queued")
BY DEF Collected, Requeued, NoRow, Terminal

\* A row just leased to w, after so many attempts.
LeasedTo(row, w, attempts) ==
    /\ row.status = "leased" /\ row.owner = w
    /\ ~row.lapsed /\ ~row.aged
    /\ row.attempts = attempts + 1

\* The effect of one step on one row.
RowStep(p) ==
    \/ rows'[p] = rows[p]
    \/ rows[p].status \in Terminal /\ rows[p].aged /\ rows'[p] = NoRow
    \/ /\ rows[p].status \notin Active
       /\ rows[p].status \in Terminal => rows[p].aged
       /\ rows'[p] = NewRow(inserted + 1, TRUE)
       /\ EnqueueNew(p)
    \/ rows[p].status = "leased" /\ rows[p].lapsed /\ rows'[p] = Unlease(rows[p], "queued")
    \/ \E w \in Workers :
          /\ LeaseNext(w)
          /\ job' = [job EXCEPT ![w] = p]
          /\ \/ rows[p].status = "queued"
             \/ rows[p].status = "leased" /\ rows[p].lapsed
          /\ LeasedTo(rows'[p], w, rows[p].attempts)
    \/ \E w \in Workers :
          /\ job[w] = p
          /\ \/ QuarantineUnreadable(w) /\ Owns(w) /\ rows'[p] = Unlease(rows[p], "quarantined")
             \/ CompleteJob(w) /\ Owns(w) /\ rows'[p] = Unlease(rows[p], "completed")
             \/ /\ RecordFailure(w)
                /\ rows[p].status # "absent"
                /\ rows'[p] = Unlease(rows[p], verdict[w])
    \/ rows[p].status = "leased" /\ LeaseExpires(p) /\ rows'[p] = [rows[p] EXCEPT !.lapsed = TRUE]
    \/ rows[p].status \in Terminal /\ RowAges(p) /\ rows'[p] = [rows[p] EXCEPT !.aged = TRUE]

LEMMA EveryRowStep ==
    ASSUME TypeOK, Next
    PROVE  \A p \in Packets : RowStep(p)
<1>. SUFFICES ASSUME NEW p \in Packets PROVE RowStep(p)
  OBVIOUS
<1>a. TableOK(rows) /\ WorkersOK
  BY TypeParts
<1>b. RowOK(rows[p])
  BY <1>a DEF TableOK
<1>. USE <1>a
<1>1. ASSUME NEW q \in Packets, EnqueueNew(q) PROVE RowStep(p)
  <2>1. rows' = [Collected(rows) EXCEPT ![q] = NewRow(inserted + 1, TRUE)]
    BY <1>1 DEF EnqueueNew
  <2>2. Collected(rows)[q].status = "absent"
    BY <1>1 DEF EnqueueNew
  <2>3. p # q => rows'[p] = Collected(rows)[p]
    BY <2>1 DEF Collected
  <2>4. p = q => rows'[p] = NewRow(inserted + 1, TRUE)
    BY <2>1 DEF Collected
  <2>5. p = q => rows[p].status \notin Active /\ (rows[p].status \in Terminal => rows[p].aged)
    BY <2>2 DEF Collected, Active, Terminal
  <2>. QED  BY <1>1, <2>3, <2>4, <2>5, SweepKeeps DEF RowStep
<1>2. ASSUME NEW q \in Packets, EnqueueAgain(q) PROVE RowStep(p)
  BY <1>2, SweepKeeps DEF EnqueueAgain, RowStep
<1>3. ASSUME NEW q \in Packets, LeaseExpires(q) PROVE RowStep(p)
  BY <1>3 DEF LeaseExpires, RowStep, TableOK
<1>4. ASSUME NEW q \in Packets, RowAges(q) PROVE RowStep(p)
  BY <1>4 DEF RowAges, RowStep, TableOK
<1>5. ASSUME NEW w \in Workers, LeaseNext(w) PROVE RowStep(p)
  <2>. DEFINE table == Requeued(Collected(rows))
  <2>1. PICK q \in Packets :
          /\ IsOldest(table, q)
          /\ rows' = [table EXCEPT ![q] =
                 [@ EXCEPT !.status = "leased", !.owner = w,
                           !.attempts = table[q].attempts + 1]]
          /\ job' = [job EXCEPT ![w] = q]
    BY <1>5 DEF LeaseNext
  <2>2. CASE p # q
    <3>1. rows'[p] = table[p]
      BY <2>1, <2>2 DEF Requeued
    <3>. QED  BY <3>1, SweepKeeps DEF RowStep
  <2>3. CASE p = q
    <3>1. rows'[p] = [table[p] EXCEPT !.status = "leased", !.owner = w,
                                      !.attempts = table[p].attempts + 1]
      BY <2>1, <2>3 DEF Requeued
    <3>2. table[p].status = "queued"
      BY <2>1, <2>3 DEF IsOldest
    <3>3. CASE rows[p].status = "leased" /\ rows[p].lapsed
      <4>1. table[p] = Unlease(rows[p], "queued")
        BY <3>3, SweepKeeps
      <4>2. LeasedTo(rows'[p], w, rows[p].attempts)
        BY <3>1, <4>1, <1>b DEF Unlease, RowOK, Rows, LeasedTo
      <4>. QED  BY <1>5, <2>1, <2>3, <3>3, <4>2 DEF RowStep
    <3>4. CASE ~(rows[p].status = "leased" /\ rows[p].lapsed)
      <4>1. table[p] = rows[p]
        BY <3>2, <3>4, SweepKeeps DEF NoRow
      <4>2. rows[p].status = "queued" /\ ~rows[p].lapsed /\ ~rows[p].aged
        BY <3>2, <4>1, <1>b DEF RowOK, Terminal
      <4>3. LeasedTo(rows'[p], w, rows[p].attempts)
        BY <3>1, <4>1, <4>2, <1>b DEF RowOK, Rows, LeasedTo
      <4>. QED  BY <1>5, <2>1, <2>3, <4>2, <4>3 DEF RowStep
    <3>. QED  BY <3>3, <3>4
  <2>. QED  BY <2>2, <2>3
<1>6. ASSUME NEW w \in Workers, PollEmpty(w) PROVE RowStep(p)
  BY <1>6, SweepKeeps DEF PollEmpty, RowStep
<1>7. ASSUME NEW w \in Workers, QuarantineUnreadable(w) PROVE RowStep(p)
  BY <1>7 DEF QuarantineUnreadable, RowStep, TableOK
<1>8. ASSUME NEW w \in Workers, CompleteJob(w) PROVE RowStep(p)
  BY <1>8 DEF CompleteJob, RowStep, TableOK
<1>9. ASSUME NEW w \in Workers, RecordFailure(w) PROVE RowStep(p)
  BY <1>9 DEF RecordFailure, RowStep, TableOK
<1>10. ASSUME NEW w \in Workers, WorkThrows(w) \/ CheckLease(w) \/ Crash(w) \/ Restart(w)
       PROVE  RowStep(p)
  BY <1>10 DEF WorkThrows, CheckLease, Crash, Restart, RowStep
<1>. QED
  BY <1>1, <1>2, <1>3, <1>4, <1>5, <1>6, <1>7, <1>8, <1>9, <1>10 DEF Next, Work

\* A packet that was accepted stays in the table until it is settled.
THEOREM ActiveKept == Spec => ActiveRetained
<1>1. ASSUME TypeOK, [Next]_vars, NEW p \in Packets, rows[p].status \in Active
      PROVE  rows'[p].status # "absent"
  <2>1. CASE UNCHANGED vars
    BY <1>1, <2>1 DEF vars, Active
  <2>2. CASE Next
    <3>1. RowStep(p) /\ RowOK(rows[p])
      BY <1>1, <2>2, EveryRowStep, TypeParts DEF TableOK
    <3>2. ASSUME NEW w \in Workers, RecordFailure(w) PROVE verdict[w] # "absent"
      BY <1>1, <3>2 DEF RecordFailure, TypeOK
    <3>. QED
      BY <1>1, <3>1, <3>2
         DEF RowStep, RowOK, Rows, LeasedTo, Unlease, NewRow, NoRow, Active, Terminal
  <2>. QED  BY <1>1, <2>1, <2>2
<1>2. TypeOK /\ [Next]_vars =>
        [\A p \in Packets : rows[p].status \in Active => rows'[p].status # "absent"]_vars
  BY <1>1
<1>. QED  BY <1>2, QueueTypeCorrect, PTL DEF Spec, ActiveRetained

(***************************************************************************)
(* Part 3: a lease that did not expire under its worker is exclusive, even *)
(* when others run between the two statements of fail().                   *)
(***************************************************************************)

\* As long as no lease expired under a worker, every worker with a job holds it.
LeaseHeld ==
    lapses = 0 =>
        \A w \in Workers : job[w] # NoPacket => Owns(w) /\ ~rows[job[w]].lapsed

LEMMA LeaseHeldStep ==
    ASSUME TypeOK, LeaseHeld, Next
    PROVE  LeaseHeld'
<1>. SUFFICES ASSUME lapses' = 0, NEW v \in Workers, job'[v] # NoPacket
              PROVE  /\ rows'[job'[v]].status = "leased"
                     /\ rows'[job'[v]].owner = v
                     /\ ~rows'[job'[v]].lapsed
  BY DEF LeaseHeld, Owns
<1>1. lapses = 0
  <2>1. lapses' = lapses \/ lapses' = lapses + 1
    BY DEF Next, Work, EnqueueNew, EnqueueAgain, LeaseExpires, RowAges, LeaseNext,
           PollEmpty, QuarantineUnreadable, CompleteJob, WorkThrows, CheckLease,
           RecordFailure, Crash, Restart, counters
  <2>. QED  BY <2>1 DEF TypeOK
<1>2. \A w \in Workers : job[w] # NoPacket =>
          /\ rows[job[w]].status = "leased"
          /\ rows[job[w]].owner = w
          /\ ~rows[job[w]].lapsed
  BY <1>1 DEF LeaseHeld, Owns
<1>3. job'[v] = job[v] \/ LeaseNext(v)
  BY DEF Next, Work, EnqueueNew, EnqueueAgain, LeaseExpires, RowAges, LeaseNext,
         PollEmpty, QuarantineUnreadable, CompleteJob, WorkThrows, CheckLease,
         RecordFailure, Crash, Restart, counters, PutDown, TypeOK
<1>4. CASE LeaseNext(v)
  <2>. DEFINE table == Requeued(Collected(rows))
  <2>1. PICK q \in Packets :
          /\ IsOldest(table, q)
          /\ rows' = [table EXCEPT ![q] =
                 [@ EXCEPT !.status = "leased", !.owner = v,
                           !.attempts = table[q].attempts + 1]]
          /\ job' = [job EXCEPT ![v] = q]
    BY <1>4 DEF LeaseNext
  <2>2. job'[v] = q
    BY <2>1 DEF TypeOK
  <2>3. TableOK(table)
    BY TypeParts, TableStatements
  <2>4. table[q] \in Rows /\ ~table[q].lapsed
    BY <2>1, <2>3 DEF TableOK, RowOK, IsOldest
  <2>5. table \in [Packets -> Rows]
    BY <2>3 DEF TableOK
  <2>. HIDE DEF table
  <2>. QED  BY <2>1, <2>2, <2>4, <2>5 DEF Rows
<1>5. CASE job'[v] = job[v] /\ ~LeaseNext(v)
  <2>1. job[v] \in Packets /\ RowStep(job[v])
    BY <1>5, EveryRowStep DEF TypeOK
  <2>2. /\ rows[job[v]].status = "leased"
        /\ rows[job[v]].owner = v
        /\ ~rows[job[v]].lapsed
    BY <1>2, <1>5
  <2>3. ASSUME NEW w \in Workers, job[w] = job[v],
               \/ QuarantineUnreadable(w)
               \/ CompleteJob(w) /\ Owns(w)
               \/ RecordFailure(w)
        PROVE  FALSE
    <3>1. w = v
      BY <1>2, <1>5, <2>2, <2>3
    <3>2. job'[w] = NoPacket
      BY <2>3 DEF QuarantineUnreadable, CompleteJob, RecordFailure, PutDown, TypeOK
    <3>. QED  BY <3>1, <3>2
  <2>4. ~LeaseExpires(job[v])
    <3>1. ~Abandoned(job[v])
      BY <2>2 DEF Abandoned
    <3>2. LeaseExpires(job[v]) => lapses' = lapses + 1
      BY <3>1 DEF LeaseExpires
    <3>. QED  BY <1>1, <3>2
  <2>5. rows'[job[v]] = rows[job[v]]
    BY <2>1, <2>2, <2>3, <2>4 DEF RowStep, Active, Terminal
  <2>. QED  BY <1>5, <2>2, <2>5
<1>. QED  BY <1>3, <1>4, <1>5

\* Two workers have one packet only after a lease expired under one of them.
THEOREM LeaseExclusive == Spec => []OneWorkerPerJob
<1>1. Init => LeaseHeld
  BY DEF Init, LeaseHeld
<1>2. TypeOK /\ LeaseHeld /\ [Next]_vars => LeaseHeld'
  <2>1. ASSUME LeaseHeld, UNCHANGED vars PROVE LeaseHeld'
    BY <2>1 DEF LeaseHeld, Owns, vars, counters
  <2>. QED  BY <2>1, LeaseHeldStep
<1>3. TypeOK /\ LeaseHeld => OneWorkerPerJob
  BY DEF TypeOK, LeaseHeld, OneWorkerPerJob, Owns
<1>. QED  BY <1>1, <1>2, <1>3, QueueTypeCorrect, PTL DEF Spec

(***************************************************************************)
(* Part 4: with no other process between the two statements of fail(),     *)
(* what is settled stays settled and retries are bounded.                  *)
(***************************************************************************)

\* A worker between the two statements holds the lease it checked.
ChecksHold ==
    \A w \in Workers : pc[w] = "recording" =>
        /\ Owns(w)
        /\ verdict[w] = "queued" => rows[job[w]].attempts < MaxAttempts

\* A failure uses up a lease, and each lease counts as an attempt.
FailuresCounted ==
    \A p \in Packets :
        /\ failures[p] <= MaxAttempts
        /\ rows[p].status = "queued" =>
               failures[p] < MaxAttempts /\ failures[p] <= rows[p].attempts
        /\ rows[p].status = "leased" =>
               failures[p] < MaxAttempts /\ failures[p] < rows[p].attempts

LEMMA ChecksHoldStep ==
    ASSUME ~Stall, TypeOK, ChecksHold, Next
    PROVE  ChecksHold'
<1>. SUFFICES ASSUME NEW w \in Workers, pc'[w] = "recording"
              PROVE  /\ rows'[job'[w]].status = "leased"
                     /\ rows'[job'[w]].owner = w
                     /\ verdict'[w] = "queued" => rows'[job'[w]].attempts < MaxAttempts
  BY DEF ChecksHold, Owns
<1>1. CASE pc[w] = "recording"
  <2>1. PICK v \in Workers : RecordFailure(v) \/ Crash(v)
    BY <1>1 DEF Next, Interleaves
  <2>2. v # w
    BY <2>1 DEF RecordFailure, Crash, PutDown, GoTo, TypeOK
  <2>3. job'[w] = job[w] /\ verdict'[w] = verdict[w] /\ job[w] \in Packets
    BY <1>1, <2>1, <2>2 DEF RecordFailure, Crash, PutDown, TypeOK, Busy
  <2>4. rows'[job[w]] = rows[job[w]]
    <3>1. CASE Crash(v)
      BY <3>1 DEF Crash
    <3>2. CASE RecordFailure(v)
      <4>1. Owns(v) /\ Owns(w)
        BY <1>1, <3>2 DEF RecordFailure, ChecksHold
      <4>2. job[v] # job[w]
        BY <2>2, <4>1 DEF Owns
      <4>. QED  BY <2>3, <3>2, <4>2 DEF RecordFailure, TypeOK
    <3>. QED  BY <2>1, <3>1, <3>2
  <2>. QED  BY <1>1, <2>3, <2>4 DEF ChecksHold, Owns
<1>2. CASE pc[w] # "recording"
  <2>1. CheckLease(w)
    BY <1>2 DEF Next, Work, EnqueueNew, EnqueueAgain, LeaseExpires, RowAges, LeaseNext,
           PollEmpty, QuarantineUnreadable, CompleteJob, WorkThrows, CheckLease,
           RecordFailure, Crash, Restart, PutDown, GoTo, TypeOK
  <2>2. Owns(w)
    BY <2>1 DEF CheckLease, PutDown, GoTo, TypeOK
  <2>3. /\ rows' = rows
        /\ job' = job
        /\ verdict'[w] = Verdict(verdict[w], rows[job[w]].attempts)
    BY <2>1, <2>2 DEF CheckLease, TypeOK
  <2>. QED  BY <2>2, <2>3 DEF Owns, Verdict
<1>. QED  BY <1>1, <1>2

LEMMA FailuresCountedStep ==
    ASSUME TypeOK, ChecksHold, FailuresCounted, Next
    PROVE  FailuresCounted'
<1>. SUFFICES ASSUME NEW p \in Packets
              PROVE  /\ failures'[p] <= MaxAttempts
                     /\ rows'[p].status = "queued" =>
                            failures'[p] < MaxAttempts /\ failures'[p] <= rows'[p].attempts
                     /\ rows'[p].status = "leased" =>
                            failures'[p] < MaxAttempts /\ failures'[p] < rows'[p].attempts
  BY DEF FailuresCounted
<1>1. RowStep(p) /\ RowOK(rows[p]) /\ rows[p] \in Rows
  BY EveryRowStep, TypeParts DEF TableOK, RowOK
<1>2. /\ failures[p] \in Nat /\ rows[p].attempts \in Nat
      /\ MaxAttempts \in Nat /\ MaxAttempts > 0
  BY <1>1, QueueAssumption DEF TypeOK, Rows
<1>3. /\ failures[p] <= MaxAttempts
      /\ rows[p].status = "queued" =>
             failures[p] < MaxAttempts /\ failures[p] <= rows[p].attempts
      /\ rows[p].status = "leased" =>
             failures[p] < MaxAttempts /\ failures[p] < rows[p].attempts
  BY DEF FailuresCounted
<1>4. \A status : /\ Unlease(rows[p], status).status = status
                  /\ Unlease(rows[p], status).attempts = rows[p].attempts
  BY <1>1 DEF Unlease, Rows
<1>5. CASE \E w \in Workers : RecordFailure(w) /\ job[w] = p
  <2>1. PICK w \in Workers : RecordFailure(w) /\ job[w] = p
    BY <1>5
  <2>2. rows[p].status = "leased" /\ verdict[w] \in {"queued", "dead_letter", "quarantined"}
    BY <2>1 DEF RecordFailure, ChecksHold, Owns, TypeOK
  <2>3. verdict[w] = "queued" => rows[p].attempts < MaxAttempts
    BY <2>1 DEF RecordFailure, ChecksHold
  <2>4. failures'[p] = failures[p] + 1 /\ rows'[p] = Unlease(rows[p], verdict[w])
    BY <2>1, <2>2 DEF RecordFailure, TypeOK
  <2>. QED  BY <1>2, <1>3, <1>4, <2>2, <2>3, <2>4
<1>6. CASE EnqueueNew(p)
  <2>1. failures'[p] = 0
    BY <1>6 DEF EnqueueNew, TypeOK
  <2>2. rows'[p] = NewRow(inserted + 1, TRUE)
    BY <1>6 DEF EnqueueNew, Collected
  <2>. QED  BY <1>2, <2>1, <2>2 DEF NewRow, NoRow
<1>7. CASE ~EnqueueNew(p) /\ ~\E w \in Workers : RecordFailure(w) /\ job[w] = p
  <2>1. failures'[p] = failures[p]
    BY <1>7 DEF Next, Work, EnqueueNew, EnqueueAgain, LeaseExpires, RowAges, LeaseNext,
           PollEmpty, QuarantineUnreadable, CompleteJob, WorkThrows, CheckLease,
           RecordFailure, Crash, Restart, TypeOK
  <2>2. \/ rows'[p] = rows[p]
        \/ rows'[p] = NoRow
        \/ rows[p].status = "leased" /\ rows'[p] = Unlease(rows[p], "queued")
        \/ /\ rows[p].status \in Active
           /\ \E w \in Workers : LeasedTo(rows'[p], w, rows[p].attempts)
        \/ rows'[p].status \in Terminal
        \/ rows[p].status = "leased" /\ rows'[p] = [rows[p] EXCEPT !.lapsed = TRUE]
    BY <1>1, <1>4, <1>7 DEF RowStep, Active, Terminal, Rows
  <2>3. CASE rows[p].status \in Active /\ \E w \in Workers : LeasedTo(rows'[p], w, rows[p].attempts)
    BY <1>2, <1>3, <2>1, <2>3 DEF LeasedTo, Active
  <2>4. CASE rows[p].status = "leased" /\ rows'[p] = Unlease(rows[p], "queued")
    BY <1>2, <1>3, <1>4, <2>1, <2>4
  <2>5. CASE rows'[p] = rows[p] \/ rows'[p] = NoRow \/ rows'[p].status \in Terminal
    BY <1>2, <1>3, <2>1, <2>5 DEF NoRow, Terminal
  <2>6. CASE rows[p].status = "leased" /\ rows'[p] = [rows[p] EXCEPT !.lapsed = TRUE]
    BY <1>1, <1>2, <1>3, <2>1, <2>6 DEF Rows
  <2>. QED  BY <2>2, <2>3, <2>4, <2>5, <2>6
<1>. QED  BY <1>5, <1>6, <1>7

\* The invariant of part 4.
LEMMA FailInvariant ==
    ASSUME ~Stall
    PROVE  Spec => [](TypeOK /\ ChecksHold /\ FailuresCounted)
<1>1. Init => ChecksHold /\ FailuresCounted
  <2>. SUFFICES ASSUME Init PROVE ChecksHold /\ FailuresCounted
    OBVIOUS
  <2>1. ChecksHold
    BY DEF Init, ChecksHold
  <2>2. FailuresCounted
    BY QueueAssumption DEF Init, FailuresCounted, NewRow, NoRow
  <2>. QED  BY <2>1, <2>2
<1>2. TypeOK /\ ChecksHold /\ FailuresCounted /\ [Next]_vars
          => ChecksHold' /\ FailuresCounted'
  <2>1. ASSUME ChecksHold, FailuresCounted, UNCHANGED vars
        PROVE  ChecksHold' /\ FailuresCounted'
    BY <2>1 DEF ChecksHold, FailuresCounted, Owns, vars, counters
  <2>. QED  BY <2>1, ChecksHoldStep, FailuresCountedStep
<1>. QED  BY <1>1, <1>2, QueueTypeCorrect, PTL DEF Spec

\* A job fails at most MaxAttempts times, however many leases expire.
THEOREM FailuresBounded ==
    ASSUME ~Stall
    PROVE  Spec => []RetriesBounded
<1>1. FailuresCounted => RetriesBounded
  BY DEF FailuresCounted, RetriesBounded, Active
<1>. QED  BY <1>1, FailInvariant, PTL

\* For the retention period the outcome of a job does not change.
THEOREM OutcomeStays ==
    ASSUME ~Stall
    PROVE  Spec => SettledStays
<1>1. ASSUME TypeOK, ChecksHold, Next, NEW p \in Packets,
             rows[p].status \in Terminal, ~rows[p].aged
      PROVE  rows'[p].status = rows[p].status
  <2>1. RowStep(p) /\ RowOK(rows[p])
    BY <1>1, EveryRowStep, TypeParts DEF TableOK
  <2>2. ASSUME NEW w \in Workers, job[w] = p, Owns(w) \/ RecordFailure(w)
        PROVE  FALSE
    BY <1>1, <2>2 DEF Owns, ChecksHold, RecordFailure, Terminal
  <2>. QED  BY <1>1, <2>1, <2>2 DEF RowStep, RowOK, Rows, Active, Terminal
<1>2. TypeOK /\ ChecksHold /\ [Next]_vars =>
        [\A p \in Packets : rows[p].status \in Terminal /\ ~rows[p].aged =>
            rows'[p].status = rows[p].status]_vars
  BY <1>1
<1>. QED  BY <1>2, FailInvariant, PTL DEF Spec, SettledStays

(***************************************************************************)
(* Part 5: the admission limits on rows, provided the table was within     *)
(* them when it was opened.                                                *)
(***************************************************************************)

OldRowsWithinLimits ==
    /\ Cardinality(OldRows) <= Limits.totalJobs
    /\ \A p \in OldRows :
          /\ Cardinality({q \in OldRows : PrincipalOf[q] = PrincipalOf[p]}) <= Limits.principalJobs
          /\ Cardinality({q \in OldRows : ProjectOf[q] = ProjectOf[p]}) <= Limits.projectJobs

LEMMA StoredFinite ==
    ASSUME NEW table
    PROVE  /\ IsFiniteSet(Stored(table))
           /\ \A p : IsFiniteSet(SamePrincipal(table, p)) /\ IsFiniteSet(SameProject(table, p))
<1>1. \A S : S \subseteq Packets => IsFiniteSet(S)
  BY QueueAssumption, FS_Subset
<1>. QED  BY <1>1 DEF Stored, SamePrincipal, SameProject

\* Room for one more row is enough when the new set has at most that one more.
LEMMA RoomForOne ==
    ASSUME NEW old, IsFiniteSet(old), NEW p, NEW new, new \subseteq old \cup {p},
           NEW limit \in Nat, Cardinality(old) < limit
    PROVE  Cardinality(new) <= limit
<1>1. IsFiniteSet(old \cup {p}) /\ Cardinality(old \cup {p}) <= Cardinality(old) + 1
  BY FS_AddElement, FS_CardinalityType
<1>2. Cardinality(new) <= Cardinality(old \cup {p}) /\ Cardinality(new) \in Nat
  BY <1>1, FS_Subset, FS_CardinalityType
<1>3. Cardinality(old) \in Nat /\ Cardinality(old \cup {p}) \in Nat
  BY <1>1, FS_CardinalityType
<1>. QED  BY <1>1, <1>2, <1>3

LEMMA NoMoreRows ==
    ASSUME NEW old, IsFiniteSet(old), NEW new, new \subseteq old,
           NEW limit \in Nat, Cardinality(old) <= limit
    PROVE  Cardinality(new) <= limit
<1>1. Cardinality(new) <= Cardinality(old)
  BY FS_Subset
<1>2. Cardinality(old) \in Nat /\ Cardinality(new) \in Nat
  BY FS_Subset, FS_CardinalityType
<1>. QED  BY <1>1, <1>2

\* Only an enqueue adds a row.
LEMMA NoInsert ==
    ASSUME TypeOK, Next, ~\E p \in Packets : EnqueueNew(p)
    PROVE  Stored(rows') \subseteq Stored(rows)
<1>1. ASSUME NEW p \in Packets, rows[p].status = "absent"
      PROVE  rows'[p].status = "absent"
  <2>1. RowStep(p)
    BY EveryRowStep
  <2>2. ASSUME NEW w \in Workers, job[w] = p, Owns(w) PROVE FALSE
    BY <1>1, <2>2 DEF Owns
  <2>. QED  BY <1>1, <2>1, <2>2 DEF RowStep, Terminal
<1>. QED  BY <1>1 DEF Stored

LEMMA JobsStep ==
    ASSUME TypeOK, JobsWithinLimits, Next
    PROVE  JobsWithinLimits'
<1>0. /\ Limits.totalJobs \in Nat /\ Limits.principalJobs \in Nat
      /\ Limits.projectJobs \in Nat
  BY QueueAssumption DEF LimitNames
<1>1. CASE \E p \in Packets : EnqueueNew(p)
  <2>1. PICK p \in Packets : EnqueueNew(p)
    BY <1>1
  <2>. DEFINE table == Collected(rows)
  <2>2. /\ Cardinality(Stored(table)) < Limits.totalJobs
        /\ Cardinality(SamePrincipal(table, p)) < Limits.principalJobs
        /\ Cardinality(SameProject(table, p)) < Limits.projectJobs
        /\ rows' = [table EXCEPT ![p] = NewRow(inserted + 1, TRUE)]
    BY <2>1 DEF EnqueueNew, HasRoom
  <2>3. /\ Stored(table) \subseteq Stored(rows)
        /\ Stored(rows') \subseteq Stored(table) \cup {p}
    BY <2>2 DEF Stored, Collected, NoRow
  <2>. HIDE DEF table
  <2>4. Cardinality(Stored(rows')) <= Limits.totalJobs
    BY <1>0, <2>2, <2>3, StoredFinite, RoomForOne
  <2>5. ASSUME NEW q \in Stored(rows')
        PROVE  Cardinality(SamePrincipal(rows', q)) <= Limits.principalJobs
    <3>1. CASE PrincipalOf[q] = PrincipalOf[p]
      <4>1. SamePrincipal(rows', q) \subseteq SamePrincipal(table, p) \cup {p}
        BY <2>3, <3>1 DEF SamePrincipal
      <4>. QED  BY <1>0, <2>2, <4>1, StoredFinite, RoomForOne
    <3>2. CASE PrincipalOf[q] # PrincipalOf[p]
      <4>1. q \in Stored(rows) /\ SamePrincipal(rows', q) \subseteq SamePrincipal(rows, q)
        BY <2>3, <3>2 DEF SamePrincipal
      <4>2. Cardinality(SamePrincipal(rows, q)) <= Limits.principalJobs
        BY <4>1 DEF JobsWithinLimits
      <4>. QED  BY <1>0, <4>1, <4>2, StoredFinite, NoMoreRows
    <3>. QED  BY <3>1, <3>2
  <2>6. ASSUME NEW q \in Stored(rows')
        PROVE  Cardinality(SameProject(rows', q)) <= Limits.projectJobs
    <3>1. CASE ProjectOf[q] = ProjectOf[p]
      <4>1. SameProject(rows', q) \subseteq SameProject(table, p) \cup {p}
        BY <2>3, <3>1 DEF SameProject
      <4>. QED  BY <1>0, <2>2, <4>1, StoredFinite, RoomForOne
    <3>2. CASE ProjectOf[q] # ProjectOf[p]
      <4>1. q \in Stored(rows) /\ SameProject(rows', q) \subseteq SameProject(rows, q)
        BY <2>3, <3>2 DEF SameProject
      <4>2. Cardinality(SameProject(rows, q)) <= Limits.projectJobs
        BY <4>1 DEF JobsWithinLimits
      <4>. QED  BY <1>0, <4>1, <4>2, StoredFinite, NoMoreRows
    <3>. QED  BY <3>1, <3>2
  <2>. QED
    BY <2>4, <2>5, <2>6 DEF JobsWithinLimits, Stored, SamePrincipal, SameProject
<1>2. CASE ~\E p \in Packets : EnqueueNew(p)
  <2>2. Stored(rows') \subseteq Stored(rows)
    BY <1>2, NoInsert
  <2>3. Cardinality(Stored(rows')) <= Limits.totalJobs
    BY <1>0, <2>2, StoredFinite, NoMoreRows DEF JobsWithinLimits
  <2>4. ASSUME NEW q \in Stored(rows')
        PROVE  /\ Cardinality(SamePrincipal(rows', q)) <= Limits.principalJobs
               /\ Cardinality(SameProject(rows', q)) <= Limits.projectJobs
    <3>1. /\ SamePrincipal(rows', q) \subseteq SamePrincipal(rows, q)
          /\ SameProject(rows', q) \subseteq SameProject(rows, q)
      BY <2>2 DEF SamePrincipal, SameProject
    <3>2. /\ Cardinality(SamePrincipal(rows, q)) <= Limits.principalJobs
          /\ Cardinality(SameProject(rows, q)) <= Limits.projectJobs
      BY <2>2 DEF JobsWithinLimits
    <3>. QED  BY <1>0, <3>1, <3>2, StoredFinite, NoMoreRows
  <2>. QED
    BY <2>3, <2>4 DEF JobsWithinLimits, Stored, SamePrincipal, SameProject
<1>. QED  BY <1>1, <1>2

\* Admission keeps every principal, project and the table within its rows.
THEOREM AdmissionBounded ==
    ASSUME OldRowsWithinLimits
    PROVE  Spec => []JobsWithinLimits
<1>1. Init => JobsWithinLimits
  <2>. SUFFICES ASSUME Init PROVE JobsWithinLimits
    OBVIOUS
  <2>1. Stored(rows) = OldRows
    BY QueueAssumption DEF Init, Stored, NewRow, NoRow
  <2>. QED
    BY <2>1 DEF OldRowsWithinLimits, JobsWithinLimits, SamePrincipal, SameProject
<1>2. TypeOK /\ JobsWithinLimits /\ [Next]_vars => JobsWithinLimits'
  <2>1. ASSUME JobsWithinLimits, UNCHANGED vars PROVE JobsWithinLimits'
    BY <2>1 DEF JobsWithinLimits, vars, Stored, SamePrincipal, SameProject
  <2>. QED  BY <2>1, JobsStep
<1>. QED  BY <1>1, <1>2, QueueTypeCorrect, PTL DEF Spec

(***************************************************************************)
(* Part 6: the limits on bytes, under the same proviso.                    *)
(***************************************************************************)

OldBytesWithinLimits ==
    /\ Bytes(OldRows) <= Limits.totalBytes
    /\ \A p \in OldRows :
          /\ Bytes({q \in OldRows : PrincipalOf[q] = PrincipalOf[p]}) <= Limits.principalBytes
          /\ Bytes({q \in OldRows : ProjectOf[q] = ProjectOf[p]}) <= Limits.projectBytes

\* Finitely many packets have finitely many bytes.
LEMMA BytesFinite ==
    ASSUME NEW packets, packets \subseteq Packets
    PROVE  IsFiniteSet(BytesIn(packets))
<1>. DEFINE Of == [q \in packets |-> {q} \X (1..BytesOf[q])]
            Parts == {{q} \X (1..BytesOf[q]) : q \in packets}
<1>1. IsFiniteSet(packets)
  BY FS_Subset, QueueAssumption
<1>2. Of \in Surjection(packets, Parts)
  <2>1. Of \in [packets -> Parts]
    OBVIOUS
  <2>2. ASSUME NEW part \in Parts PROVE \E q \in packets : Of[q] = part
    <3>1. PICK q \in packets : part = {q} \X (1..BytesOf[q])
      BY <2>2
    <3>2. Of[q] = part
      BY <3>1
    <3>. QED  BY <3>2
  <2>. HIDE DEF Of, Parts
  <2>. QED  BY <2>1, <2>2 DEF Surjection
<1>3. IsFiniteSet(Parts)
  <2>. HIDE DEF Of, Parts
  <2>. QED  BY <1>1, <1>2, FS_Surjection
<1>4. ASSUME NEW q \in packets PROVE IsFiniteSet({q} \X (1..BytesOf[q]))
  <2>1. BytesOf[q] \in Nat
    BY QueueAssumption
  <2>2. IsFiniteSet(1..BytesOf[q])
    BY <2>1, FS_Interval
  <2>3. IsFiniteSet({q})
    BY FS_Singleton
  <2>. QED  BY <2>2, <2>3, FS_Product
<1>5. \A part \in Parts : IsFiniteSet(part)
  BY <1>4
<1>6. IsFiniteSet(UNION Parts)
  BY <1>3, <1>5, FS_UNION
<1>. QED  BY <1>6 DEF BytesIn

LEMMA BytesOfOne ==
    ASSUME NEW p \in Packets
    PROVE  /\ IsFiniteSet({p} \X (1..BytesOf[p]))
           /\ Cardinality({p} \X (1..BytesOf[p])) = BytesOf[p]
<1>1. BytesOf[p] \in Nat
  BY QueueAssumption
<1>2. IsFiniteSet(1..BytesOf[p]) /\ Cardinality(1..BytesOf[p]) = BytesOf[p]
  BY <1>1, FS_Interval
<1>3. IsFiniteSet({p}) /\ Cardinality({p}) = 1
  BY FS_Singleton
<1>4. /\ IsFiniteSet({p} \X (1..BytesOf[p]))
      /\ Cardinality({p} \X (1..BytesOf[p])) = 1 * BytesOf[p]
  BY <1>2, <1>3, FS_Product
<1>. QED  BY <1>1, <1>4

\* Room for the bytes of one more packet, when the new set has at most that one more.
LEMMA BytesForOne ==
    ASSUME NEW old, old \subseteq Packets, NEW p \in Packets,
           NEW new, new \subseteq old \cup {p},
           NEW limit \in Nat, Bytes(old) + BytesOf[p] <= limit
    PROVE  Bytes(new) <= limit
<1>. DEFINE more == {p} \X (1..BytesOf[p])
            all == BytesIn(old) \cup more
<1>1. IsFiniteSet(BytesIn(old)) /\ IsFiniteSet(more) /\ Cardinality(more) = BytesOf[p]
  BY BytesFinite, BytesOfOne
<1>2. BytesIn(new) \subseteq all
  BY DEF BytesIn
<1>. HIDE DEF more
<1>3. /\ IsFiniteSet(all)
      /\ Cardinality(all) =
            Cardinality(BytesIn(old)) + Cardinality(more) - Cardinality(BytesIn(old) \cap more)
  BY <1>1, FS_Union
<1>4. /\ Cardinality(BytesIn(old)) \in Nat /\ Cardinality(more) \in Nat
      /\ Cardinality(BytesIn(old) \cap more) \in Nat
  BY <1>1, FS_CardinalityType, FS_Intersection
<1>5. /\ Cardinality(BytesIn(new)) <= Cardinality(all)
      /\ Cardinality(BytesIn(new)) \in Nat /\ Cardinality(all) \in Nat
  BY <1>2, <1>3, FS_Subset, FS_CardinalityType
<1>. HIDE DEF all
<1>. QED  BY <1>1, <1>3, <1>4, <1>5 DEF Bytes

LEMMA NoMoreBytes ==
    ASSUME NEW old, old \subseteq Packets, NEW new, new \subseteq old,
           NEW limit \in Nat, Bytes(old) <= limit
    PROVE  Bytes(new) <= limit
<1>1. BytesIn(new) \subseteq BytesIn(old) /\ IsFiniteSet(BytesIn(old))
  BY BytesFinite DEF BytesIn
<1>2. /\ Cardinality(BytesIn(new)) <= Cardinality(BytesIn(old))
      /\ Cardinality(BytesIn(new)) \in Nat /\ Cardinality(BytesIn(old)) \in Nat
  BY <1>1, FS_Subset, FS_CardinalityType
<1>. QED  BY <1>2 DEF Bytes

LEMMA BytesStep ==
    ASSUME TypeOK, BytesWithinLimits, Next
    PROVE  BytesWithinLimits'
<1>0. /\ Limits.totalBytes \in Nat /\ Limits.principalBytes \in Nat
      /\ Limits.projectBytes \in Nat
      /\ \A table, p : /\ Stored(table) \subseteq Packets
                       /\ SamePrincipal(table, p) \subseteq Packets
                       /\ SameProject(table, p) \subseteq Packets
  BY QueueAssumption DEF LimitNames, Stored, SamePrincipal, SameProject
<1>1. CASE \E p \in Packets : EnqueueNew(p)
  <2>1. PICK p \in Packets : EnqueueNew(p)
    BY <1>1
  <2>. DEFINE table == Collected(rows)
  <2>2. /\ Bytes(Stored(table)) + BytesOf[p] <= Limits.totalBytes
        /\ Bytes(SamePrincipal(table, p)) + BytesOf[p] <= Limits.principalBytes
        /\ Bytes(SameProject(table, p)) + BytesOf[p] <= Limits.projectBytes
        /\ rows' = [table EXCEPT ![p] = NewRow(inserted + 1, TRUE)]
    BY <2>1 DEF EnqueueNew, HasRoom
  <2>3. /\ Stored(table) \subseteq Stored(rows)
        /\ Stored(rows') \subseteq Stored(table) \cup {p}
    BY <2>2 DEF Stored, Collected, NoRow
  <2>. HIDE DEF table
  <2>4. Bytes(Stored(rows')) <= Limits.totalBytes
    BY <1>0, <2>2, <2>3, BytesForOne
  <2>5. ASSUME NEW q \in Stored(rows')
        PROVE  Bytes(SamePrincipal(rows', q)) <= Limits.principalBytes
    <3>1. CASE PrincipalOf[q] = PrincipalOf[p]
      <4>1. SamePrincipal(rows', q) \subseteq SamePrincipal(table, p) \cup {p}
        BY <2>3, <3>1 DEF SamePrincipal
      <4>. QED  BY <1>0, <2>2, <4>1, BytesForOne
    <3>2. CASE PrincipalOf[q] # PrincipalOf[p]
      <4>1. q \in Stored(rows) /\ SamePrincipal(rows', q) \subseteq SamePrincipal(rows, q)
        BY <2>3, <3>2 DEF SamePrincipal
      <4>2. Bytes(SamePrincipal(rows, q)) <= Limits.principalBytes
        BY <4>1 DEF BytesWithinLimits
      <4>. QED  BY <1>0, <4>1, <4>2, NoMoreBytes
    <3>. QED  BY <3>1, <3>2
  <2>6. ASSUME NEW q \in Stored(rows')
        PROVE  Bytes(SameProject(rows', q)) <= Limits.projectBytes
    <3>1. CASE ProjectOf[q] = ProjectOf[p]
      <4>1. SameProject(rows', q) \subseteq SameProject(table, p) \cup {p}
        BY <2>3, <3>1 DEF SameProject
      <4>. QED  BY <1>0, <2>2, <4>1, BytesForOne
    <3>2. CASE ProjectOf[q] # ProjectOf[p]
      <4>1. q \in Stored(rows) /\ SameProject(rows', q) \subseteq SameProject(rows, q)
        BY <2>3, <3>2 DEF SameProject
      <4>2. Bytes(SameProject(rows, q)) <= Limits.projectBytes
        BY <4>1 DEF BytesWithinLimits
      <4>. QED  BY <1>0, <4>1, <4>2, NoMoreBytes
    <3>. QED  BY <3>1, <3>2
  <2>. QED
    BY <2>4, <2>5, <2>6 DEF BytesWithinLimits, Stored, SamePrincipal, SameProject
<1>2. CASE ~\E p \in Packets : EnqueueNew(p)
  <2>1. Stored(rows') \subseteq Stored(rows)
    BY <1>2, NoInsert
  <2>2. Bytes(Stored(rows')) <= Limits.totalBytes
    BY <1>0, <2>1, NoMoreBytes DEF BytesWithinLimits
  <2>3. ASSUME NEW q \in Stored(rows')
        PROVE  /\ Bytes(SamePrincipal(rows', q)) <= Limits.principalBytes
               /\ Bytes(SameProject(rows', q)) <= Limits.projectBytes
    <3>1. /\ SamePrincipal(rows', q) \subseteq SamePrincipal(rows, q)
          /\ SameProject(rows', q) \subseteq SameProject(rows, q)
      BY <2>1 DEF SamePrincipal, SameProject
    <3>2. /\ Bytes(SamePrincipal(rows, q)) <= Limits.principalBytes
          /\ Bytes(SameProject(rows, q)) <= Limits.projectBytes
      BY <2>1 DEF BytesWithinLimits
    <3>. QED  BY <1>0, <3>1, <3>2, NoMoreBytes
  <2>. QED
    BY <2>2, <2>3 DEF BytesWithinLimits, Stored, SamePrincipal, SameProject
<1>. QED  BY <1>1, <1>2

\* Admission keeps every principal, project and the table within its bytes.
THEOREM BytesBounded ==
    ASSUME OldBytesWithinLimits
    PROVE  Spec => []BytesWithinLimits
<1>1. Init => BytesWithinLimits
  <2>. SUFFICES ASSUME Init PROVE BytesWithinLimits
    OBVIOUS
  <2>1. Stored(rows) = OldRows
    BY QueueAssumption DEF Init, Stored, NewRow, NoRow
  <2>. QED
    BY <2>1 DEF OldBytesWithinLimits, BytesWithinLimits, SamePrincipal, SameProject
<1>2. TypeOK /\ BytesWithinLimits /\ [Next]_vars => BytesWithinLimits'
  <2>1. ASSUME BytesWithinLimits, UNCHANGED vars PROVE BytesWithinLimits'
    BY <2>1 DEF BytesWithinLimits, vars, Stored, SamePrincipal, SameProject
  <2>. QED  BY <2>1, BytesStep
<1>. QED  BY <1>1, <1>2, QueueTypeCorrect, PTL DEF Spec
=============================================================================
