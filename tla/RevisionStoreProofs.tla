------------------------- MODULE RevisionStoreProofs -------------------------
(***************************************************************************)
(* Proofs about RevisionStore for any number of writers, records, batches  *)
(* and crashes.  The first part needs nothing about locks: whatever        *)
(* overlap broken locks allow, the pointer names a complete snapshot and   *)
(* no committed snapshot is lost.  The second part assumes that no lock    *)
(* grows old and shows that publications are then atomic.                  *)
(***************************************************************************)
EXTENDS RevisionStore, SequenceTheorems, TLAPS

(***************************************************************************)
(* Part 1: the invariant that holds under every Aging.                     *)
(***************************************************************************)

\* Inside publishUnlocked, between the pointer read and its outcome.
Working == {"staging", "staged", "published", "committed"}

\* What has been committed is still there, and is all the pointer can name.
Retained ==
    /\ committed \subseteq DOMAIN snapshots
    /\ pointer \in {<<>>} \cup committed

\* A renamed directory whose pointer is not switched yet belongs to one writer.
OwnsPublished ==
    /\ \A w \in Writers : pc[w] = "published" =>
           Target(w) \in DOMAIN snapshots /\ Target(w) \notin committed
    /\ \A v, w \in Writers :
           pc[v] = "published" /\ pc[w] = "published" /\ Target(v) = Target(w) => v = w

\* A base is a pointer value, and what is staged was made from it.
StagedFromBase ==
    /\ \A w \in Writers : pc[w] \in Working => base[w] \in {<<>>} \cup committed
    /\ \A w \in Writers : pc[w] = "staged" =>
           staged[w] = Apply(ContentOf(base[w]), request[w].batch)

StoreInv == TypeOK /\ Retained /\ OwnsPublished /\ StagedFromBase /\ SnapshotsReplayHistory

-----------------------------------------------------------------------------
LEMMA NoRequestType == NoRequest \in Requests
<1>1. \E b \in Batches : TRUE
  BY ConstantsAssumption
<1>2. (CHOOSE b \in Batches : TRUE) \in Batches
  BY <1>1
<1>3. <<>> \in Seq(Batches)
  OBVIOUS
<1>. QED  BY <1>2, <1>3 DEF NoRequest, Requests, Revision

\* A batch applied to a snapshot is a snapshot.
LEMMA ApplyType ==
    ASSUME NEW c \in Content, NEW b \in Batches
    PROVE  Apply(c, b) \in Content
<1>1. PICK S \in SUBSET Records : b \in [S -> Values]
  BY ConstantsAssumption
<1>2. ASSUME NEW r \in Records
      PROVE  (IF r \in DOMAIN b THEN b[r] ELSE c[r]) \in Values \cup {Absent}
  BY <1>1 DEF Content
<1>. QED  BY <1>2 DEF Apply, Content

\* The parent of a new revision is its base, and its last batch the one asked for.
LEMMA TargetParts ==
    ASSUME NEW p \in Revision, NEW b \in Batches
    PROVE  /\ Append(p, b) \in Revision
           /\ Append(p, b) # <<>>
           /\ SubSeq(Append(p, b), 1, Len(Append(p, b)) - 1) = p
           /\ Append(p, b)[Len(Append(p, b))] = b
BY SMT DEF Revision

-----------------------------------------------------------------------------
\* Every action keeps the types, given that what a writer works on is retained.
LEMMA TypesStep ==
    ASSUME StoreInv, [Next]_vars
    PROVE  TypeOK'
<1>. USE NoRequestType, ConstantsAssumption
     DEF StoreInv, TypeOK, Phases, fsVars, history, GoTo, Forget
<1>1. ASSUME NEW w \in Writers, Request(w) PROVE TypeOK'
  <2>1. PICK b \in Batches, cas \in BOOLEAN :
          request' = [request EXCEPT ![w] =
              [batch |-> b, cas |-> cas, expected |-> IF cas THEN pointer ELSE <<>>]]
    BY <1>1 DEF Request
  <2>2. [batch |-> b, cas |-> cas, expected |-> IF cas THEN pointer ELSE <<>>] \in Requests
    BY DEF Requests, Revision
  <2>3. request' \in [Writers -> Requests]
    BY <2>1, <2>2
  <2>. QED  BY <1>1, <2>3 DEF Request
<1>2. ASSUME NEW w \in Writers, AcquireLock(w) PROVE TypeOK'
  BY <1>2 DEF AcquireLock
<1>3. ASSUME NEW w \in Writers, SeeStaleLock(w) PROVE TypeOK'
  BY <1>3 DEF SeeStaleLock
<1>4. ASSUME NEW w \in Writers, RemoveStaleLock(w) PROVE TypeOK'
  BY <1>4 DEF RemoveStaleLock
<1>5. ASSUME NEW w \in Writers, TimeOut(w) PROVE TypeOK'
  BY <1>5 DEF TimeOut, Revision
<1>6. ASSUME NEW w \in Writers, ReleaseLock(w) PROVE TypeOK'
  <2>1. Target(w) \in Revision
    BY DEF Target, Requests, Revision
  <2>. QED  BY <1>6, <2>1 DEF ReleaseLock, Revision
<1>7. ASSUME NEW w \in Writers, ReadBase(w) PROVE TypeOK'
  BY <1>7 DEF ReadBase, Leave
<1>8. ASSUME NEW w \in Writers, Stage(w) PROVE TypeOK'
  <2>1. base[w] \in {<<>>} \cup committed
    BY <1>8 DEF Stage, StagedFromBase, Working
  <2>2. ContentOf(base[w]) \in Content
    BY <2>1 DEF ContentOf, Retained
  <2>3. Apply(ContentOf(base[w]), request[w].batch) \in Content
    BY <2>2, ApplyType DEF Requests
  <2>. QED  BY <1>8, <2>3 DEF Stage
<1>9. ASSUME NEW w \in Writers, PublishDirectory(w) PROVE TypeOK'
  <2>1. Target(w) \in Revision
    BY DEF Target, Requests, Revision
  <2>. QED  BY <1>9, <2>1 DEF PublishDirectory, Leave
<1>10. ASSUME NEW w \in Writers, SwitchPointer(w) PROVE TypeOK'
  BY <1>10 DEF SwitchPointer, OwnsPublished
<1>11. ASSUME NEW w \in Writers, Complete(w) PROVE TypeOK'
  BY <1>11 DEF Complete, Leave
<1>12. ASSUME NEW w \in Writers, FailPublish(w) PROVE TypeOK'
  <2>1. pointer \in {<<>>} \cup DOMAIN snapshots'
    BY <1>12 DEF FailPublish, RemovesUncommitted, OwnsPublished, Retained
  <2>. QED  BY <1>12, <2>1 DEF FailPublish, Leave
<1>13. ASSUME NEW w \in Writers, Crash(w) PROVE TypeOK'
  BY <1>13 DEF Crash, Revision
<1>14. CASE AgeLock
  BY <1>14 DEF AgeLock
<1>15. CASE UNCHANGED vars
  BY <1>15 DEF vars
<1>. QED
  BY <1>1, <1>2, <1>3, <1>4, <1>5, <1>6, <1>7, <1>8, <1>9, <1>10, <1>11, <1>12,
     <1>13, <1>14, <1>15 DEF Next, Proceed

\* What one step may do to the fields the other conjuncts speak of.
LEMMA RetainedStep ==
    ASSUME StoreInv, [Next]_vars
    PROVE  Retained'
<1>. USE DEF StoreInv, TypeOK, fsVars, history, GoTo, Forget, Leave, Retained
<1>1. ASSUME NEW w \in Writers, PublishDirectory(w) PROVE Retained'
  BY <1>1 DEF PublishDirectory
<1>2. ASSUME NEW w \in Writers, SwitchPointer(w) PROVE Retained'
  BY <1>2 DEF SwitchPointer, OwnsPublished
<1>3. ASSUME NEW w \in Writers, FailPublish(w) PROVE Retained'
  BY <1>3 DEF FailPublish, RemovesUncommitted, OwnsPublished
<1>4. ASSUME NEW w \in Writers,
             \/ Request(w) \/ AcquireLock(w) \/ SeeStaleLock(w) \/ RemoveStaleLock(w)
             \/ TimeOut(w) \/ ReadBase(w) \/ Stage(w) \/ Complete(w)
             \/ ReleaseLock(w) \/ Crash(w)
      PROVE  Retained'
  BY <1>4 DEF Request, AcquireLock, SeeStaleLock, RemoveStaleLock, TimeOut, ReadBase,
              Stage, Complete, ReleaseLock, Crash
<1>5. CASE AgeLock
  BY <1>5 DEF AgeLock
<1>6. CASE UNCHANGED vars
  BY <1>6 DEF vars
<1>. QED  BY <1>1, <1>2, <1>3, <1>4, <1>5, <1>6 DEF Next, Proceed

LEMMA OwnsPublishedStep ==
    ASSUME StoreInv, [Next]_vars
    PROVE  OwnsPublished'
<1>. USE DEF StoreInv, TypeOK, fsVars, history, GoTo, Forget, Leave, OwnsPublished, Target
<1>1. ASSUME NEW w \in Writers, PublishDirectory(w) PROVE OwnsPublished'
  <2>1. CASE Target(w) \in DOMAIN snapshots
    BY <1>1, <2>1 DEF PublishDirectory
  <2>2. CASE Target(w) \notin DOMAIN snapshots
    <3>1. Target(w) \notin committed
      BY <2>2 DEF Retained
    <3>2. \A v \in Writers : pc[v] = "published" => Target(v) # Target(w)
      BY <2>2
    <3>3. /\ DOMAIN snapshots' = DOMAIN snapshots \cup {Target(w)}
          /\ UNCHANGED <<base, request, committed>>
          /\ pc' = [pc EXCEPT ![w] = "published"]
      BY <1>1, <2>2 DEF PublishDirectory
    <3>4. \A v \in Writers : pc'[v] = "published" <=> pc[v] = "published" \/ v = w
      BY <3>3
    <3>5. \A v \in Writers : Target(v)' = Target(v)
      BY <3>3
    <3>. QED  BY <3>1, <3>2, <3>3, <3>4, <3>5 DEF OwnsPublished
  <2>. QED  BY <2>1, <2>2
<1>2. ASSUME NEW w \in Writers, SwitchPointer(w) PROVE OwnsPublished'
  BY <1>2 DEF SwitchPointer
<1>3. ASSUME NEW w \in Writers, FailPublish(w) PROVE OwnsPublished'
  BY <1>3 DEF FailPublish, RemovesUncommitted
<1>4. ASSUME NEW w \in Writers,
             \/ Request(w) \/ AcquireLock(w) \/ SeeStaleLock(w) \/ RemoveStaleLock(w)
             \/ TimeOut(w) \/ ReadBase(w) \/ Stage(w) \/ Complete(w)
             \/ ReleaseLock(w) \/ Crash(w)
      PROVE  OwnsPublished'
  <2>1. \A v \in Writers : pc'[v] = "published" => pc[v] = "published"
    BY <1>4 DEF Request, AcquireLock, SeeStaleLock, RemoveStaleLock, TimeOut, ReadBase,
                Stage, Complete, ReleaseLock, Crash
  <2>2. \A v \in Writers : pc'[v] = "published" =>
            base'[v] = base[v] /\ request'[v] = request[v]
    BY <1>4 DEF Request, AcquireLock, SeeStaleLock, RemoveStaleLock, TimeOut, ReadBase,
                Stage, Complete, ReleaseLock, Crash
  <2>3. UNCHANGED <<snapshots, committed>>
    BY <1>4 DEF Request, AcquireLock, SeeStaleLock, RemoveStaleLock, TimeOut, ReadBase,
                Stage, Complete, ReleaseLock, Crash
  <2>. QED  BY <2>1, <2>2, <2>3
<1>5. CASE AgeLock
  BY <1>5 DEF AgeLock
<1>6. CASE UNCHANGED vars
  BY <1>6 DEF vars
<1>. QED  BY <1>1, <1>2, <1>3, <1>4, <1>5, <1>6 DEF Next, Proceed

LEMMA CommittedContent ==
    ASSUME StoreInv, [Next]_vars
    PROVE  /\ committed \subseteq committed'
           /\ \A r \in committed : r \in DOMAIN snapshots' /\ snapshots'[r] = snapshots[r]
<1>. USE DEF StoreInv, TypeOK, fsVars, history, GoTo, Forget, Leave
<1>1. ASSUME NEW w \in Writers, PublishDirectory(w)
      PROVE  /\ committed \subseteq committed'
             /\ \A r \in committed :
                    r \in DOMAIN snapshots' /\ snapshots'[r] = snapshots[r]
  BY <1>1 DEF PublishDirectory, Retained
<1>2. ASSUME NEW w \in Writers, SwitchPointer(w)
      PROVE  /\ committed \subseteq committed'
             /\ \A r \in committed :
                    r \in DOMAIN snapshots' /\ snapshots'[r] = snapshots[r]
  BY <1>2 DEF SwitchPointer, Retained
<1>3. ASSUME NEW w \in Writers, FailPublish(w)
      PROVE  /\ committed \subseteq committed'
             /\ \A r \in committed :
                    r \in DOMAIN snapshots' /\ snapshots'[r] = snapshots[r]
  BY <1>3 DEF FailPublish, RemovesUncommitted, OwnsPublished, Retained
<1>4. ASSUME \/ \E w \in Writers :
                   \/ Request(w) \/ AcquireLock(w) \/ SeeStaleLock(w)
                   \/ RemoveStaleLock(w) \/ TimeOut(w) \/ ReadBase(w) \/ Stage(w)
                   \/ Complete(w) \/ ReleaseLock(w) \/ Crash(w)
             \/ AgeLock
             \/ UNCHANGED vars
      PROVE  UNCHANGED <<snapshots, committed>>
  BY <1>4 DEF Request, AcquireLock, SeeStaleLock, RemoveStaleLock, TimeOut, ReadBase,
              Stage, Complete, ReleaseLock, Crash, AgeLock, vars
<1>. QED  BY <1>1, <1>2, <1>3, <1>4 DEF Next, Proceed, Retained

LEMMA StagedFromBaseStep ==
    ASSUME StoreInv, [Next]_vars
    PROVE  StagedFromBase'
<1>. USE DEF StoreInv, TypeOK, fsVars, history, GoTo, Forget, Leave, StagedFromBase, Working
<1>1. ASSUME NEW r \in {<<>>} \cup committed
      PROVE  /\ r \in {<<>>} \cup committed'
             /\ ContentOf(r)' = ContentOf(r)
  BY CommittedContent DEF ContentOf
<1>2. ASSUME NEW w \in Writers, ReadBase(w) PROVE StagedFromBase'
  BY <1>2, <1>1 DEF ReadBase, Retained
<1>3. ASSUME NEW w \in Writers, Stage(w) PROVE StagedFromBase'
  <2>1. base[w] \in {<<>>} \cup committed
    BY <1>3 DEF Stage
  <2>2. \A v \in Writers \ {w} : pc'[v] = pc[v] /\ staged'[v] = staged[v]
    BY <1>3 DEF Stage
  <2>3. UNCHANGED <<base, request, snapshots, committed>>
    BY <1>3 DEF Stage
  <2>4. pc'[w] = "staged" /\ staged'[w] = Apply(ContentOf(base[w]), request[w].batch)
    BY <1>3 DEF Stage
  <2>5. \A v \in Writers : ContentOf(base[v])' = ContentOf(base[v])
    BY <2>3 DEF ContentOf
  <2>. QED  BY <2>1, <2>2, <2>3, <2>4, <2>5 DEF Apply
<1>4. ASSUME NEW w \in Writers,
             \/ PublishDirectory(w) \/ SwitchPointer(w) \/ FailPublish(w)
             \/ Request(w) \/ AcquireLock(w) \/ SeeStaleLock(w) \/ RemoveStaleLock(w)
             \/ TimeOut(w) \/ Complete(w) \/ ReleaseLock(w) \/ Crash(w)
      PROVE  StagedFromBase'
  <2>1. \A v \in Writers : pc'[v] \in Working =>
            /\ pc[v] \in Working
            /\ base'[v] = base[v]
            /\ request'[v] = request[v]
            /\ staged'[v] = staged[v]
            /\ pc'[v] = "staged" => pc[v] = "staged"
    BY <1>4 DEF PublishDirectory, SwitchPointer, FailPublish, Request, AcquireLock,
                SeeStaleLock, RemoveStaleLock, TimeOut, Complete, ReleaseLock, Crash
  <2>. QED  BY <2>1, <1>1 DEF Apply
<1>5. CASE AgeLock \/ UNCHANGED vars
  <2>1. UNCHANGED <<pc, base, request, staged>>
    BY <1>5 DEF AgeLock, vars
  <2>. QED  BY <2>1, <1>1 DEF Apply
<1>. QED  BY <1>2, <1>3, <1>4, <1>5 DEF Next, Proceed

\* A batch applied to the replay of a history is the replay of the longer one.
LEMMA ReplayExtends ==
    ASSUME NEW p \in Revision, NEW b \in Batches, NEW c, IsReplayOf(c, p)
    PROVE  IsReplayOf(Apply(c, b), Append(p, b))
<1>. DEFINE q == Append(p, b)
            n == Len(p) + 1
<1>1. /\ Len(q) = n
      /\ Len(p) \in Nat
      /\ q[n] = b
      /\ \A i \in 1 .. Len(p) : q[i] = p[i]
  BY DEF Revision
<1>. HIDE DEF q
<1>2. ASSUME NEW x \in Records, NEW i \in 1 .. Len(q), x \in DOMAIN q[i],
             \A j \in i + 1 .. Len(q) : x \notin DOMAIN q[j]
      PROVE  Apply(c, b)[x] = q[i][x]
  <2>1. CASE i = n
    BY <2>1, <1>1, <1>2 DEF Apply
  <2>2. CASE i # n
    <3>1. i \in 1 .. Len(p)
      BY <2>2, <1>1, <1>2
    <3>2. n \in i + 1 .. Len(q)
      BY <3>1, <1>1
    <3>3. Apply(c, b)[x] = c[x]
      BY <3>2, <1>1, <1>2 DEF Apply
    <3>4. \A j \in i + 1 .. Len(p) : x \notin DOMAIN p[j]
      BY <3>1, <1>1, <1>2
    <3>5. x \in DOMAIN p[i] /\ q[i] = p[i]
      BY <3>1, <1>1, <1>2
    <3>. QED  BY <3>1, <3>3, <3>4, <3>5 DEF IsReplayOf
  <2>. QED  BY <2>1, <2>2
<1>3. ASSUME NEW x \in Records, \A i \in 1 .. Len(q) : x \notin DOMAIN q[i]
      PROVE  Apply(c, b)[x] = Legacy[x]
  <2>1. x \notin DOMAIN b /\ \A i \in 1 .. Len(p) : x \notin DOMAIN p[i]
    BY <1>1, <1>3
  <2>. QED  BY <2>1 DEF Apply, IsReplayOf
<1>4. IsReplayOf(Apply(c, b), q)
  BY <1>2, <1>3 DEF IsReplayOf
<1>. QED  BY <1>4 DEF q

LEMMA ReplayStep ==
    ASSUME StoreInv, [Next]_vars
    PROVE  SnapshotsReplayHistory'
<1>. DEFINE Parent(r) == SubSeq(r, 1, Len(r) - 1)
            Replays(r) == /\ r # <<>>
                          /\ Parent(r) \in {<<>>} \cup committed
                          /\ IsReplayOf(snapshots[r], r)
<1>1. \A r \in {<<>>} \cup committed :
          /\ r \in {<<>>} \cup committed'
          /\ IsReplayOf(ContentOf(r), r)
  <2>1. IsReplayOf(Legacy, <<>>)
    BY DEF IsReplayOf
  <2>. QED  BY <2>1, CommittedContent
            DEF ContentOf, StoreInv, Retained, SnapshotsReplayHistory
<1>2. ASSUME NEW r \in DOMAIN snapshots, snapshots'[r] = snapshots[r]
      PROVE  Replays(r)'
  <2>1. Replays(r)
    BY DEF StoreInv, SnapshotsReplayHistory
  <2>2. IsReplayOf(snapshots'[r], r)
    BY <2>1, <1>2
  <2>. QED  BY <2>1, <2>2, <1>1 DEF IsReplayOf
<1>3. ASSUME NEW w \in Writers, NEW r, r = Target(w),
             PublishDirectory(w), r \notin DOMAIN snapshots
      PROVE  Replays(r)'
  <2>1. pc[w] = "staged" /\ snapshots'[r] = staged[w]
    BY <1>3 DEF PublishDirectory
  <2>2. /\ base[w] \in {<<>>} \cup committed
        /\ staged[w] = Apply(ContentOf(base[w]), request[w].batch)
    BY <2>1 DEF StoreInv, StagedFromBase, Working
  <2>3. base[w] \in Revision /\ request[w].batch \in Batches
    BY DEF StoreInv, TypeOK, Requests
  <2>4. /\ r # <<>>
        /\ Parent(r) = base[w]
    BY <2>3, <1>3, TargetParts DEF Target
  <2>5. IsReplayOf(ContentOf(base[w]), base[w])
    BY <2>2, <1>1
  <2>6. IsReplayOf(snapshots'[r], r)
    BY <2>1, <2>2, <2>3, <2>5, <1>3, ReplayExtends DEF Target
  <2>. QED  BY <2>2, <2>4, <2>6, <1>1 DEF IsReplayOf
<1>4. ASSUME NEW r \in DOMAIN snapshots'
      PROVE  Replays(r)'
  <2>1. CASE r \in DOMAIN snapshots /\ snapshots'[r] = snapshots[r]
    BY <2>1, <1>2
  <2>2. CASE \E w \in Writers : PublishDirectory(w) /\ r = Target(w)
                               /\ r \notin DOMAIN snapshots
    BY <2>2, <1>3
  <2>3. \/ r \in DOMAIN snapshots /\ snapshots'[r] = snapshots[r]
        \/ \E w \in Writers : PublishDirectory(w) /\ r = Target(w)
                             /\ r \notin DOMAIN snapshots
    BY DEF Next, Proceed, PublishDirectory, SwitchPointer, FailPublish, Request, AcquireLock,
           SeeStaleLock, RemoveStaleLock, TimeOut, Complete, ReleaseLock, Crash, ReadBase,
           Stage, AgeLock, vars, fsVars
  <2>. QED  BY <2>1, <2>2, <2>3
<1>. QED  BY <1>4 DEF SnapshotsReplayHistory, IsReplayOf

LEMMA StoreInvInit == Init => StoreInv
<1>. SUFFICES ASSUME Init PROVE StoreInv
  OBVIOUS
<1>. USE DEF Init
<1>1. TypeOK
  BY NoRequestType, ConstantsAssumption DEF TypeOK, Phases, Revision
<1>2. Retained /\ OwnsPublished /\ StagedFromBase /\ SnapshotsReplayHistory
  BY DEF Retained, OwnsPublished, StagedFromBase, Working, SnapshotsReplayHistory
<1>. QED  BY <1>1, <1>2 DEF StoreInv

\* StoreInv is inductive.
THEOREM StoreInvariant == Spec => []StoreInv
<1>1. StoreInv /\ [Next]_vars => StoreInv'
  BY TypesStep, RetainedStep, OwnsPublishedStep, StagedFromBaseStep, ReplayStep DEF StoreInv
<1>. QED  BY <1>1, StoreInvInit, PTL DEF Spec

\* The state of the store keeps its types and the pointer never names a
\* revision directory that is not there, whatever locks are broken.
THEOREM TypeCorrect == Spec => []TypeOK
<1>1. StoreInv => TypeOK
  BY DEF StoreInv
<1>. QED  BY <1>1, StoreInvariant, PTL

\* Every revision directory holds what its whole history of batches wrote,
\* whatever locks are broken and wherever writers crash.
THEOREM SnapshotsComplete == Spec => []SnapshotsReplayHistory
<1>1. StoreInv => SnapshotsReplayHistory
  BY DEF StoreInv
<1>. QED  BY <1>1, StoreInvariant, PTL

\* No step removes or changes a snapshot the pointer has named.
THEOREM CommittedNeverLost == Spec => CommittedImmutable
<1>1. StoreInv /\ [Next]_vars =>
          [\A r \in committed : r \in DOMAIN snapshots' /\ snapshots'[r] = snapshots[r]]_vars
  BY CommittedContent
<1>. QED  BY <1>1, StoreInvariant, PTL DEF Spec, CommittedImmutable

-----------------------------------------------------------------------------
(***************************************************************************)
(* Part 2: a lock that never grows old excludes.  The base a writer read   *)
(* is then still the pointer when it switches it.                          *)
(***************************************************************************)

\* Nobody breaks a lock, and a writer inside holds one.
LockHeld ==
    /\ lock \in {"absent", "fresh"}
    /\ \A w \in Writers : pc[w] # "breaking"
    /\ \A w \in Writers : pc[w] \in Inside => lock = "fresh"

\* The pointer has not moved since it was read and compared.
BaseCurrent ==
    \A w \in Writers : pc[w] \in {"staging", "staged", "published"} =>
        base[w] = pointer /\ (request[w].cas => request[w].expected = pointer)

\* publish() is about to return a pointer to its caller.
Acknowledges(w) ==
    \/ pc[w] = "committed"
    \/ pc[w] = "releasing" /\ result[w] = "ok"

\* The pointer still names what its writer is about to acknowledge.
TargetCurrent ==
    \A w \in Writers : Acknowledges(w) => Target(w) = pointer

ExclusiveInv ==
    LockHeld /\ SingleWriter /\ BaseCurrent /\ TargetCurrent /\ AckedInHistory

LEMMA LockHeldStep ==
    ASSUME Aging = "never", StoreInv, ExclusiveInv, [Next]_vars
    PROVE  LockHeld' /\ SingleWriter'
<1>. USE DEF StoreInv, TypeOK, ExclusiveInv, LockHeld, SingleWriter, Inside,
             fsVars, history, GoTo, Forget, Leave
<1>1. ASSUME NEW w \in Writers, AcquireLock(w) PROVE LockHeld' /\ SingleWriter'
  BY <1>1 DEF AcquireLock, LockIsFree
<1>2. ASSUME NEW w \in Writers, ReleaseLock(w) PROVE LockHeld' /\ SingleWriter'
  BY <1>2 DEF ReleaseLock
<1>3. ASSUME NEW w \in Writers, SeeStaleLock(w) PROVE FALSE
  BY <1>3 DEF SeeStaleLock, LockIsStale
<1>4. ASSUME NEW w \in Writers, RemoveStaleLock(w) PROVE FALSE
  BY <1>4 DEF RemoveStaleLock
<1>5. ASSUME NEW w \in Writers,
             \/ Request(w) \/ TimeOut(w) \/ ReadBase(w) \/ Stage(w)
             \/ PublishDirectory(w) \/ SwitchPointer(w) \/ Complete(w)
             \/ FailPublish(w) \/ Crash(w)
      PROVE  LockHeld' /\ SingleWriter'
  <2>1. /\ UNCHANGED lock
        /\ \A v \in Writers : pc'[v] \in Inside => pc[v] \in Inside
        /\ \A v \in Writers : pc'[v] # "breaking"
    BY <1>5 DEF Request, TimeOut, ReadBase, Stage, PublishDirectory, SwitchPointer,
                Complete, FailPublish, Crash
  <2>. QED  BY <2>1
<1>6. CASE AgeLock
  BY <1>6 DEF AgeLock
<1>7. CASE UNCHANGED vars
  BY <1>7 DEF vars
<1>. QED  BY <1>1, <1>2, <1>3, <1>4, <1>5, <1>6, <1>7 DEF Next, Proceed

LEMMA BaseCurrentStep ==
    ASSUME Aging = "never", StoreInv, ExclusiveInv, [Next]_vars
    PROVE  BaseCurrent'
<1>. USE DEF StoreInv, TypeOK, ExclusiveInv, BaseCurrent, fsVars, history, GoTo, Forget, Leave
<1>1. ASSUME NEW w \in Writers, ReadBase(w) PROVE BaseCurrent'
  BY <1>1 DEF ReadBase, BaseIsStale
<1>2. ASSUME NEW w \in Writers, SwitchPointer(w) PROVE BaseCurrent'
  <2>1. \A v \in Writers : pc'[v] \notin {"staging", "staged", "published"}
    BY <1>2 DEF SwitchPointer, SingleWriter, Inside
  <2>. QED  BY <2>1
<1>3. ASSUME NEW w \in Writers,
             \/ Request(w) \/ AcquireLock(w) \/ SeeStaleLock(w) \/ RemoveStaleLock(w)
             \/ TimeOut(w) \/ Stage(w) \/ PublishDirectory(w) \/ Complete(w)
             \/ FailPublish(w) \/ ReleaseLock(w) \/ Crash(w)
      PROVE  BaseCurrent'
  <2>1. /\ UNCHANGED pointer
        /\ \A v \in Writers : pc'[v] \in {"staging", "staged", "published"} =>
               /\ pc[v] \in {"staging", "staged", "published"}
               /\ base'[v] = base[v]
               /\ request'[v] = request[v]
    BY <1>3 DEF Request, AcquireLock, SeeStaleLock, RemoveStaleLock, TimeOut, Stage,
                PublishDirectory, Complete, FailPublish, ReleaseLock, Crash
  <2>. QED  BY <2>1
<1>4. CASE AgeLock
  BY <1>4 DEF AgeLock
<1>5. CASE UNCHANGED vars
  BY <1>5 DEF vars
<1>. QED  BY <1>1, <1>2, <1>3, <1>4, <1>5 DEF Next, Proceed

LEMMA TargetCurrentStep ==
    ASSUME Aging = "never", StoreInv, ExclusiveInv, [Next]_vars
    PROVE  TargetCurrent'
<1>. USE DEF StoreInv, TypeOK, ExclusiveInv, TargetCurrent, Target,
             Acknowledges, fsVars, history, GoTo, Forget, Leave
<1>1. ASSUME NEW w \in Writers, SwitchPointer(w) PROVE TargetCurrent'
  <2>1. \A v \in Writers \ {w} : pc'[v] \notin Inside
    BY <1>1 DEF SwitchPointer, SingleWriter, Inside
  <2>2. Append(base'[w], request'[w].batch) = pointer'
    BY <1>1 DEF SwitchPointer
  <2>3. ASSUME NEW v \in Writers, Acknowledges(v)'
        PROVE  Append(base'[v], request'[v].batch) = pointer'
    <3>1. v = w
      BY <2>1, <2>3 DEF Inside
    <3>. QED  BY <3>1, <2>2
  <2>. QED  BY <2>3
<1>2. ASSUME NEW w \in Writers,
             \/ Request(w) \/ AcquireLock(w) \/ SeeStaleLock(w) \/ RemoveStaleLock(w)
             \/ TimeOut(w) \/ ReadBase(w) \/ Stage(w) \/ PublishDirectory(w)
             \/ Complete(w) \/ FailPublish(w) \/ ReleaseLock(w) \/ Crash(w)
      PROVE  TargetCurrent'
  <2>1. /\ UNCHANGED pointer
        /\ \A v \in Writers :
               Acknowledges(v)' =>
                   /\ Acknowledges(v)
                   /\ base'[v] = base[v]
                   /\ request'[v] = request[v]
    BY <1>2 DEF Request, AcquireLock, SeeStaleLock, RemoveStaleLock, TimeOut, ReadBase, Stage,
                PublishDirectory, Complete, FailPublish, ReleaseLock, Crash
  <2>. QED  BY <2>1
<1>3. CASE AgeLock \/ UNCHANGED vars
  BY <1>3 DEF AgeLock, vars
<1>. QED  BY <1>1, <1>2, <1>3 DEF Next, Proceed

LEMMA AckedInHistoryStep ==
    ASSUME Aging = "never", StoreInv, ExclusiveInv, [Next]_vars
    PROVE  AckedInHistory'
<1>. USE DEF StoreInv, ExclusiveInv, fsVars, history, GoTo, Forget, Leave
<1>1. ASSUME NEW w \in Writers, SwitchPointer(w) PROVE AckedInHistory'
  <2>1. pointer \in Seq(Batches) /\ request[w].batch \in Batches
    BY DEF TypeOK, Requests, Revision
  <2>2. pointer' = Append(pointer, request[w].batch) /\ acked' = acked
    BY <1>1 DEF SwitchPointer, BaseCurrent, Target
  <2>3. /\ Len(pointer') = Len(pointer) + 1
        /\ \A i \in 1 .. Len(pointer) : pointer'[i] = pointer[i]
    BY <2>1, <2>2, AppendProperties
  <2>4. ASSUME NEW r \in acked
        PROVE  Len(r) <= Len(pointer') /\ \A i \in 1 .. Len(r) : r[i] = pointer'[i]
    <3>1. Len(r) \in Nat /\ Len(pointer) \in Nat
      BY <2>1 DEF TypeOK, Revision
    <3>. QED  BY <2>3, <3>1 DEF AckedInHistory
  <2>. QED  BY <2>2, <2>4 DEF AckedInHistory
<1>2. ASSUME NEW w \in Writers, ReleaseLock(w) PROVE AckedInHistory'
  <2>1. UNCHANGED pointer /\ acked' \subseteq acked \cup {pointer}
    BY <1>2 DEF ReleaseLock, TargetCurrent, Acknowledges
  <2>2. Len(pointer) \in Nat
    BY DEF TypeOK, Revision
  <2>. QED  BY <2>1, <2>2 DEF AckedInHistory
<1>3. ASSUME NEW w \in Writers,
             \/ Request(w) \/ AcquireLock(w) \/ SeeStaleLock(w) \/ RemoveStaleLock(w)
             \/ TimeOut(w) \/ ReadBase(w) \/ Stage(w) \/ PublishDirectory(w)
             \/ Complete(w) \/ FailPublish(w) \/ Crash(w)
      PROVE  UNCHANGED <<pointer, acked>>
  BY <1>3 DEF Request, AcquireLock, SeeStaleLock, RemoveStaleLock, TimeOut, ReadBase, Stage,
              PublishDirectory, Complete, FailPublish, Crash
<1>4. CASE AgeLock \/ UNCHANGED vars
  BY <1>4 DEF AgeLock, vars, AckedInHistory
<1>5. CASE UNCHANGED <<pointer, acked>>
  BY <1>5 DEF AckedInHistory
<1>. QED  BY <1>1, <1>2, <1>3, <1>4, <1>5 DEF Next, Proceed

LEMMA ExclusiveInvInit == Init => ExclusiveInv
BY DEF Init, ExclusiveInv, LockHeld, SingleWriter, Inside, BaseCurrent, TargetCurrent,
       Acknowledges, AckedInHistory

\* ExclusiveInv is inductive relative to StoreInv.
THEOREM ExclusiveInvariant == Aging = "never" => (Spec => [](StoreInv /\ ExclusiveInv))
<1>. SUFFICES ASSUME Aging = "never" PROVE Spec => [](StoreInv /\ ExclusiveInv)
  OBVIOUS
<1>1. StoreInv /\ ExclusiveInv /\ [Next]_vars => ExclusiveInv'
  BY LockHeldStep, BaseCurrentStep, TargetCurrentStep, AckedInHistoryStep DEF ExclusiveInv
<1>. QED  BY <1>1, ExclusiveInvInit, StoreInvariant, PTL DEF Spec

\* As long as no lock is broken for its age, one process at a time publishes,
\* however many processes share the root and wherever they crash.
THEOREM MutualExclusion == Aging = "never" => (Spec => []SingleWriter)
<1>. SUFFICES ASSUME Aging = "never" PROVE Spec => []SingleWriter
  OBVIOUS
<1>1. ExclusiveInv => SingleWriter
  BY DEF ExclusiveInv
<1>. QED  BY <1>1, ExclusiveInvariant, PTL

\* As long as no lock is broken for its age, an acknowledged publication stays
\* in the history of the active revision: no update is lost.
THEOREM NoLostPublication == Aging = "never" => (Spec => []AckedInHistory)
<1>. SUFFICES ASSUME Aging = "never" PROVE Spec => []AckedInHistory
  OBVIOUS
<1>1. ExclusiveInv => AckedInHistory
  BY DEF ExclusiveInv
<1>. QED  BY <1>1, ExclusiveInvariant, PTL

-----------------------------------------------------------------------------
(* Refinement: publish() is an atomic compare-and-swap on the chain. *)

\* A step that leaves the pointer, the requests and every caller's view alone.
LEMMA Stutters ==
    ASSUME UNCHANGED <<pointer, request>>, \A v \in Writers : CallOf(v)' = CallOf(v)
    PROVE  UNCHANGED Chain!vars
<1>1. [v \in Writers |-> CallOf(v)]' = [v \in Writers |-> CallOf(v)]
  OBVIOUS
<1>. QED  BY <1>1 DEF Chain!vars

\* A step that changes the view of one caller, and of no other.
LEMMA CallChanges ==
    ASSUME NEW w \in Writers, NEW c, CallOf(w)' = c,
           \A v \in Writers \ {w} : CallOf(v)' = CallOf(v)
    PROVE  [v \in Writers |-> CallOf(v)]' = [[v \in Writers |-> CallOf(v)] EXCEPT ![w] = c]
OBVIOUS

LEMMA ChainStep ==
    ASSUME StoreInv, StoreInv', ExclusiveInv, [Next]_vars
    PROVE  [Chain!Next]_(Chain!vars)
<1>. USE DEF fsVars, history, GoTo, Forget, Leave
<1>0. /\ pc \in [Writers -> Phases] /\ result \in [Writers -> {"none", "ok", "refused", "failed", "unsynced"}]
      /\ request \in [Writers -> Chain!Wants] /\ request' \in [Writers -> Chain!Wants]
  BY DEF StoreInv, TypeOK, Requests, Revision, Chain!Wants
<1>1. ASSUME NEW w \in Writers, Request(w) PROVE Chain!Invoke(w)
  <2>1. CallOf(w) = "none" /\ CallOf(w)' = "open" /\ UNCHANGED pointer
    BY <1>1, <1>0 DEF Request, CallOf
  <2>2. \A v \in Writers \ {w} : CallOf(v)' = CallOf(v) /\ request'[v] = request[v]
    BY <1>1, <1>0 DEF Request, CallOf
  <2>. QED  BY <2>1, <2>2, <1>0, CallChanges DEF Chain!Invoke, Chain!Asks
<1>2. ASSUME NEW w \in Writers, SwitchPointer(w) PROVE Chain!Commit(w)
  <2>1. /\ pointer' = Append(pointer, request[w].batch)
        /\ request[w].cas => request[w].expected = pointer
        /\ UNCHANGED request
    BY <1>2 DEF SwitchPointer, ExclusiveInv, BaseCurrent, Target
  <2>2. CallOf(w) = "open" /\ CallOf(w)' = "done"
    BY <1>2, <1>0 DEF SwitchPointer, CallOf
  <2>3. \A v \in Writers \ {w} : CallOf(v)' = CallOf(v)
    BY <1>2, <1>0 DEF SwitchPointer, CallOf
  <2>. QED  BY <2>1, <2>2, <2>3, CallChanges DEF Chain!Commit
<1>3. ASSUME NEW w \in Writers, TimeOut(w) \/ ReleaseLock(w) \/ Crash(w) PROVE Chain!Close(w)
  <2>1. CallOf(w) # "none" /\ CallOf(w)' = "none" /\ UNCHANGED pointer
    BY <1>3, <1>0 DEF TimeOut, ReleaseLock, Crash, CallOf
  <2>2. \A v \in Writers \ {w} : CallOf(v)' = CallOf(v) /\ request'[v] = request[v]
    BY <1>3, <1>0 DEF TimeOut, ReleaseLock, Crash, CallOf
  <2>. QED  BY <2>1, <2>2, <1>0, CallChanges DEF Chain!Close, Chain!Asks
<1>4. ASSUME NEW w \in Writers,
             \/ AcquireLock(w) \/ SeeStaleLock(w) \/ RemoveStaleLock(w) \/ ReadBase(w)
             \/ Stage(w) \/ PublishDirectory(w) \/ Complete(w) \/ FailPublish(w)
      PROVE  UNCHANGED Chain!vars
  <2>1. UNCHANGED <<pointer, request>>
    BY <1>4 DEF AcquireLock, SeeStaleLock, RemoveStaleLock, ReadBase, Stage, PublishDirectory,
                Complete, FailPublish
  <2>2. CallOf(w)' = CallOf(w)
    BY <1>4, <1>0 DEF AcquireLock, SeeStaleLock, RemoveStaleLock, ReadBase, Stage,
                PublishDirectory, Complete, FailPublish, CallOf
  <2>3. \A v \in Writers \ {w} : CallOf(v)' = CallOf(v)
    BY <1>4, <1>0 DEF AcquireLock, SeeStaleLock, RemoveStaleLock, ReadBase, Stage,
                PublishDirectory, Complete, FailPublish, CallOf
  <2>. QED  BY <2>1, <2>2, <2>3, Stutters
<1>5. CASE AgeLock \/ UNCHANGED vars
  <2>1. UNCHANGED <<pointer, request, pc, result>>
    BY <1>5 DEF AgeLock, vars
  <2>. QED  BY <2>1, Stutters DEF CallOf
<1>. QED  BY <1>1, <1>2, <1>3, <1>4, <1>5 DEF Next, Proceed, Chain!Next

LEMMA ChainInit == Init => Chain!Init
<1>. SUFFICES ASSUME Init PROVE Chain!Init
  OBVIOUS
<1>1. request \in [Writers -> Chain!Wants]
  BY NoRequestType DEF Init, Requests, Revision, Chain!Wants
<1>. QED  BY <1>1 DEF Init, Chain!Init, CallOf

\* As long as no lock is broken for its age, every behaviour of the store is one
\* of RevisionChain: a publication takes effect once, in one step, and only on
\* the parent its caller expected.
THEOREM PublicationIsAtomic == Aging = "never" => (Spec => AtomicPublication)
<1>. SUFFICES ASSUME Aging = "never" PROVE Spec => AtomicPublication
  OBVIOUS
<1>1. StoreInv /\ StoreInv' /\ ExclusiveInv /\ [Next]_vars => [Chain!Next]_(Chain!vars)
  BY ChainStep
<1>. QED
  BY <1>1, ChainInit, ExclusiveInvariant, PTL DEF Spec, AtomicPublication, Chain!Spec
=============================================================================
