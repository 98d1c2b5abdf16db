-------------------------- MODULE ConflictResolution --------------------------
(***************************************************************************)
(* How a user's answer to a conflict becomes canonical.  The submitter     *)
(* publishes a locked resolution and the conflict's resolution_pending     *)
(* state in one revision, then enqueues a packet bound to them.  The       *)
(* maintainer refreshes the packet, gets a plan with a typed resolution    *)
(* and publishes the outcome.  Both read the pointer and the records in    *)
(* separate steps and rely on the store's compare-and-swap; other          *)
(* publications, crashes and a full queue come in between.                 *)
(*                                                                         *)
(* A record digest is modelled by a version number that every change of    *)
(* the record increases, a knowledge revision by the number of             *)
(* publications so far, and the store by its atomic specification,         *)
(* RevisionChain.  The queue is what MaintenanceQueue shows it to be for   *)
(* one maintainer: a packet is leased to it alone until it reports, or     *)
(* until its process has died.                                             *)
(***************************************************************************)
EXTENDS Naturals, Sequences

CONSTANTS
    Clients,     \* submitting processes
    Keys,        \* idempotency keys
    Conflicts,   \* conflict records
    NoCall,      \* a client submits nothing
    NoKey,       \* the maintainer has no packet
    MaxTries,    \* proposals per lease: retry >= 2 gives up
    MaxCalls,    \* bound on submissions
    MaxEdits,    \* bound on other publications
    MaxCrashes   \* bound on process crashes

\* settle stands for every outcome that is not remain_open.
Outcomes == {"settle", "remain_open"}

ASSUME ConflictAssumption ==
    /\ NoCall \notin [key : Keys, conflict : Conflicts, outcome : Outcomes, expected : Nat]
    /\ NoKey \notin Keys
    /\ MaxTries \in Nat \ {0}
    /\ {MaxCalls, MaxEdits, MaxCrashes} \subseteq Nat

VARIABLES
    rev,          \* the knowledge revision
    conflicts,    \* conflict -> status, resolution_ref and version
    resolutions,  \* the user_conflict_resolution records, in order of creation
    queue,        \* key -> status of packet:argon:digest("resolution:" key)
    bound,        \* key -> the resolution its packet names
    pc, call,     \* per client: where submitUserConflictResolution is, its input
    base,         \* per client: the pointer it read first
    found,        \* per client: the version of the conflict it read
    made,         \* per client: the resolution it locked
    phase,        \* the maintainer: where its loop is
    packet,       \* the maintainer: the key it leased
    plan,         \* the maintainer: the base revision of its proposal
    tries,        \* the maintainer: proposals made under this lease
    calls, edits, crashes,
    replied       \* history: keys answered with resolution_pending

clientVars == <<pc, call, base, found, made>>
workerVars == <<phase, packet, plan, tries>>
canonical  == <<rev, conflicts, resolutions>>
counters   == <<calls, edits, crashes>>
vars == <<canonical, queue, bound, clientVars, workerVars, counters, replied>>

Calls == [key : Keys, conflict : Conflicts, outcome : Outcomes, expected : Nat]

\* resolutionAuthorization(): what a key is bound to.
AuthorizationOfVersion(c) == [conflict |-> c.conflict, expected |-> c.expected]
Authorization(c) ==
    [conflict |-> c.conflict, outcome |-> c.outcome, expected |-> c.expected]

Init ==
    /\ rev = 0
    /\ conflicts = [c \in Conflicts |-> [status |-> "open", ref |-> 0, version |-> 0]]
    /\ resolutions = <<>>
    /\ queue = [k \in Keys |-> "none"]
    /\ bound = [k \in Keys |-> 0]
    /\ pc = [i \in Clients |-> "idle"]
    /\ call = [i \in Clients |-> NoCall]
    /\ base = [i \in Clients |-> 0]
    /\ found = [i \in Clients |-> 0]
    /\ made = [i \in Clients |-> 0]
    /\ phase = "idle"
    /\ packet = NoKey
    /\ plan = 0
    /\ tries = 0
    /\ calls = 0 /\ edits = 0 /\ crashes = 0
    /\ replied = {}

-----------------------------------------------------------------------------
(* Helpers *)

GoTo(i, place) == pc' = [pc EXCEPT ![i] = place]

\* The call is over: returned, thrown, or its process died.
EndCall(i) ==
    /\ GoTo(i, "idle")
    /\ call' = [call EXCEPT ![i] = NoCall]
    /\ base' = [base EXCEPT ![i] = 0]
    /\ found' = [found EXCEPT ![i] = 0]
    /\ made' = [made EXCEPT ![i] = 0]

\* Resolutions with this idempotency key.
WithKey(k) == {n \in DOMAIN resolutions : resolutions[n].key = k}

\* CanonicalRevisionStore.publish with an expectedParent.
PublishBlind(expected) == rev' = rev + 1
Publish(expected) == rev = expected /\ rev' = rev + 1

\* The checks of a typed resolution against the records as they are now.
LockedHereUnbound(n) == conflicts[resolutions[n].conflict].status = "resolution_pending"
LockedHere(n) ==
    LET resolution == resolutions[n]
        conflict   == conflicts[resolution.conflict]
    IN  /\ resolution.key = packet
        /\ conflict.status = "resolution_pending"
        /\ conflict.ref = n
        /\ resolution.status = "locked"
        /\ resolution.lockedVersion = conflict.version

-----------------------------------------------------------------------------
(* submitUserConflictResolution *)

\* A user answers the conflict as it is now: the pointer is read first.
Submit(i) ==
    /\ pc[i] = "idle"
    /\ calls < MaxCalls
    /\ \E k \in Keys, c \in Conflicts, outcome \in Outcomes :
          call' = [call EXCEPT ![i] =
              [key |-> k, conflict |-> c, outcome |-> outcome,
               expected |-> conflicts[c].version]]
    /\ base' = [base EXCEPT ![i] = rev]
    /\ GoTo(i, "lookup")
    /\ calls' = calls + 1
    /\ UNCHANGED <<canonical, queue, bound, found, made, workerVars, edits, crashes, replied>>

\* The same answer is sent again, after an error or a lost reply.
Resubmit(i) ==
    /\ pc[i] = "idle"
    /\ calls < MaxCalls
    /\ \E n \in DOMAIN resolutions :
          call' = [call EXCEPT ![i] =
              [key |-> resolutions[n].key, conflict |-> resolutions[n].conflict,
               outcome |-> resolutions[n].outcome, expected |-> resolutions[n].expected]]
    /\ base' = [base EXCEPT ![i] = rev]
    /\ GoTo(i, "lookup")
    /\ calls' = calls + 1
    /\ UNCHANGED <<canonical, queue, bound, found, made, workerVars, edits, crashes, replied>>

\* A resolution with this key is there: a replay, or another authorization.
LookUp(i) ==
    /\ pc[i] = "lookup"
    /\ \/ /\ WithKey(call[i].key) = {}
          /\ GoTo(i, "inspect")
          /\ UNCHANGED <<call, base, found, made, replied>>
       \/ \E n \in WithKey(call[i].key) :
             /\ IF /\ Authorization(resolutions[n]) = Authorization(call[i])
                   /\ resolutions[n].status = "locked"
                THEN replied' = replied \cup {call[i].key}
                ELSE UNCHANGED replied
             /\ EndCall(i)
    /\ UNCHANGED <<canonical, queue, bound, workerVars, counters>>

\* The conflict must be open and be the one the user saw.
Inspect(i) ==
    /\ pc[i] = "inspect"
    /\ LET conflict == conflicts[call[i].conflict]
       IN  IF conflict.status = "open" /\ conflict.version = call[i].expected
           THEN /\ found' = [found EXCEPT ![i] = conflict.version]
                /\ GoTo(i, "publish")
                /\ UNCHANGED <<call, base, made>>
           ELSE EndCall(i)
    /\ UNCHANGED <<canonical, queue, bound, workerVars, counters, replied>>

\* The resolution, the pending conflict and a packet record, in one revision.
LockAnswer(i) ==
    /\ pc[i] = "publish"
    /\ Publish(base[i])
    /\ resolutions' = Append(resolutions,
           [key |-> call[i].key, conflict |-> call[i].conflict,
            outcome |-> call[i].outcome, expected |-> call[i].expected,
            status |-> "locked", lockedVersion |-> found[i] + 1])
    /\ conflicts' = [conflicts EXCEPT ![call[i].conflict] =
           [status |-> "resolution_pending", ref |-> Len(resolutions) + 1,
            version |-> found[i] + 1]]
    /\ made' = [made EXCEPT ![i] = Len(resolutions) + 1]
    /\ GoTo(i, "enqueue")
    /\ UNCHANGED <<queue, bound, call, base, found, workerVars, counters, replied>>

\* Somebody published since: the call throws.
LockRefused(i) ==
    /\ pc[i] = "publish"
    /\ rev # base[i]
    /\ EndCall(i)
    /\ UNCHANGED <<canonical, queue, bound, workerVars, counters, replied>>

\* enqueueMaintenance: the packet, unless one with its key is in the queue.
EnqueueAnswer(i) ==
    /\ pc[i] = "enqueue"
    /\ LET k == call[i].key
       IN  /\ IF queue[k] = "none"
              THEN /\ queue' = [queue EXCEPT ![k] = "queued"]
                   /\ bound' = [bound EXCEPT ![k] = made[i]]
              ELSE UNCHANGED <<queue, bound>>
           /\ replied' = replied \cup {k}
    /\ EndCall(i)
    /\ UNCHANGED <<canonical, workerVars, counters>>

\* The queue has no room for it: the call throws, the answer stays locked.
EnqueueRefused(i) ==
    /\ pc[i] = "enqueue"
    /\ EndCall(i)
    /\ UNCHANGED <<canonical, queue, bound, workerVars, counters, replied>>

-----------------------------------------------------------------------------
(* runDeploymentMaintenance and applyMaintenancePlan *)

\* The maintainer reports the packet as so settled, or gives it back.
Report(status) ==
    /\ queue' = [queue EXCEPT ![packet] = status]
    /\ phase' = "idle"
    /\ packet' = NoKey
    /\ plan' = 0
    /\ tries' = 0

Lease ==
    /\ phase = "idle"
    /\ \E k \in Keys :
          /\ queue[k] = "queued"
          /\ queue' = [queue EXCEPT ![k] = "leased"]
          /\ packet' = k
    /\ phase' = "refresh"
    /\ UNCHANGED <<canonical, bound, clientVars, plan, tries, counters, replied>>

\* refreshMaintenancePacket, then the proposal on that base.
Refresh ==
    /\ phase = "refresh"
    /\ plan' = rev
    /\ tries' = tries + 1
    /\ phase' = "check"
    /\ UNCHANGED <<canonical, queue, bound, clientVars, packet, counters, replied>>

\* The model fails for a while, or its plan lacks the typed resolution.
ProposalFails ==
    /\ phase = "check"
    /\ \E status \in {"queued", "set_aside"} : Report(status)
    /\ UNCHANGED <<canonical, bound, clientVars, counters, replied>>

\* Another proposal on a fresh base, three in all.
StaleIsDone ==
    IF tries < MaxTries
    THEN phase' = "refresh" /\ UNCHANGED <<queue, packet, plan, tries>>
    ELSE Report("completed")
Stale ==
    IF tries < MaxTries
    THEN phase' = "refresh" /\ UNCHANGED <<queue, packet, plan, tries>>
    ELSE Report("set_aside")

\* The base of the plan is compared with the pointer.
CheckBase ==
    /\ phase = "check"
    /\ IF rev = plan
       THEN phase' = "validate" /\ UNCHANGED <<queue, packet, plan, tries>>
       ELSE Stale
    /\ UNCHANGED <<canonical, bound, clientVars, counters, replied>>

\* The records are read, possibly of a later revision, and checked.
Validate ==
    /\ phase = "validate"
    /\ IF LockedHere(bound[packet])
       THEN phase' = "publish" /\ UNCHANGED <<queue, packet, plan, tries>>
       ELSE Report("set_aside")
    /\ UNCHANGED <<canonical, bound, clientVars, counters, replied>>

\* The outcome and the applied resolution, in one revision.
ApplyAnswer ==
    /\ phase = "publish"
    /\ Publish(plan)
    /\ LET n == bound[packet]
       IN  /\ resolutions' = [resolutions EXCEPT ![n].status = "applied"]
           /\ conflicts' = [conflicts EXCEPT ![resolutions[n].conflict] =
                  [status |-> IF resolutions[n].outcome = "remain_open"
                              THEN "open" ELSE "resolved",
                   ref |-> conflicts[resolutions[n].conflict].ref,
                   version |-> conflicts[resolutions[n].conflict].version + 1]]
    /\ phase' = "complete"
    /\ UNCHANGED <<queue, bound, clientVars, packet, plan, tries, counters, replied>>

ApplyRefused ==
    /\ phase = "publish"
    /\ rev # plan
    /\ Stale
    /\ UNCHANGED <<canonical, bound, clientVars, counters, replied>>

Complete ==
    /\ phase = "complete"
    /\ Report("completed")
    /\ UNCHANGED <<canonical, bound, clientVars, counters, replied>>

-----------------------------------------------------------------------------
(* The environment *)

\* Maintenance of another packet records an observation on an open conflict.
Observe(c) ==
    /\ conflicts[c].status = "open"
    /\ edits < MaxEdits
    /\ edits' = edits + 1
    /\ rev' = rev + 1
    /\ conflicts' = [conflicts EXCEPT ![c].version = @ + 1]
    /\ UNCHANGED <<resolutions, queue, bound, clientVars, workerVars, calls, crashes, replied>>

\* Anything else is published.
PublishOther ==
    /\ edits < MaxEdits
    /\ edits' = edits + 1
    /\ rev' = rev + 1
    /\ UNCHANGED <<conflicts, resolutions, queue, bound, clientVars, workerVars,
                   calls, crashes, replied>>

CrashClient(i) ==
    /\ pc[i] # "idle"
    /\ crashes < MaxCrashes
    /\ crashes' = crashes + 1
    /\ EndCall(i)
    /\ UNCHANGED <<canonical, queue, bound, workerVars, calls, edits, replied>>

\* The maintainer dies; its lease expires and the packet is queued again.
CrashMaintainer ==
    /\ phase # "idle"
    /\ crashes < MaxCrashes
    /\ crashes' = crashes + 1
    /\ Report("queued")
    /\ UNCHANGED <<canonical, bound, clientVars, calls, edits, replied>>

-----------------------------------------------------------------------------
Next ==
    \/ \E i \in Clients :
          \/ Submit(i) \/ Resubmit(i) \/ LookUp(i) \/ Inspect(i) \/ LockAnswer(i)
          \/ LockRefused(i) \/ EnqueueAnswer(i) \/ EnqueueRefused(i) \/ CrashClient(i)
    \/ Lease \/ Refresh \/ ProposalFails \/ CheckBase \/ Validate \/ ApplyAnswer
    \/ ApplyRefused \/ Complete \/ CrashMaintainer
    \/ (\E c \in Conflicts : Observe(c)) \/ PublishOther

Spec == Init /\ [][Next]_vars

-----------------------------------------------------------------------------
(* Properties *)

\* Types, and resolution references that name a stored resolution.
TypeOK ==
    /\ rev \in Nat
    /\ conflicts \in [Conflicts -> [status : {"open", "resolution_pending", "resolved"},
                                    ref : 0 .. Len(resolutions), version : Nat]]
    /\ resolutions \in Seq([key : Keys, conflict : Conflicts, outcome : Outcomes,
                            expected : Nat, status : {"locked", "applied"},
                            lockedVersion : Nat])
    /\ queue \in [Keys -> {"none", "queued", "leased", "completed", "set_aside"}]
    /\ bound \in [Keys -> 0 .. Len(resolutions)]
    /\ pc \in [Clients -> {"idle", "lookup", "inspect", "publish", "enqueue"}]
    /\ call \in [Clients -> Calls \cup {NoCall}]
    /\ base \in [Clients -> Nat] /\ found \in [Clients -> Nat]
    /\ made \in [Clients -> 0 .. Len(resolutions)]
    /\ phase \in {"idle", "refresh", "check", "validate", "publish", "complete"}
    /\ packet \in Keys \cup {NoKey}
    /\ \A k \in Keys : queue[k] = "leased" <=> packet = k
    /\ plan \in Nat /\ tries \in 0 .. MaxTries
    /\ replied \subseteq Keys

\* A pending conflict is locked by exactly one answer, the one it names, however
\* many users answer at once; and no answer stays locked on a conflict that is not
\* pending.
OneLockPerConflict ==
    \A c \in Conflicts :
        {n \in DOMAIN resolutions :
            resolutions[n].conflict = c /\ resolutions[n].status = "locked"}
        = IF conflicts[c].status = "resolution_pending" THEN {conflicts[c].ref} ELSE {}

\* A pending conflict changes only when its own answer is applied to it: to the
\* version the user saw, and with the outcome the user chose.
OnlyTheAnswerApplies ==
    [][\A c \in Conflicts :
          conflicts[c].status = "resolution_pending" /\ conflicts'[c] # conflicts[c] =>
              LET n == conflicts[c].ref
              IN  /\ resolutions[n].status = "locked"
                  /\ resolutions'[n].status = "applied"
                  /\ resolutions[n].expected + 1 = conflicts[c].version
                  /\ conflicts'[c].status =
                         IF resolutions[n].outcome = "settle" THEN "resolved" ELSE "open"]_vars

\* An answer that was applied is never applied again, whatever becomes of its
\* packet, and a packet is completed only if its answer was.
CompletedIsApplied ==
    /\ \A k \in Keys : queue[k] = "completed" => resolutions[bound[k]].status = "applied"
    /\ \A c \in Conflicts : conflicts[c].status = "resolved" =>
           /\ resolutions[conflicts[c].ref].status = "applied"
           /\ resolutions[conflicts[c].ref].lockedVersion + 1 = conflicts[c].version

\* A caller that is told resolution_pending has a packet in the queue, or another
\* call is about to put it there.
PendingIsQueued ==
    \A k \in replied :
        queue[k] # "none" \/ \E i \in Clients : pc[i] = "enqueue" /\ call[i].key = k

\* The ledger that users see in these records.
AnswerOf(n) ==
    [key |-> resolutions[n].key, conflict |-> resolutions[n].conflict,
     outcome |-> resolutions[n].outcome, expected |-> resolutions[n].expected]

StoredAnswers ==
    [k \in Keys |-> IF WithKey(k) = {} THEN NoCall
                    ELSE AnswerOf(CHOOSE n \in WithKey(k) : TRUE)]
AppliedKeys == {k \in Keys : \E n \in WithKey(k) : resolutions[n].status = "applied"}

Standings ==
    [c \in Conflicts |->
        [status |-> conflicts[c].status, version |-> conflicts[c].version,
         by |-> IF conflicts[c].status = "resolution_pending"
                THEN resolutions[conflicts[c].ref].key ELSE NoKey]]

Ledger == INSTANCE AnswerLedger WITH
    asked <- call, answer <- StoredAnswers, applied <- AppliedKeys, standing <- Standings,
    told <- replied

\* Although a submission looks up the key, reads the conflict, publishes and enqueues
\* in separate steps, and the maintainer reads, checks and publishes in others, an
\* answer is locked and applied in one step each, and nobody is told that an answer is
\* pending but who gave it.
AnswersAreAtomic == Ledger!Spec
=============================================================================
