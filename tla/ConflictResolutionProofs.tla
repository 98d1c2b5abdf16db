----------------------- MODULE ConflictResolutionProofs -----------------------
(***************************************************************************)
(* Proofs about ConflictResolution for any number of clients, keys and     *)
(* conflicts, and any number of submissions, publications and crashes.     *)
(***************************************************************************)
EXTENDS ConflictResolution, FiniteSetTheorems, TLAPS

(***************************************************************************)
(* The inductive invariant.  Every decision that is published was taken on *)
(* records read at or after the base revision it is published on.  So each *)
(* part says of a process what it knows for as long as nobody has          *)
(* published since, which is all that compare-and-swap lets it rely on.    *)
(***************************************************************************)

\* A maintainer that is to refresh has a proposal left.
TriesLeft ==
    /\ phase = "idle" <=> packet = NoKey
    /\ phase = "idle" => tries = 0
    /\ phase = "refresh" => tries < MaxTries

\* What the records say of each other.
LockIsPending(n) ==
    LET c == resolutions[n].conflict
    IN  resolutions[n].status = "locked" =>
           /\ conflicts[c].status = "resolution_pending"
           /\ conflicts[c].ref = n
           /\ conflicts[c].version = resolutions[n].lockedVersion
           /\ resolutions[n].lockedVersion = resolutions[n].expected + 1

ConflictNames(c) ==
    /\ conflicts[c].status # "open" =>
           /\ conflicts[c].ref \in DOMAIN resolutions
           /\ resolutions[conflicts[c].ref].conflict = c
    /\ conflicts[c].status = "resolution_pending" =>
           resolutions[conflicts[c].ref].status = "locked"
    /\ conflicts[c].status = "resolved" =>
           /\ resolutions[conflicts[c].ref].status = "applied"
           /\ resolutions[conflicts[c].ref].lockedVersion + 1 = conflicts[c].version

RecordsAgree ==
    /\ \A n \in DOMAIN resolutions : LockIsPending(n)
    /\ \A c \in Conflicts : ConflictNames(c)

KeysDiffer ==
    \A n, m \in DOMAIN resolutions :
        resolutions[n].key = resolutions[m].key => n = m

\* What a client knows while its base is still the pointer, and what it made.
ClientKnows(i) ==
    /\ base[i] <= rev
    /\ pc[i] # "idle" => call[i] \in Calls
    /\ pc[i] \in {"inspect", "publish"} /\ base[i] = rev => WithKey(call[i].key) = {}
    /\ pc[i] = "publish" => found[i] = call[i].expected
    /\ pc[i] = "publish" /\ base[i] = rev =>
           /\ conflicts[call[i].conflict].status = "open"
           /\ conflicts[call[i].conflict].version = found[i]
    /\ pc[i] = "enqueue" =>
           made[i] \in DOMAIN resolutions /\ resolutions[made[i]].key = call[i].key

\* What a packet is bound to, and what the maintainer knows of the one it has.
PacketBound(k) ==
    queue[k] # "none" =>
        bound[k] \in DOMAIN resolutions /\ resolutions[bound[k]].key = k

MaintainerKnows ==
    /\ plan <= rev
    /\ phase = "publish" /\ plan = rev => LockedHere(bound[packet])
    /\ phase = "complete" => resolutions[bound[packet]].status = "applied"
    /\ \A k \in Keys : queue[k] = "completed" => resolutions[bound[k]].status = "applied"

Inv ==
    /\ TypeOK
    /\ TriesLeft
    /\ RecordsAgree
    /\ KeysDiffer
    /\ \A i \in Clients : ClientKnows(i)
    /\ \A k \in Keys : PacketBound(k)
    /\ MaintainerKnows

-----------------------------------------------------------------------------
(***************************************************************************)
(* Part 1: types.                                                          *)
(***************************************************************************)

Answers == [key : Keys, conflict : Conflicts, outcome : Outcomes, expected : Nat,
            status : {"locked", "applied"}, lockedVersion : Nat]

\* TypeOK in four parts, which different variables disturb.
RecordsTyped ==
    /\ rev \in Nat
    /\ conflicts \in [Conflicts -> [status : {"open", "resolution_pending", "resolved"},
                                    ref : 0 .. Len(resolutions), version : Nat]]
    /\ resolutions \in Seq(Answers)

QueueTyped ==
    /\ queue \in [Keys -> {"none", "queued", "leased", "completed", "set_aside"}]
    /\ bound \in [Keys -> 0 .. Len(resolutions)]

ClientsTyped ==
    /\ pc \in [Clients -> {"idle", "lookup", "inspect", "publish", "enqueue"}]
    /\ call \in [Clients -> Calls \cup {NoCall}]
    /\ base \in [Clients -> Nat] /\ found \in [Clients -> Nat]
    /\ made \in [Clients -> 0 .. Len(resolutions)]

MaintainerTyped ==
    /\ phase \in {"idle", "refresh", "check", "validate", "publish", "complete"}
    /\ packet \in Keys \cup {NoKey}
    /\ \A k \in Keys : queue[k] = "leased" <=> packet = k
    /\ plan \in Nat /\ tries \in 0 .. MaxTries

LEMMA TypeParts ==
    TypeOK <=> /\ RecordsTyped /\ QueueTyped /\ ClientsTyped /\ MaintainerTyped
               /\ replied \subseteq Keys
BY DEF TypeOK, RecordsTyped, QueueTyped, ClientsTyped, MaintainerTyped, Answers

\* Appending an answer, and marking one applied.
LEMMA AnswerAppended ==
    ASSUME NEW old \in Seq(Answers), NEW answer \in Answers
    PROVE  /\ Append(old, answer) \in Seq(Answers)
           /\ Len(Append(old, answer)) = Len(old) + 1
           /\ DOMAIN Append(old, answer) = DOMAIN old \cup {Len(old) + 1}
           /\ \A n \in DOMAIN old : Append(old, answer)[n] = old[n]
           /\ Append(old, answer)[Len(old) + 1] = answer
OBVIOUS

LEMMA AnswerApplied ==
    ASSUME NEW old \in Seq(Answers), NEW n \in DOMAIN old
    PROVE  LET new == [old EXCEPT ![n].status = "applied"]
           IN  /\ new \in Seq(Answers)
               /\ Len(new) = Len(old)
               /\ DOMAIN new = DOMAIN old
               /\ \A m \in DOMAIN old : m # n => new[m] = old[m]
               /\ new[n] = [old[n] EXCEPT !.status = "applied"]
<1>. DEFINE new == [old EXCEPT ![n].status = "applied"]
<1>1. DOMAIN old = 1 .. Len(old) /\ Len(old) \in Nat
  OBVIOUS
<1>2. old[n] \in Answers
  OBVIOUS
<1>3. [old[n] EXCEPT !.status = "applied"] \in Answers
  BY <1>2 DEF Answers
<1>4. new = [m \in 1 .. Len(old) |->
                IF m = n THEN [old[n] EXCEPT !.status = "applied"] ELSE old[m]]
  BY <1>1
<1>5. \A m \in 1 .. Len(old) : new[m] \in Answers
  BY <1>1, <1>3, <1>4
<1>6. new \in Seq(Answers) /\ Len(new) = Len(old)
  BY <1>1, <1>4, <1>5
<1>. QED  BY <1>1, <1>4, <1>6

\* The packet the maintainer has is leased, and bound to an answer with its key.
LEMMA PacketHeld ==
    ASSUME Inv, phase # "idle"
    PROVE  /\ packet \in Keys /\ queue[packet] = "leased"
           /\ bound[packet] \in DOMAIN resolutions
           /\ resolutions[bound[packet]].key = packet
<1>1. packet \in Keys /\ queue[packet] = "leased"
  BY DEF Inv, TriesLeft, TypeOK
<1>. QED  BY <1>1 DEF Inv, PacketBound

\* Four kinds of step publish; every other one leaves the records alone.
LEMMA WhoPublishes ==
    ASSUME [Next]_vars
    PROVE  \/ UNCHANGED canonical
           \/ \E i \in Clients : LockAnswer(i)
           \/ ApplyAnswer
           \/ \E c \in Conflicts : Observe(c)
           \/ PublishOther
<1>1. CASE UNCHANGED vars
  BY <1>1 DEF vars
<1>2. ASSUME NEW i \in Clients,
             \/ Submit(i) \/ Resubmit(i) \/ LookUp(i) \/ Inspect(i)
             \/ LockRefused(i) \/ EnqueueAnswer(i) \/ EnqueueRefused(i) \/ CrashClient(i)
      PROVE  UNCHANGED canonical
  BY <1>2 DEF Submit, Resubmit, LookUp, Inspect, LockRefused, EnqueueAnswer,
              EnqueueRefused, CrashClient
<1>3. ASSUME \/ Lease \/ Refresh \/ ProposalFails \/ CheckBase \/ Validate
             \/ ApplyRefused \/ Complete \/ CrashMaintainer
      PROVE  UNCHANGED canonical
  BY <1>3 DEF Lease, Refresh, ProposalFails, CheckBase, Validate, ApplyRefused,
              Complete, CrashMaintainer
<1>. QED  BY <1>1, <1>2, <1>3 DEF Next

\* Only a client's own steps change what it is doing.
LEMMA WhoCalls ==
    ASSUME [Next]_vars
    PROVE  \/ UNCHANGED clientVars
           \/ \E i \in Clients :
                 \/ Submit(i) \/ Resubmit(i) \/ LookUp(i) \/ Inspect(i) \/ LockAnswer(i)
                 \/ LockRefused(i) \/ EnqueueAnswer(i) \/ EnqueueRefused(i) \/ CrashClient(i)
<1>1. CASE UNCHANGED vars
  BY <1>1 DEF vars
<1>2. ASSUME \/ Lease \/ Refresh \/ ProposalFails \/ CheckBase \/ Validate \/ ApplyAnswer
             \/ ApplyRefused \/ Complete \/ CrashMaintainer
             \/ (\E c \in Conflicts : Observe(c)) \/ PublishOther
      PROVE  UNCHANGED clientVars
  BY <1>2 DEF Lease, Refresh, ProposalFails, CheckBase, Validate, ApplyAnswer,
              ApplyRefused, Complete, CrashMaintainer, Observe, PublishOther
<1>. QED  BY <1>1, <1>2 DEF Next

\* What a publication may never do: shorten the history, or rewrite an answer
\* other than by marking it applied.
Grows ==
    /\ rev <= rev'
    /\ rev' = rev => UNCHANGED <<conflicts, resolutions>>
    /\ Len(resolutions) <= Len(resolutions')
    /\ \A n \in DOMAIN resolutions :
          /\ n \in DOMAIN resolutions'
          /\ resolutions'[n].key = resolutions[n].key
          /\ resolutions[n].status = "applied" => resolutions'[n].status = "applied"

\* The two steps that write answers, read off their definitions once.
LEMMA LockWrites ==
    ASSUME Inv, NEW i \in Clients, LockAnswer(i)
    PROVE  LET m == Len(resolutions) + 1
               c == call[i].conflict
           IN  /\ rev' = rev + 1 /\ base[i] = rev
               /\ call[i] \in Calls /\ c \in Conflicts
               /\ conflicts[c].status = "open" /\ conflicts[c].version = call[i].expected
               /\ WithKey(call[i].key) = {}
               /\ resolutions' \in Seq(Answers)
               /\ Len(resolutions') = m
               /\ DOMAIN resolutions' = DOMAIN resolutions \cup {m}
               /\ \A n \in DOMAIN resolutions : resolutions'[n] = resolutions[n]
               /\ resolutions'[m].key = call[i].key
               /\ resolutions'[m].conflict = c
               /\ resolutions'[m].expected = call[i].expected
               /\ resolutions'[m].status = "locked"
               /\ resolutions'[m].lockedVersion = call[i].expected + 1
               /\ conflicts' = [conflicts EXCEPT ![c] =
                     [status |-> "resolution_pending", ref |-> m,
                      version |-> call[i].expected + 1]]
<1>. DEFINE answer == [key |-> call[i].key, conflict |-> call[i].conflict,
                       outcome |-> call[i].outcome, expected |-> call[i].expected,
                       status |-> "locked", lockedVersion |-> found[i] + 1]
<1>1. /\ rev = base[i] /\ rev' = rev + 1 /\ pc[i] = "publish"
      /\ resolutions' = Append(resolutions, answer)
  BY DEF LockAnswer, Publish
<1>2. /\ call[i] \in Calls /\ found[i] = call[i].expected
      /\ WithKey(call[i].key) = {}
      /\ conflicts[call[i].conflict].status = "open"
      /\ conflicts[call[i].conflict].version = found[i]
  BY <1>1 DEF Inv, ClientKnows
<1>3. answer \in Answers /\ resolutions \in Seq(Answers)
  BY <1>2, TypeParts DEF Inv, Answers, Calls, RecordsTyped
<1>. HIDE DEF answer
<1>4. /\ resolutions' \in Seq(Answers)
      /\ Len(resolutions') = Len(resolutions) + 1
      /\ DOMAIN resolutions' = DOMAIN resolutions \cup {Len(resolutions) + 1}
      /\ \A n \in DOMAIN resolutions : resolutions'[n] = resolutions[n]
      /\ resolutions'[Len(resolutions) + 1] = answer
  BY <1>1, <1>3, AnswerAppended
<1>. QED  BY <1>1, <1>2, <1>4 DEF answer, LockAnswer, Calls

LEMMA ApplyWrites ==
    ASSUME Inv, ApplyAnswer
    PROVE  LET n == bound[packet]
               c == resolutions[n].conflict
           IN  /\ rev' = rev + 1 /\ plan = rev
               /\ n \in DOMAIN resolutions /\ c \in Conflicts /\ LockedHere(n)
               /\ resolutions' \in Seq(Answers)
               /\ Len(resolutions') = Len(resolutions)
               /\ DOMAIN resolutions' = DOMAIN resolutions
               /\ \A m \in DOMAIN resolutions : m # n => resolutions'[m] = resolutions[m]
               /\ resolutions'[n] = [resolutions[n] EXCEPT !.status = "applied"]
               /\ conflicts' = [conflicts EXCEPT ![c] =
                     [status |-> IF resolutions[n].outcome = "remain_open"
                                 THEN "open" ELSE "resolved",
                      ref |-> n, version |-> conflicts[c].version + 1]]
<1>. DEFINE n == bound[packet]
<1>1. /\ rev' = rev + 1 /\ plan = rev /\ phase = "publish"
      /\ resolutions' = [resolutions EXCEPT ![n].status = "applied"]
  BY DEF ApplyAnswer, Publish
<1>2. n \in DOMAIN resolutions /\ LockedHere(n)
  BY <1>1, PacketHeld DEF Inv, MaintainerKnows
<1>3. resolutions \in Seq(Answers)
  BY TypeParts DEF Inv, RecordsTyped
<1>4. resolutions[n] \in Answers
  BY <1>2, <1>3
<1>5. /\ resolutions' \in Seq(Answers)
      /\ Len(resolutions') = Len(resolutions)
      /\ DOMAIN resolutions' = DOMAIN resolutions
      /\ \A m \in DOMAIN resolutions : m # n => resolutions'[m] = resolutions[m]
      /\ resolutions'[n] = [resolutions[n] EXCEPT !.status = "applied"]
  BY <1>1, <1>2, <1>3, AnswerApplied
<1>6. resolutions[n].conflict \in Conflicts
  BY <1>4 DEF Answers
<1>7. conflicts[resolutions[n].conflict].ref = n
  BY <1>2 DEF LockedHere
<1>. QED  BY <1>1, <1>2, <1>5, <1>6, <1>7 DEF ApplyAnswer

\* Observations and other publications leave the answers alone.
LEMMA OtherWrites ==
    ASSUME Inv, (\E c \in Conflicts : Observe(c)) \/ PublishOther
    PROVE  /\ rev' = rev + 1 /\ UNCHANGED resolutions
           /\ conflicts' \in [Conflicts -> [status : {"open", "resolution_pending", "resolved"},
                                            ref : 0 .. Len(resolutions), version : Nat]]
           /\ \A c \in Conflicts :
                 /\ conflicts'[c].status = conflicts[c].status
                 /\ conflicts[c].status # "open" => conflicts'[c] = conflicts[c]
<1>. conflicts \in [Conflicts -> [status : {"open", "resolution_pending", "resolved"},
                                  ref : 0 .. Len(resolutions), version : Nat]]
  BY DEF Inv, TypeOK
<1>1. CASE \E c \in Conflicts : Observe(c)
  BY <1>1 DEF Observe
<1>2. CASE PublishOther
  BY <1>2 DEF PublishOther
<1>. QED  BY <1>1, <1>2

LEMMA RecordsStep ==
    ASSUME Inv, [Next]_vars
    PROVE  RecordsTyped' /\ Grows
<1>. USE DEF RecordsTyped, Grows
<1>0. /\ RecordsTyped /\ Len(resolutions) \in Nat
      /\ DOMAIN resolutions = 1 .. Len(resolutions)
  BY TypeParts DEF Inv
<1>1. CASE UNCHANGED canonical
  BY <1>0, <1>1 DEF canonical
<1>2. ASSUME NEW i \in Clients, LockAnswer(i) PROVE RecordsTyped' /\ Grows
  <2>. DEFINE m == Len(resolutions) + 1
              entry == [status |-> "resolution_pending", ref |-> m,
                        version |-> call[i].expected + 1]
  <2>1. /\ rev' = rev + 1 /\ resolutions' \in Seq(Answers) /\ Len(resolutions') = m
        /\ \A n \in DOMAIN resolutions : resolutions'[n] = resolutions[n]
        /\ conflicts' = [conflicts EXCEPT ![call[i].conflict] = entry]
        /\ call[i].expected \in Nat
    BY <1>2, LockWrites DEF Calls
  <2>2. entry \in [status : {"open", "resolution_pending", "resolved"},
                   ref : 0 .. m, version : Nat]
    BY <1>0, <2>1
  <2>3. conflicts' \in [Conflicts -> [status : {"open", "resolution_pending", "resolved"},
                                      ref : 0 .. m, version : Nat]]
    <3>. HIDE DEF entry
    <3>1. \A c \in Conflicts : conflicts[c] \in
              [status : {"open", "resolution_pending", "resolved"},
               ref : 0 .. m, version : Nat]
      BY <1>0
    <3>. QED  BY <1>0, <2>1, <2>2, <3>1
  <2>4. Grows
    BY <1>0, <2>1
  <2>. QED  BY <1>0, <2>1, <2>3, <2>4
<1>3. CASE ApplyAnswer
  <2>1. bound[packet] \in DOMAIN resolutions
    BY <1>3, ApplyWrites
  <2>2. resolutions[bound[packet]] \in Answers
    BY <1>0, <2>1
  <2>3. resolutions'[bound[packet]].key = resolutions[bound[packet]].key
    BY <1>3, <2>2, ApplyWrites DEF Answers
  <2>4. resolutions'[bound[packet]].status = "applied"
    BY <1>3, <2>2, ApplyWrites DEF Answers
  <2>5. /\ rev' = rev + 1 /\ resolutions' \in Seq(Answers)
        /\ Len(resolutions') = Len(resolutions)
        /\ \A m \in DOMAIN resolutions :
              m # bound[packet] => resolutions'[m] = resolutions[m]
    BY <1>3, ApplyWrites
  <2>6. Grows
    BY <1>0, <2>1, <2>3, <2>4, <2>5
  <2>7. conflicts' \in [Conflicts -> [status : {"open", "resolution_pending", "resolved"},
                                      ref : 0 .. Len(resolutions), version : Nat]]
    BY <1>0, <1>3, <2>1, ApplyWrites
  <2>. QED  BY <1>0, <2>5, <2>6, <2>7
<1>4. CASE (\E c \in Conflicts : Observe(c)) \/ PublishOther
  BY <1>0, <1>4, OtherWrites
<1>. QED  BY <1>1, <1>2, <1>3, <1>4, WhoPublishes

\* No answer goes away, so what names one keeps naming one.
LEMMA NamesKept ==
    ASSUME Grows, TypeOK, RecordsTyped'
    PROVE  0 .. Len(resolutions) \subseteq 0 .. Len(resolutions')
<1>. Len(resolutions) \in Nat /\ Len(resolutions') \in Nat
  BY TypeParts DEF RecordsTyped
<1>. QED  BY DEF Grows

LEMMA ClientsTypedStep ==
    ASSUME Inv, [Next]_vars
    PROVE  ClientsTyped'
<1>. DEFINE N == 0 .. Len(resolutions')
<1>0. /\ Len(resolutions) \in Nat /\ DOMAIN resolutions = 1 .. Len(resolutions)
      /\ rev \in Nat /\ resolutions \in Seq(Answers)
      /\ conflicts \in [Conflicts -> [status : {"open", "resolution_pending", "resolved"},
                                      ref : 0 .. Len(resolutions), version : Nat]]
  BY TypeParts DEF Inv, RecordsTyped
<1>1. /\ pc \in [Clients -> {"idle", "lookup", "inspect", "publish", "enqueue"}]
      /\ call \in [Clients -> Calls \cup {NoCall}]
      /\ base \in [Clients -> Nat] /\ found \in [Clients -> Nat]
      /\ made \in [Clients -> N]
  BY TypeParts, RecordsStep, NamesKept DEF Inv, ClientsTyped
<1>2. 0 \in N
  BY RecordsStep DEF RecordsTyped
<1>. SUFFICES /\ pc' \in [Clients -> {"idle", "lookup", "inspect", "publish", "enqueue"}]
              /\ call' \in [Clients -> Calls \cup {NoCall}]
              /\ base' \in [Clients -> Nat] /\ found' \in [Clients -> Nat]
              /\ made' \in [Clients -> N]
  BY DEF ClientsTyped
<1>. HIDE DEF N
<1>3. ASSUME UNCHANGED clientVars PROVE ClientsTyped'
  BY <1>1, <1>3 DEF clientVars, ClientsTyped, N
<1>4. ASSUME NEW i \in Clients, EndCall(i) PROVE ClientsTyped'
  BY <1>1, <1>2, <1>4 DEF EndCall, GoTo, ClientsTyped, N
<1>5. ASSUME NEW i \in Clients, Submit(i) PROVE ClientsTyped'
  <2>1. PICK new \in Calls : call' = [call EXCEPT ![i] = new]
    BY <1>0, <1>5 DEF Submit, Calls
  <2>. QED  BY <1>0, <1>1, <1>5, <2>1 DEF Submit, GoTo, ClientsTyped, N
<1>6. ASSUME NEW i \in Clients, Resubmit(i) PROVE ClientsTyped'
  <2>1. PICK n \in DOMAIN resolutions :
            call' = [call EXCEPT ![i] =
              [key |-> resolutions[n].key, conflict |-> resolutions[n].conflict,
               outcome |-> resolutions[n].outcome, expected |-> resolutions[n].expected]]
    BY <1>6 DEF Resubmit
  <2>2. resolutions[n] \in Answers
    BY <1>0
  <2>3. PICK new \in Calls : call' = [call EXCEPT ![i] = new]
    BY <2>1, <2>2 DEF Answers, Calls
  <2>. QED  BY <1>0, <1>1, <1>6, <2>3 DEF Resubmit, GoTo, ClientsTyped, N
<1>7. ASSUME NEW i \in Clients, LookUp(i) PROVE ClientsTyped'
  BY <1>1, <1>4, <1>7 DEF LookUp, GoTo, ClientsTyped, N
<1>8. ASSUME NEW i \in Clients, Inspect(i) PROVE ClientsTyped'
  <2>1. CASE EndCall(i)
    BY <1>4, <2>1
  <2>2. CASE ~EndCall(i)
    <3>1. /\ pc' = [pc EXCEPT ![i] = "publish"]
          /\ found' = [found EXCEPT ![i] = conflicts[call[i].conflict].version]
          /\ UNCHANGED <<call, base, made>>
          /\ pc[i] = "inspect"
      BY <1>8, <2>2 DEF Inspect, GoTo
    <3>2. call[i].conflict \in Conflicts
      BY <3>1 DEF Inv, ClientKnows, Calls
    <3>3. conflicts[call[i].conflict].version \in Nat
      BY <1>0, <3>2
    <3>. QED  BY <1>1, <3>1, <3>3 DEF ClientsTyped, N
  <2>. QED  BY <2>1, <2>2
<1>9. ASSUME NEW i \in Clients, LockAnswer(i) PROVE ClientsTyped'
  <2>1. Len(resolutions') = Len(resolutions) + 1
    BY <1>9, LockWrites
  <2>2. Len(resolutions) + 1 \in N
    BY <1>0, <2>1 DEF N
  <2>. QED  BY <1>1, <1>9, <2>2 DEF LockAnswer, GoTo, ClientsTyped, N
<1>10. ASSUME NEW i \in Clients,
              LockRefused(i) \/ EnqueueAnswer(i) \/ EnqueueRefused(i) \/ CrashClient(i)
       PROVE ClientsTyped'
  <2>1. EndCall(i)
    BY <1>10 DEF LockRefused, EnqueueAnswer, EnqueueRefused, CrashClient
  <2>. QED  BY <1>4, <2>1
<1>. QED
  BY <1>3, <1>5, <1>6, <1>7, <1>8, <1>9, <1>10, WhoCalls DEF ClientsTyped, N

\* What a report leaves behind.
LEMMA Reported ==
    ASSUME Inv, phase # "idle", NEW status \in {"queued", "completed", "set_aside"},
           Report(status), UNCHANGED bound
    PROVE  /\ QueueTyped' <=> bound \in [Keys -> 0 .. Len(resolutions')]
           /\ MaintainerTyped' /\ TriesLeft'
           /\ \A k \in Keys : queue'[k] = IF k = packet THEN status ELSE queue[k]
<1>1. /\ packet \in Keys
      /\ queue \in [Keys -> {"none", "queued", "leased", "completed", "set_aside"}]
      /\ \A k \in Keys : queue[k] = "leased" <=> packet = k
  BY PacketHeld DEF Inv, TypeOK
<1>2. /\ queue' = [queue EXCEPT ![packet] = status]
      /\ phase' = "idle" /\ packet' = NoKey /\ plan' = 0 /\ tries' = 0
  BY DEF Report
<1>3. \A k \in Keys : queue'[k] = IF k = packet THEN status ELSE queue[k]
  BY <1>1, <1>2
<1>4. queue' \in [Keys -> {"none", "queued", "leased", "completed", "set_aside"}]
  BY <1>1, <1>2
<1>5. MaintainerTyped'
  BY <1>1, <1>2, <1>3, ConflictAssumption DEF MaintainerTyped
<1>6. TriesLeft'
  BY <1>2, ConflictAssumption DEF TriesLeft
<1>. QED  BY <1>3, <1>4, <1>5, <1>6 DEF QueueTyped

\* The maintainer's steps that keep the packet.
LEMMA PacketKept ==
    ASSUME Inv, phase # "idle", UNCHANGED <<queue, packet>>,
           phase' \in {"refresh", "check", "validate", "publish", "complete"},
           plan' \in Nat, tries' \in 0 .. MaxTries,
           phase' = "refresh" => tries' < MaxTries
    PROVE  MaintainerTyped' /\ TriesLeft'
BY DEF Inv, TypeOK, TriesLeft, MaintainerTyped

\* Whether a stale plan is tried again or given up, types hold.
LEMMA StaleTyped ==
    ASSUME Inv, phase # "idle", Stale, UNCHANGED bound
    PROVE  /\ QueueTyped' <=> bound \in [Keys -> 0 .. Len(resolutions')]
           /\ MaintainerTyped' /\ TriesLeft'
<1>1. CASE tries < MaxTries
  <2>1. UNCHANGED <<queue, packet, plan, tries>> /\ phase' = "refresh"
    BY <1>1 DEF Stale
  <2>2. plan \in Nat /\ tries \in 0 .. MaxTries
        /\ queue \in [Keys -> {"none", "queued", "leased", "completed", "set_aside"}]
    BY DEF Inv, TypeOK
  <2>. QED  BY <1>1, <2>1, <2>2, PacketKept DEF QueueTyped
<1>2. CASE ~(tries < MaxTries)
  BY <1>2, Reported DEF Stale
<1>. QED  BY <1>1, <1>2

LEMMA QueueTypedStep ==
    ASSUME Inv, [Next]_vars
    PROVE  QueueTyped' /\ MaintainerTyped' /\ TriesLeft'
<1>0. /\ Len(resolutions) \in Nat /\ rev \in Nat
      /\ queue \in [Keys -> {"none", "queued", "leased", "completed", "set_aside"}]
      /\ bound \in [Keys -> 0 .. Len(resolutions')]
      /\ MaintainerTyped /\ TriesLeft
  BY TypeParts, RecordsStep, NamesKept DEF Inv, QueueTyped, RecordsTyped
<1>1. ASSUME UNCHANGED <<queue, bound, workerVars>>
      PROVE  QueueTyped' /\ MaintainerTyped' /\ TriesLeft'
  BY <1>0, <1>1 DEF workerVars, QueueTyped, MaintainerTyped, TriesLeft
<1>2. CASE UNCHANGED vars
  BY <1>1, <1>2 DEF vars
<1>3. ASSUME NEW i \in Clients, EnqueueAnswer(i)
      PROVE  QueueTyped' /\ MaintainerTyped' /\ TriesLeft'
  <2>1. call[i].key \in Keys
    BY <1>3 DEF EnqueueAnswer, Inv, ClientKnows, Calls
  <2>2. CASE queue[call[i].key] # "none"
    BY <1>1, <1>3, <2>2 DEF EnqueueAnswer
  <2>3. CASE queue[call[i].key] = "none"
    <3>1. /\ queue' = [queue EXCEPT ![call[i].key] = "queued"]
          /\ bound' = [bound EXCEPT ![call[i].key] = made[i]]
          /\ UNCHANGED resolutions /\ UNCHANGED <<phase, packet, plan, tries>>
      BY <1>3, <2>3 DEF EnqueueAnswer, canonical, workerVars
    <3>2. made[i] \in 0 .. Len(resolutions')
      BY <3>1 DEF Inv, TypeOK
    <3>3. QueueTyped'
      BY <1>0, <2>1, <3>1, <3>2 DEF QueueTyped
    <3>4. MaintainerTyped' /\ TriesLeft'
      BY <1>0, <2>1, <2>3, <3>1 DEF MaintainerTyped, TriesLeft
    <3>. QED  BY <3>3, <3>4
  <2>. QED  BY <2>2, <2>3
<1>4. ASSUME NEW i \in Clients,
             \/ Submit(i) \/ Resubmit(i) \/ LookUp(i) \/ Inspect(i) \/ LockAnswer(i)
             \/ LockRefused(i) \/ EnqueueRefused(i) \/ CrashClient(i)
      PROVE  UNCHANGED <<queue, bound, workerVars>>
  BY <1>4 DEF Submit, Resubmit, LookUp, Inspect, LockAnswer, LockRefused,
              EnqueueRefused, CrashClient
<1>5. CASE (\E c \in Conflicts : Observe(c)) \/ PublishOther
  BY <1>1, <1>5 DEF Observe, PublishOther
<1>6. CASE Lease
  <2>1. PICK k \in Keys : /\ queue[k] = "queued" /\ packet' = k
                          /\ queue' = [queue EXCEPT ![k] = "leased"]
    BY <1>6 DEF Lease
  <2>2. phase = "idle" /\ phase' = "refresh" /\ UNCHANGED <<bound, plan, tries>>
    BY <1>6 DEF Lease
  <2>. QED
    BY <1>0, <2>1, <2>2, ConflictAssumption DEF QueueTyped, MaintainerTyped, TriesLeft
<1>7. CASE Refresh
  <2>1. tries' = tries + 1 /\ tries \in Nat /\ tries < MaxTries /\ plan' = rev
    BY <1>0, <1>7 DEF Refresh, MaintainerTyped, TriesLeft
  <2>2. tries' \in 0 .. MaxTries
    BY <2>1, ConflictAssumption
  <2>. QED  BY <1>0, <1>7, <2>1, <2>2, PacketKept DEF Refresh, QueueTyped
<1>8. CASE ProposalFails
  BY <1>0, <1>8, Reported DEF ProposalFails
<1>9. CASE CheckBase
  <2>1. CASE rev = plan
    BY <1>0, <1>9, <2>1, PacketKept DEF CheckBase, QueueTyped, MaintainerTyped
  <2>2. CASE rev # plan
    BY <1>0, <1>9, <2>2, StaleTyped DEF CheckBase
  <2>. QED  BY <2>1, <2>2
<1>10. CASE Validate
  <2>1. CASE LockedHere(bound[packet])
    BY <1>0, <1>10, <2>1, PacketKept DEF Validate, QueueTyped, MaintainerTyped
  <2>2. CASE ~LockedHere(bound[packet])
    BY <1>0, <1>10, <2>2, Reported DEF Validate
  <2>. QED  BY <2>1, <2>2
<1>11. CASE ApplyAnswer
  BY <1>0, <1>11, PacketKept DEF ApplyAnswer, QueueTyped, MaintainerTyped
<1>12. CASE ApplyRefused
  BY <1>0, <1>12, StaleTyped DEF ApplyRefused
<1>13. CASE Complete
  BY <1>0, <1>13, Reported DEF Complete
<1>14. CASE CrashMaintainer
  BY <1>0, <1>14, Reported DEF CrashMaintainer
<1>. QED
  BY <1>1, <1>2, <1>3, <1>4, <1>5, <1>6, <1>7, <1>8, <1>9, <1>10, <1>11, <1>12,
     <1>13, <1>14 DEF Next

LEMMA ConflictTypeStep ==
    ASSUME Inv, [Next]_vars
    PROVE  TypeOK' /\ TriesLeft'
<1>1. replied' \subseteq Keys
  <2>. replied \subseteq Keys
    BY DEF Inv, TypeOK
  <2>1. ASSUME NEW i \in Clients, LookUp(i) \/ EnqueueAnswer(i)
        PROVE  replied' \subseteq replied \cup {call[i].key} /\ call[i].key \in Keys
    BY <2>1 DEF LookUp, EnqueueAnswer, Inv, ClientKnows, Calls
  <2>2. CASE ~\E i \in Clients : LookUp(i) \/ EnqueueAnswer(i)
    <3>1. UNCHANGED replied
      BY <2>2 DEF Next, vars, Submit, Resubmit, Inspect, LockAnswer, LockRefused,
                  EnqueueRefused, CrashClient, Lease, Refresh, ProposalFails, CheckBase,
                  Validate, ApplyAnswer, ApplyRefused, Complete, CrashMaintainer,
                  Observe, PublishOther
    <3>. QED  BY <3>1
  <2>. QED  BY <2>1, <2>2
<1>. QED  BY <1>1, TypeParts, RecordsStep, ClientsTypedStep, QueueTypedStep
            DEF RecordsTyped, QueueTyped, ClientsTyped, MaintainerTyped, TypeOK, Answers

-----------------------------------------------------------------------------
(***************************************************************************)
(* Part 2: the records.                                                    *)
(***************************************************************************)

LEMMA RecordsAgreeStep ==
    ASSUME Inv, [Next]_vars
    PROVE  RecordsAgree' /\ KeysDiffer'
<1>0. /\ RecordsTyped /\ RecordsAgree /\ KeysDiffer
      /\ Len(resolutions) \in Nat /\ DOMAIN resolutions = 1 .. Len(resolutions)
      /\ \A n \in DOMAIN resolutions : resolutions[n] \in Answers
      /\ \A c \in Conflicts : conflicts[c] \in
             [status : {"open", "resolution_pending", "resolved"},
              ref : 0 .. Len(resolutions), version : Nat]
  BY TypeParts DEF Inv, RecordsTyped
<1>1. CASE UNCHANGED canonical
  BY <1>0, <1>1 DEF canonical, RecordsAgree, KeysDiffer, LockIsPending, ConflictNames
<1>2. ASSUME NEW i \in Clients, LockAnswer(i) PROVE RecordsAgree' /\ KeysDiffer'
  <2>. DEFINE m == Len(resolutions) + 1
              c == call[i].conflict
  <2>1. /\ call[i] \in Calls /\ c \in Conflicts
        /\ conflicts[c].status = "open"
        /\ WithKey(call[i].key) = {}
        /\ DOMAIN resolutions' = DOMAIN resolutions \cup {m}
        /\ \A n \in DOMAIN resolutions : resolutions'[n] = resolutions[n]
    BY <1>2, LockWrites
  <2>2. /\ resolutions'[m].key = call[i].key /\ resolutions'[m].conflict = c
        /\ resolutions'[m].status = "locked"
        /\ resolutions'[m].expected = call[i].expected
        /\ resolutions'[m].lockedVersion = call[i].expected + 1
    BY <1>2, LockWrites
  <2>3. /\ conflicts'[c].status = "resolution_pending" /\ conflicts'[c].ref = m
        /\ conflicts'[c].version = call[i].expected + 1
        /\ \A d \in Conflicts : d # c => conflicts'[d] = conflicts[d]
    <3>1. conflicts' = [conflicts EXCEPT ![c] =
              [status |-> "resolution_pending", ref |-> m, version |-> call[i].expected + 1]]
      BY <1>2, LockWrites
    <3>2. DOMAIN conflicts = Conflicts
      BY <1>0 DEF RecordsTyped
    <3>. QED  BY <2>1, <3>1, <3>2
  <2>4. KeysDiffer'
    <3>1. \A n \in DOMAIN resolutions : resolutions[n].key # call[i].key
      BY <2>1 DEF WithKey
    <3>2. \A n, k \in DOMAIN resolutions :
              resolutions'[n].key = resolutions'[k].key => n = k
      BY <1>0, <2>1 DEF KeysDiffer
    <3>3. \A n \in DOMAIN resolutions : resolutions'[n].key # resolutions'[m].key
      BY <2>1, <2>2, <3>1
    <3>4. \A n, k \in DOMAIN resolutions' :
              resolutions'[n].key = resolutions'[k].key => n = k
      BY <2>1, <3>2, <3>3
    <3>. QED  BY <3>4 DEF KeysDiffer
  <2>5. ASSUME NEW n \in DOMAIN resolutions' PROVE LockIsPending(n)'
    <3>1. CASE n = m
      BY <2>2, <2>3, <3>1 DEF LockIsPending
    <3>2. CASE n \in DOMAIN resolutions
      <4>1. resolutions[n].conflict \in Conflicts
        BY <1>0, <3>2 DEF Answers
      <4>2. LockIsPending(n)
        BY <1>0, <3>2 DEF RecordsAgree
      <4>. QED  BY <2>1, <2>3, <3>2, <4>1, <4>2 DEF LockIsPending
    <3>. QED  BY <2>1, <3>1, <3>2
  <2>6. ASSUME NEW d \in Conflicts PROVE ConflictNames(d)'
    <3>1. CASE d = c
      BY <2>1, <2>2, <2>3, <3>1 DEF ConflictNames
    <3>2. CASE d # c
      BY <1>0, <2>1, <2>3, <3>2 DEF RecordsAgree, ConflictNames
    <3>. QED  BY <3>1, <3>2
  <2>. QED  BY <2>4, <2>5, <2>6 DEF RecordsAgree
<1>3. CASE ApplyAnswer
  <2>. DEFINE n == bound[packet]
              c == resolutions[n].conflict
  <2>1. /\ n \in DOMAIN resolutions /\ c \in Conflicts /\ LockedHere(n)
        /\ DOMAIN resolutions' = DOMAIN resolutions
        /\ \A m \in DOMAIN resolutions : m # n => resolutions'[m] = resolutions[m]
    BY <1>3, ApplyWrites
  <2>2. /\ resolutions'[n].status = "applied"
        /\ resolutions'[n].key = resolutions[n].key
        /\ resolutions'[n].conflict = c
        /\ resolutions'[n].lockedVersion = resolutions[n].lockedVersion
    <3>1. resolutions'[n] = [resolutions[n] EXCEPT !.status = "applied"]
      BY <1>3, ApplyWrites
    <3>. QED  BY <1>0, <2>1, <3>1 DEF Answers
  <2>3. /\ conflicts'[c].status \in {"open", "resolved"} /\ conflicts'[c].ref = n
        /\ conflicts'[c].version = conflicts[c].version + 1
        /\ \A d \in Conflicts : d # c => conflicts'[d] = conflicts[d]
    BY <1>0, <1>3, <2>1, ApplyWrites DEF RecordsTyped
  <2>4. KeysDiffer'
    BY <1>0, <2>1, <2>2 DEF KeysDiffer
  <2>5. conflicts[c].ref = n /\ conflicts[c].version = resolutions[n].lockedVersion
    BY <2>1 DEF LockedHere
  <2>6. ASSUME NEW m \in DOMAIN resolutions' PROVE LockIsPending(m)'
    <3>1. CASE m = n
      BY <2>2, <3>1 DEF LockIsPending
    <3>2. CASE m # n
      <4>1. resolutions[m].conflict \in Conflicts /\ LockIsPending(m)
        BY <1>0, <2>1 DEF Answers, RecordsAgree
      <4>2. resolutions[m].status = "locked" => resolutions[m].conflict # c
        BY <2>5, <3>2, <4>1 DEF LockIsPending
      <4>. QED  BY <2>1, <2>3, <3>2, <4>1, <4>2 DEF LockIsPending
    <3>. QED  BY <3>1, <3>2
  <2>7. ASSUME NEW d \in Conflicts PROVE ConflictNames(d)'
    <3>1. CASE d = c
      BY <2>1, <2>2, <2>3, <2>5, <3>1 DEF ConflictNames
    <3>2. CASE d # c
      <4>1. ConflictNames(d)
        BY <1>0 DEF RecordsAgree
      <4>2. conflicts[d].status # "open" => conflicts[d].ref # n
        BY <3>2, <4>1 DEF ConflictNames
      <4>. QED  BY <2>1, <2>3, <3>2, <4>1, <4>2 DEF ConflictNames
    <3>. QED  BY <3>1, <3>2
  <2>. QED  BY <2>4, <2>6, <2>7 DEF RecordsAgree
<1>4. CASE (\E c \in Conflicts : Observe(c)) \/ PublishOther
  <2>1. /\ UNCHANGED resolutions
        /\ \A c \in Conflicts :
              /\ conflicts'[c].status = conflicts[c].status
              /\ conflicts[c].status # "open" => conflicts'[c] = conflicts[c]
    BY <1>4, OtherWrites
  <2>2. KeysDiffer'
    BY <1>0, <2>1 DEF KeysDiffer
  <2>3. ASSUME NEW n \in DOMAIN resolutions PROVE LockIsPending(n)'
    <3>1. resolutions[n].conflict \in Conflicts /\ LockIsPending(n)
      BY <1>0 DEF Answers, RecordsAgree
    <3>. QED  BY <2>1, <3>1 DEF LockIsPending
  <2>4. \A c \in Conflicts : ConflictNames(c)'
    BY <1>0, <2>1 DEF RecordsAgree, ConflictNames
  <2>. QED  BY <2>1, <2>2, <2>3, <2>4 DEF RecordsAgree
<1>. QED  BY <1>1, <1>2, <1>3, <1>4, WhoPublishes

-----------------------------------------------------------------------------
(***************************************************************************)
(* Part 3: what the processes know.                                        *)
(***************************************************************************)

\* A step of somebody else takes nothing away from what a client knows.
LEMMA ClientUndisturbed ==
    ASSUME Inv, Grows, TypeOK', NEW i \in Clients,
           pc'[i] = pc[i], call'[i] = call[i], base'[i] = base[i],
           found'[i] = found[i], made'[i] = made[i]
    PROVE  ClientKnows(i)'
<1>0. /\ ClientKnows(i) /\ base[i] \in Nat /\ rev \in Nat /\ rev' \in Nat
  BY DEF Inv, TypeOK
<1>1. CASE rev' = rev
  <2>1. UNCHANGED <<conflicts, resolutions>>
    BY <1>1 DEF Grows
  <2>. QED  BY <1>0, <1>1, <2>1 DEF ClientKnows, WithKey
<1>2. CASE rev' # rev
  <2>1. base'[i] <= rev' /\ base'[i] # rev'
    BY <1>0, <1>2 DEF Grows, ClientKnows
  <2>2. pc'[i] = "enqueue" => /\ made'[i] \in DOMAIN resolutions'
                              /\ resolutions'[made'[i]].key = call'[i].key
    BY <1>0 DEF Grows, ClientKnows
  <2>. QED  BY <1>0, <2>1, <2>2 DEF ClientKnows
<1>. QED  BY <1>1, <1>2

LEMMA ClientKnowsStep ==
    ASSUME Inv, [Next]_vars, NEW i \in Clients
    PROVE  ClientKnows(i)'
<1>0. /\ ClientKnows(i) /\ rev \in Nat /\ Grows /\ TypeOK' /\ RecordsTyped
      /\ pc \in [Clients -> {"idle", "lookup", "inspect", "publish", "enqueue"}]
      /\ call \in [Clients -> Calls \cup {NoCall}]
      /\ base \in [Clients -> Nat] /\ found \in [Clients -> Nat]
      /\ made \in [Clients -> 0 .. Len(resolutions)]
      /\ resolutions \in Seq(Answers)
  BY ConflictTypeStep, RecordsStep, TypeParts DEF Inv, RecordsTyped, ClientsTyped
<1>1. CASE UNCHANGED clientVars
  BY <1>0, <1>1, ClientUndisturbed DEF clientVars
<1>2. ASSUME NEW j \in Clients, j # i,
             \/ Submit(j) \/ Resubmit(j) \/ LookUp(j) \/ Inspect(j) \/ LockAnswer(j)
             \/ LockRefused(j) \/ EnqueueAnswer(j) \/ EnqueueRefused(j) \/ CrashClient(j)
      PROVE  ClientKnows(i)'
  <2>1. /\ pc'[i] = pc[i] /\ call'[i] = call[i] /\ base'[i] = base[i]
        /\ found'[i] = found[i] /\ made'[i] = made[i]
    BY <1>0, <1>2 DEF Submit, Resubmit, LookUp, Inspect, LockAnswer, LockRefused,
        EnqueueAnswer, EnqueueRefused, CrashClient, EndCall, GoTo
  <2>. QED  BY <1>0, <2>1, ClientUndisturbed
<1>3. ASSUME EndCall(i) PROVE ClientKnows(i)'
  <2>1. pc'[i] = "idle" /\ base'[i] = 0
    BY <1>0, <1>3 DEF EndCall, GoTo
  <2>. QED  BY <1>0, <2>1 DEF ClientKnows, TypeOK
<1>4. CASE Submit(i) \/ Resubmit(i)
  <2>1. pc'[i] = "lookup" /\ base'[i] = rev /\ rev' = rev /\ pc'[i] # "idle"
    BY <1>0, <1>4 DEF Submit, Resubmit, GoTo, canonical
  <2>2. call'[i] \in Calls
    <3>1. CASE Submit(i)
      <4>1. PICK k \in Keys, c \in Conflicts, outcome \in Outcomes :
               call' = [call EXCEPT ![i] =
                  [key |-> k, conflict |-> c, outcome |-> outcome,
                   expected |-> conflicts[c].version]]
        BY <3>1 DEF Submit
      <4>. QED  BY <1>0, <4>1 DEF Calls, RecordsTyped
    <3>2. CASE Resubmit(i)
      <4>1. PICK n \in DOMAIN resolutions :
              call' = [call EXCEPT ![i] =
                [key |-> resolutions[n].key, conflict |-> resolutions[n].conflict,
                 outcome |-> resolutions[n].outcome, expected |-> resolutions[n].expected]]
        BY <3>2 DEF Resubmit
      <4>2. resolutions[n] \in Answers
        BY <1>0
      <4>. QED  BY <1>0, <4>1, <4>2 DEF Calls, Answers
    <3>. QED  BY <1>4, <3>1, <3>2
  <2>. QED  BY <1>0, <2>1, <2>2 DEF ClientKnows
<1>5. CASE LookUp(i)
  <2>1. CASE EndCall(i)
    BY <1>3, <2>1
  <2>2. CASE ~EndCall(i)
    <3>1. /\ WithKey(call[i].key) = {} /\ pc'[i] = "inspect" /\ pc[i] = "lookup"
          /\ UNCHANGED <<call, base, found, made, rev, resolutions>>
      BY <1>0, <1>5, <2>2 DEF LookUp, GoTo, canonical
    <3>. QED  BY <1>0, <3>1 DEF ClientKnows, WithKey
  <2>. QED  BY <2>1, <2>2
<1>6. CASE Inspect(i)
  <2>1. CASE EndCall(i)
    BY <1>3, <2>1
  <2>2. CASE ~EndCall(i)
    <3>1. /\ pc[i] = "inspect" /\ pc'[i] = "publish"
          /\ conflicts[call[i].conflict].status = "open"
          /\ conflicts[call[i].conflict].version = call[i].expected
          /\ found'[i] = conflicts[call[i].conflict].version
          /\ UNCHANGED <<call, base, made, rev, conflicts, resolutions>>
      BY <1>0, <1>6, <2>2 DEF Inspect, GoTo, canonical
    <3>. QED  BY <1>0, <3>1 DEF ClientKnows, WithKey
  <2>. QED  BY <2>1, <2>2
<1>7. CASE LockAnswer(i)
  <2>. DEFINE m == Len(resolutions) + 1
  <2>1. /\ rev' = rev + 1 /\ base[i] = rev /\ call[i] \in Calls
        /\ m \in DOMAIN resolutions' /\ resolutions'[m].key = call[i].key
    BY <1>7, LockWrites
  <2>2. /\ pc'[i] = "enqueue" /\ made'[i] = m /\ UNCHANGED <<call, base>>
    BY <1>0, <1>7 DEF LockAnswer, GoTo
  <2>. QED  BY <1>0, <2>1, <2>2 DEF ClientKnows
<1>8. CASE LockRefused(i) \/ EnqueueAnswer(i) \/ EnqueueRefused(i) \/ CrashClient(i)
  <2>1. EndCall(i)
    BY <1>8 DEF LockRefused, EnqueueAnswer, EnqueueRefused, CrashClient
  <2>. QED  BY <1>3, <2>1
<1>. QED  BY <1>1, <1>2, <1>4, <1>5, <1>6, <1>7, <1>8, WhoCalls

\* A packet keeps the answer it was made for.
LEMMA PacketBoundStep ==
    ASSUME Inv, [Next]_vars, NEW k \in Keys
    PROVE  /\ PacketBound(k)'
           /\ queue[k] # "none" => bound'[k] = bound[k]
<1>0. /\ Grows /\ PacketBound(k) 
      /\ queue \in [Keys -> {"none", "queued", "leased", "completed", "set_aside"}]
      /\ bound \in [Keys -> 0 .. Len(resolutions)]
  BY RecordsStep DEF Inv, TypeOK
<1>1. ASSUME UNCHANGED bound, queue[k] = "none" => queue'[k] = "none"
      PROVE  PacketBound(k)'
  BY <1>0, <1>1 DEF PacketBound, Grows
<1>2. CASE \E i \in Clients : EnqueueAnswer(i)
  <2>1. PICK i \in Clients : EnqueueAnswer(i)
    BY <1>2
  <2>2. /\ made[i] \in DOMAIN resolutions /\ resolutions[made[i]].key = call[i].key
        /\ UNCHANGED resolutions
    BY <2>1 DEF EnqueueAnswer, Inv, ClientKnows, canonical
  <2>3. CASE call[i].key = k /\ queue[k] = "none"
    BY <1>0, <2>1, <2>2, <2>3 DEF EnqueueAnswer, PacketBound
  <2>4. CASE ~(call[i].key = k /\ queue[k] = "none")
    <3>1. queue'[k] = queue[k] /\ bound'[k] = bound[k]
      BY <1>0, <2>1, <2>4 DEF EnqueueAnswer
    <3>. QED  BY <1>0, <2>2, <3>1 DEF PacketBound
  <2>. QED  BY <2>3, <2>4
<1>3. CASE ~\E i \in Clients : EnqueueAnswer(i)
  <2>1. UNCHANGED bound
    BY <1>3 DEF Next, vars, Submit, Resubmit, LookUp, Inspect, LockAnswer, LockRefused,
                EnqueueRefused, CrashClient, Lease, Refresh, ProposalFails, CheckBase,
                Validate, ApplyAnswer, ApplyRefused, Complete, CrashMaintainer,
                Observe, PublishOther
  <2>2. phase # "idle" => queue[packet] = "leased"
    BY PacketHeld
  <2>3. queue[k] = "none" => queue'[k] = "none"
    <3>1. ASSUME NEW status, phase # "idle", queue' = [queue EXCEPT ![packet] = status]
          PROVE  queue[k] = "none" => queue'[k] = "none"
      BY <1>0, <2>2, <3>1
    <3>2. CASE ProposalFails \/ CheckBase \/ Validate \/ ApplyRefused \/ Complete
               \/ CrashMaintainer
      BY <3>1, <3>2 DEF ProposalFails, CheckBase, Validate, ApplyRefused, Complete,
                        CrashMaintainer, Stale, Report
    <3>3. CASE Lease
      BY <1>0, <3>3 DEF Lease
    <3>4. CASE UNCHANGED queue
      BY <3>4
    <3>5. UNCHANGED queue \/ Lease \/ ProposalFails \/ CheckBase \/ Validate
          \/ ApplyRefused \/ Complete \/ CrashMaintainer
      BY <1>3 DEF Next, vars, Submit, Resubmit, LookUp, Inspect, LockAnswer, LockRefused,
                  EnqueueRefused, CrashClient, Refresh, ApplyAnswer, Observe, PublishOther
    <3>. QED  BY <3>2, <3>3, <3>4, <3>5
  <2>. QED  BY <1>1, <2>1, <2>3
<1>. QED  BY <1>2, <1>3

LEMMA MaintainerKnowsStep ==
    ASSUME Inv, [Next]_vars
    PROVE  MaintainerKnows'
<1>0. /\ Grows /\ TypeOK' /\ MaintainerKnows /\ MaintainerTyped /\ rev \in Nat /\ plan \in Nat
      /\ rev' \in Nat
      /\ queue \in [Keys -> {"none", "queued", "leased", "completed", "set_aside"}]
  BY RecordsStep, ConflictTypeStep, TypeParts DEF Inv, TypeOK
<1>1. ASSUME NEW k \in Keys, queue[k] = "completed"
      PROVE  resolutions'[bound'[k]].status = "applied"
  <2>1. bound'[k] = bound[k] /\ bound[k] \in DOMAIN resolutions
    BY <1>1, PacketBoundStep DEF Inv, PacketBound
  <2>2. resolutions[bound[k]].status = "applied"
    BY <1>0, <1>1 DEF MaintainerKnows
  <2>. QED  BY <1>0, <2>1, <2>2 DEF Grows
<1>2. ASSUME NEW k \in Keys, queue'[k] = "completed", queue[k] # "completed"
      PROVE  resolutions'[bound'[k]].status = "applied"
  <2>1. CASE Complete
    <3>1. phase = "complete" /\ queue' = [queue EXCEPT ![packet] = "completed"]
          /\ UNCHANGED <<bound, resolutions>>
      BY <2>1 DEF Complete, Report, canonical
    <3>2. k = packet
      BY <1>0, <1>2, <3>1
    <3>. QED  BY <1>0, <3>1, <3>2 DEF MaintainerKnows
  <2>2. CASE ~Complete
    <3>1. ASSUME NEW i \in Clients, EnqueueAnswer(i) PROVE FALSE
      BY <1>0, <1>2, <3>1 DEF EnqueueAnswer
    <3>2. ASSUME Lease PROVE FALSE
      BY <1>0, <1>2, <3>2 DEF Lease
    <3>3. ASSUME NEW status \in {"queued", "set_aside"}, Report(status) PROVE FALSE
      BY <1>0, <1>2, <3>3 DEF Report
    <3>4. queue' # queue
      BY <1>2
    <3>5. ProposalFails \/ CheckBase \/ Validate \/ ApplyRefused \/ CrashMaintainer
      BY <2>2, <3>1, <3>2, <3>4
         DEF Next, vars, Submit, Resubmit, LookUp, Inspect, LockAnswer, LockRefused,
             EnqueueRefused, CrashClient, Refresh, ApplyAnswer, Observe, PublishOther
    <3>. QED
      BY <3>3, <3>4, <3>5 DEF ProposalFails, CheckBase, Validate, ApplyRefused,
                              CrashMaintainer, Stale
  <2>. QED  BY <2>1, <2>2
<1>3. \A k \in Keys : queue'[k] = "completed" => resolutions'[bound'[k]].status = "applied"
  BY <1>1, <1>2
<1>. SUFFICES /\ plan' <= rev'
              /\ phase' = "publish" /\ plan' = rev' => LockedHere(bound[packet])'
              /\ phase' = "complete" => resolutions'[bound'[packet']].status = "applied"
  BY <1>3 DEF MaintainerKnows
<1>4. CASE UNCHANGED workerVars
  <2>1. phase # "idle" => bound'[packet] = bound[packet] /\ bound[packet] \in DOMAIN resolutions
    BY PacketHeld, PacketBoundStep
  <2>2. phase' = phase /\ packet' = packet /\ plan' = plan
    BY <1>4 DEF workerVars
  <2>3. phase = "complete" => resolutions'[bound'[packet]].status = "applied"
    BY <1>0, <2>1 DEF Grows, MaintainerKnows
  <2>4. rev' # rev => plan < rev'
    BY <1>0 DEF Grows, MaintainerKnows
  <2>5. ASSUME phase = "publish", plan = rev, rev' = rev PROVE LockedHere(bound[packet])'
    <3>1. LockedHere(bound[packet]) /\ UNCHANGED <<conflicts, resolutions>>
      BY <1>0, <2>5 DEF MaintainerKnows, Grows
    <3>. QED  BY <2>1, <2>2, <2>5, <3>1 DEF LockedHere
  <2>. QED  BY <1>0, <2>2, <2>3, <2>4, <2>5 DEF Grows, MaintainerKnows
<1>5. ASSUME phase' \notin {"publish", "complete"}, plan' = plan \/ plan' = rev \/ plan' = 0
      PROVE  /\ plan' <= rev'
             /\ phase' = "publish" /\ plan' = rev' => LockedHere(bound[packet])'
             /\ phase' = "complete" => resolutions'[bound'[packet']].status = "applied"
  BY <1>0, <1>5 DEF Grows, MaintainerKnows
<1>6. CASE Lease \/ Refresh
  BY <1>5, <1>6 DEF Lease, Refresh
<1>7. CASE ProposalFails \/ CheckBase \/ ApplyRefused \/ Complete \/ CrashMaintainer
  BY <1>5, <1>7 DEF ProposalFails, CheckBase, ApplyRefused, Complete, CrashMaintainer,
                    Stale, Report
<1>8. CASE Validate
  <2>1. CASE LockedHere(bound[packet])
    <3>1. /\ phase' = "publish" /\ plan' = plan /\ rev' = rev
          /\ UNCHANGED <<conflicts, resolutions, bound, packet>>
      BY <1>8, <2>1 DEF Validate, canonical
    <3>2. LockedHere(bound[packet])'
      BY <2>1, <3>1 DEF LockedHere
    <3>. QED  BY <1>0, <3>1, <3>2 DEF MaintainerKnows
  <2>2. CASE ~LockedHere(bound[packet])
    BY <1>5, <1>8, <2>2 DEF Validate, Report
  <2>. QED  BY <2>1, <2>2
<1>9. CASE ApplyAnswer
  <2>1. /\ phase' = "complete" /\ UNCHANGED <<plan, packet, bound>>
        /\ rev' = rev + 1
    BY <1>9 DEF ApplyAnswer, Publish
  <2>2. resolutions'[bound[packet]].status = "applied"
    <3>1. /\ bound[packet] \in DOMAIN resolutions
          /\ resolutions'[bound[packet]]
                = [resolutions[bound[packet]] EXCEPT !.status = "applied"]
      BY <1>9, ApplyWrites
    <3>2. resolutions[bound[packet]] \in Answers
      BY <3>1, TypeParts DEF Inv, RecordsTyped
    <3>. QED  BY <3>1, <3>2 DEF Answers
  <2>. QED  BY <1>0, <2>1, <2>2 DEF MaintainerKnows
<1>10. CASE (\E c \in Conflicts : Observe(c)) \/ PublishOther
  BY <1>4, <1>10 DEF Observe, PublishOther
<1>11. ASSUME NEW i \in Clients,
              \/ Submit(i) \/ Resubmit(i) \/ LookUp(i) \/ Inspect(i) \/ LockAnswer(i)
              \/ LockRefused(i) \/ EnqueueAnswer(i) \/ EnqueueRefused(i) \/ CrashClient(i)
       PROVE  UNCHANGED workerVars
  BY <1>11 DEF Submit, Resubmit, LookUp, Inspect, LockAnswer, LockRefused,
               EnqueueAnswer, EnqueueRefused, CrashClient
<1>12. CASE UNCHANGED vars
  BY <1>4, <1>12 DEF vars
<1>. QED  BY <1>4, <1>6, <1>7, <1>8, <1>9, <1>10, <1>11, <1>12 DEF Next

-----------------------------------------------------------------------------
(***************************************************************************)
(* Part 4: the theorems.                                                   *)
(***************************************************************************)

\* The invariant holds in every state.
THEOREM ConflictInvariant == Spec => []Inv
<1>1. Init => Inv
  <2>. SUFFICES ASSUME Init PROVE Inv
    OBVIOUS
  <2>1. resolutions = <<>> /\ Len(resolutions) = 0 /\ DOMAIN resolutions = {}
    BY DEF Init
  <2>2. RecordsTyped
    BY <2>1 DEF Init, RecordsTyped
  <2>3. QueueTyped /\ ClientsTyped /\ replied \subseteq Keys
    BY <2>1 DEF Init, QueueTyped, ClientsTyped
  <2>4. MaintainerTyped /\ TriesLeft
    BY ConflictAssumption DEF Init, MaintainerTyped, TriesLeft
  <2>5. RecordsAgree /\ KeysDiffer
    BY <2>1 DEF Init, RecordsAgree, ConflictNames, KeysDiffer
  <2>6. /\ \A i \in Clients : ClientKnows(i)
        /\ \A k \in Keys : PacketBound(k)
        /\ MaintainerKnows
    BY DEF Init, ClientKnows, PacketBound, MaintainerKnows
  <2>. QED  BY <2>2, <2>3, <2>4, <2>5, <2>6, TypeParts DEF Inv
<1>2. Inv /\ [Next]_vars => Inv'
  BY ConflictTypeStep, RecordsAgreeStep, ClientKnowsStep, PacketBoundStep,
     MaintainerKnowsStep DEF Inv
<1>. QED  BY <1>1, <1>2, PTL DEF Spec

\* Variables keep their types, and references name stored resolutions.
THEOREM ConflictTypeCorrect == Spec => []TypeOK
<1>. Inv => TypeOK
  BY DEF Inv
<1>. QED  BY ConflictInvariant, PTL

\* However many users answer at once, one answer locks a pending conflict, and
\* no answer stays locked on one that is not pending.
THEOREM PendingHasOneLock == Spec => []OneLockPerConflict
<1>1. Inv => OneLockPerConflict
  <2>. SUFFICES ASSUME Inv, NEW c \in Conflicts
                PROVE  {n \in DOMAIN resolutions :
                          resolutions[n].conflict = c /\ resolutions[n].status = "locked"}
                       = IF conflicts[c].status = "resolution_pending"
                         THEN {conflicts[c].ref} ELSE {}
    BY DEF OneLockPerConflict
  <2>1. /\ \A n \in DOMAIN resolutions : LockIsPending(n)
        /\ ConflictNames(c)
    BY DEF Inv, RecordsAgree
  <2>. QED  BY <2>1 DEF LockIsPending, ConflictNames
<1>. QED  BY <1>1, ConflictInvariant, PTL

\* A resubmitted answer never becomes a second resolution.
KeyUsedOnce == \A k \in Keys : Cardinality(WithKey(k)) <= 1

\* This holds although a key is looked up and its answer stored in two steps.
THEOREM KeyMakesOneResolution == Spec => []KeyUsedOnce
<1>1. Inv => KeyUsedOnce
  <2>. SUFFICES ASSUME Inv, NEW k \in Keys PROVE Cardinality(WithKey(k)) <= 1
    BY DEF KeyUsedOnce
  <2>1. CASE WithKey(k) = {}
    BY <2>1, FS_EmptySet
  <2>2. CASE WithKey(k) # {}
    <3>1. PICK n \in WithKey(k) : TRUE
      BY <2>2
    <3>2. WithKey(k) = {n}
      BY <3>1 DEF WithKey, Inv, KeysDiffer
    <3>. QED  BY <3>2, FS_Singleton
  <2>. QED  BY <2>1, <2>2
<1>. QED  BY <1>1, ConflictInvariant, PTL

\* A completed packet's answer was applied, once, and so was the answer of a
\* resolved conflict.
THEOREM CompletedWasApplied == Spec => []CompletedIsApplied
<1>1. Inv => CompletedIsApplied
  BY DEF Inv, MaintainerKnows, RecordsAgree, ConflictNames, CompletedIsApplied
<1>. QED  BY <1>1, ConflictInvariant, PTL

\* A pending conflict changes only by its own answer.
THEOREM PendingChangesByItsAnswer == Spec => OnlyTheAnswerApplies
<1>. DEFINE Changes(c) ==
        conflicts[c].status = "resolution_pending" /\ conflicts'[c] # conflicts[c] =>
              LET n == conflicts[c].ref
              IN  /\ resolutions[n].status = "locked"
                  /\ resolutions'[n].status = "applied"
                  /\ resolutions[n].expected + 1 = conflicts[c].version
                  /\ conflicts'[c].status =
                         IF resolutions[n].outcome = "settle" THEN "resolved" ELSE "open"
<1>1. ASSUME Inv, [Next]_vars, NEW c \in Conflicts PROVE Changes(c)
  <2>. DEFINE n == bound[packet]
              d == resolutions[n].conflict
  <2>0. /\ DOMAIN conflicts = Conflicts
        /\ \A m \in DOMAIN resolutions : resolutions[m] \in Answers
    BY <1>1, TypeParts DEF Inv, RecordsTyped
  <2>1. CASE ApplyAnswer /\ c = d
    <3>1. /\ n \in DOMAIN resolutions /\ LockedHere(n)
          /\ resolutions'[n] = [resolutions[n] EXCEPT !.status = "applied"]
      BY <1>1, <2>1, ApplyWrites
    <3>2. conflicts' = [conflicts EXCEPT ![d] =
                     [status |-> IF resolutions[n].outcome = "remain_open"
                                 THEN "open" ELSE "resolved",
                      ref |-> n, version |-> conflicts[d].version + 1]]
      BY <1>1, <2>1, ApplyWrites
    <3>3. /\ conflicts[d].ref = n /\ resolutions[n].status = "locked"
          /\ resolutions[n].expected + 1 = conflicts[d].version
      BY <1>1, <3>1 DEF Inv, RecordsAgree, LockIsPending, LockedHere
    <3>4. resolutions[n] \in Answers
      BY <2>0, <3>1
    <3>5. resolutions'[n].status = "applied"
      BY <3>1, <3>4 DEF Answers
    <3>6. conflicts'[d].status =
             IF resolutions[n].outcome = "settle" THEN "resolved" ELSE "open"
      BY <2>0, <2>1, <3>2, <3>4 DEF Answers, Outcomes
    <3>. QED  BY <2>1, <3>3, <3>5, <3>6
  <2>2. CASE ApplyAnswer /\ c # d
    BY <1>1, <2>0, <2>2, ApplyWrites
  <2>3. ASSUME NEW i \in Clients, LockAnswer(i) PROVE Changes(c)
    BY <1>1, <2>0, <2>3, LockWrites
  <2>4. CASE (\E e \in Conflicts : Observe(e)) \/ PublishOther
    BY <1>1, <2>4, OtherWrites
  <2>5. CASE UNCHANGED canonical
    BY <2>5 DEF canonical
  <2>. QED  BY <1>1, <2>1, <2>2, <2>3, <2>4, <2>5, WhoPublishes
<1>2. Inv /\ [Next]_vars => [\A c \in Conflicts : Changes(c)]_vars
  BY <1>1
<1>. QED  BY <1>2, ConflictInvariant, PTL DEF Spec, OnlyTheAnswerApplies

-----------------------------------------------------------------------------
(***************************************************************************)
(* Part 5: the refinement.  LockAnswer and ApplyAnswer are the steps at    *)
(* which an answer is locked and applied; a call is told of its own        *)
(* answer, or of an equal one, and every other step changes nothing that   *)
(* users see.                                                              *)
(***************************************************************************)

\* A client that is idle submits nothing, and one that has locked an answer is
\* submitting that very answer.
Asks(i) ==
    /\ pc[i] = "idle" => call[i] = NoCall
    /\ pc[i] = "enqueue" => AnswerOf(made[i]) = call[i]

LedgerInv == Inv /\ \A i \in Clients : Asks(i)

\* An answer is the submission that was made of it.
LEMMA AnswerIsCall ==
    ASSUME Inv, NEW n \in DOMAIN resolutions
    PROVE  /\ AnswerOf(n) \in Calls /\ resolutions[n] \in Answers
           /\ \A a \in Calls : /\ a.key = resolutions[n].key
                               /\ Authorization(resolutions[n]) = Authorization(a)
                               => AnswerOf(n) = a
<1>1. resolutions[n] \in Answers
  BY TypeParts DEF Inv, RecordsTyped
<1>. QED  BY <1>1 DEF AnswerOf, Answers, Calls, Authorization

\* An answer is what its key stands for.
LEMMA KeyStandsFor ==
    ASSUME Inv, NEW n \in DOMAIN resolutions
    PROVE  LET k == resolutions[n].key
           IN  /\ k \in Keys /\ WithKey(k) = {n} /\ StoredAnswers[k] = AnswerOf(n)
               /\ k \in AppliedKeys <=> resolutions[n].status = "applied"
<1>1. resolutions[n].key \in Keys
  BY AnswerIsCall DEF Answers
<1>2. WithKey(resolutions[n].key) = {n}
  BY DEF WithKey, Inv, KeysDiffer
<1>. QED  BY <1>1, <1>2 DEF StoredAnswers, AppliedKeys

\* What users see depends on the answers and the conflicts alone.
LEMMA SeenAgain ==
    ASSUME UNCHANGED <<conflicts, resolutions>>
    PROVE  UNCHANGED <<StoredAnswers, AppliedKeys, Standings>>
BY DEF StoredAnswers, AppliedKeys, Standings, WithKey, AnswerOf

\* The call of one client ends.
LEMMA CallEnds ==
    ASSUME NEW i \in Clients, call \in [Clients -> Calls \cup {NoCall}], EndCall(i)
    PROVE  /\ call' = [call EXCEPT ![i] = NoCall] /\ call'[i] = NoCall
           /\ \A j \in Clients \ {i} : call'[j] = call[j]
BY DEF EndCall

LEMMA AsksStep ==
    ASSUME LedgerInv, [Next]_vars, NEW i \in Clients
    PROVE  Asks(i)'
<1>0. /\ Inv /\ Grows /\ Asks(i) /\ ClientsTyped /\ ClientKnows(i)
      /\ resolutions \in Seq(Answers)
  BY RecordsStep, TypeParts DEF LedgerInv, Inv, RecordsTyped
<1>1. \A n \in DOMAIN resolutions : n \in DOMAIN resolutions' /\ AnswerOf(n)' = AnswerOf(n)
  <2>1. CASE UNCHANGED resolutions
    BY <2>1 DEF AnswerOf
  <2>2. ASSUME NEW j \in Clients, LockAnswer(j)
        PROVE  \A n \in DOMAIN resolutions : n \in DOMAIN resolutions' /\ AnswerOf(n)' = AnswerOf(n)
    BY <1>0, <2>2, LockWrites DEF AnswerOf
  <2>3. CASE ApplyAnswer
    <3>. DEFINE b == bound[packet]
    <3>1. /\ b \in DOMAIN resolutions /\ DOMAIN resolutions' = DOMAIN resolutions
          /\ \A n \in DOMAIN resolutions : n # b => resolutions'[n] = resolutions[n]
          /\ resolutions'[b] = [resolutions[b] EXCEPT !.status = "applied"]
          /\ resolutions[b] \in Answers
      BY <1>0, <2>3, ApplyWrites, AnswerIsCall
    <3>. HIDE DEF b
    <3>2. \A n \in DOMAIN resolutions :
              /\ resolutions'[n].key = resolutions[n].key
              /\ resolutions'[n].conflict = resolutions[n].conflict
              /\ resolutions'[n].outcome = resolutions[n].outcome
              /\ resolutions'[n].expected = resolutions[n].expected
      BY <3>1 DEF Answers
    <3>. QED  BY <3>1, <3>2 DEF AnswerOf
  <2>. QED  BY <1>0, <2>1, <2>2, <2>3, WhoPublishes, OtherWrites DEF canonical
<1>2. CASE UNCHANGED <<pc[i], call[i], made[i]>>
  BY <1>0, <1>1, <1>2 DEF Asks, ClientKnows
<1>3. ASSUME NEW j \in Clients, j # i,
             \/ Submit(j) \/ Resubmit(j) \/ LookUp(j) \/ Inspect(j) \/ LockAnswer(j)
             \/ LockRefused(j) \/ EnqueueAnswer(j) \/ EnqueueRefused(j) \/ CrashClient(j)
      PROVE  UNCHANGED <<pc[i], call[i], made[i]>>
  BY <1>0, <1>3 DEF ClientsTyped, Submit, Resubmit, LookUp, Inspect, LockAnswer, LockRefused,
                    EnqueueAnswer, EnqueueRefused, CrashClient, EndCall, GoTo
<1>4. CASE EndCall(i)
  BY <1>0, <1>4 DEF ClientsTyped, EndCall, GoTo, Asks
<1>5. CASE \/ Submit(i) \/ Resubmit(i) \/ LookUp(i) \/ Inspect(i)
  <2>1. EndCall(i) \/ pc'[i] \in {"lookup", "inspect", "publish"}
    BY <1>0, <1>5 DEF ClientsTyped, Submit, Resubmit, LookUp, Inspect, GoTo
  <2>. QED  BY <1>4, <2>1 DEF Asks
<1>6. CASE LockAnswer(i)
  <2>. DEFINE m == Len(resolutions) + 1
  <2>1. /\ pc'[i] = "enqueue" /\ made'[i] = m /\ call'[i] = call[i]
    BY <1>0, <1>6 DEF ClientsTyped, LockAnswer, GoTo
  <2>2. /\ call[i] \in Calls /\ m \in DOMAIN resolutions'
        /\ resolutions'[m].key = call[i].key /\ resolutions'[m].conflict = call[i].conflict
        /\ resolutions'[m].expected = call[i].expected
    BY <1>0, <1>6, LockWrites
  <2>3. resolutions'[m].outcome = call[i].outcome
    <3>. DEFINE new == [key |-> call[i].key, conflict |-> call[i].conflict,
                        outcome |-> call[i].outcome, expected |-> call[i].expected,
                        status |-> "locked", lockedVersion |-> found[i] + 1]
    <3>1. resolutions' = Append(resolutions, new) /\ new.outcome = call[i].outcome
      BY <1>6 DEF LockAnswer
    <3>. HIDE DEF new
    <3>2. resolutions'[m] = new
      BY <1>0, <3>1
    <3>. QED  BY <3>1, <3>2
  <2>. QED  BY <2>1, <2>2, <2>3 DEF Asks, AnswerOf, Calls
<1>7. CASE LockRefused(i) \/ EnqueueAnswer(i) \/ EnqueueRefused(i) \/ CrashClient(i)
  BY <1>4, <1>7 DEF LockRefused, EnqueueAnswer, EnqueueRefused, CrashClient
<1>8. CASE UNCHANGED clientVars
  BY <1>2, <1>8 DEF clientVars
<1>. QED  BY <1>2, <1>3, <1>5, <1>6, <1>7, <1>8, WhoCalls

\* The steps of a call.
LEMMA LedgerLock ==
    ASSUME LedgerInv, NEW i \in Clients, LockAnswer(i)
    PROVE  Ledger!Lock(i)
<1>. DEFINE a == call[i]
            m == Len(resolutions) + 1
<1>0. /\ Inv /\ resolutions \in Seq(Answers) /\ m \notin DOMAIN resolutions
      /\ a \in Calls /\ a # NoCall /\ UNCHANGED <<call, replied>>
  <2>1. Inv /\ resolutions \in Seq(Answers)
    BY TypeParts DEF LedgerInv, Inv, RecordsTyped
  <2>2. a \in Calls
    BY <2>1, LockWrites
  <2>3. a # NoCall
    BY <2>2, ConflictAssumption DEF Calls
  <2>4. m \notin DOMAIN resolutions
    BY <2>1
  <2>. QED  BY <2>1, <2>2, <2>3, <2>4 DEF LockAnswer
<1>1. /\ a.key \in Keys /\ a.conflict \in Conflicts /\ WithKey(a.key) = {}
      /\ conflicts[a.conflict].status = "open" /\ conflicts[a.conflict].version = a.expected
      /\ DOMAIN resolutions' = DOMAIN resolutions \cup {m}
      /\ \A n \in DOMAIN resolutions : resolutions'[n] = resolutions[n]
      /\ resolutions'[m].key = a.key /\ resolutions'[m].status = "locked"
      /\ resolutions'[m].conflict = a.conflict /\ resolutions'[m].expected = a.expected
      /\ conflicts' = [conflicts EXCEPT ![a.conflict] =
            [status |-> "resolution_pending", ref |-> m, version |-> a.expected + 1]]
  <2>1. a.key \in Keys /\ a.conflict \in Conflicts
    BY <1>0 DEF Calls
  <2>. QED  BY <1>0, <2>1, LockWrites
<1>2. \A n : n = m => AnswerOf(n)' = a
  <2>1. resolutions'[m].outcome = a.outcome
    <3>. DEFINE new == [key |-> a.key, conflict |-> a.conflict, outcome |-> a.outcome,
                        expected |-> a.expected, status |-> "locked",
                        lockedVersion |-> found[i] + 1]
    <3>1. resolutions' = Append(resolutions, new) /\ new.outcome = a.outcome
      BY DEF LockAnswer
    <3>. HIDE DEF new
    <3>2. resolutions'[m] = new
      BY <1>0, <3>1
    <3>. QED  BY <3>1, <3>2
  <2>2. a = [key |-> a.key, conflict |-> a.conflict, outcome |-> a.outcome,
             expected |-> a.expected]
    BY <1>0 DEF Calls
  <2>. HIDE DEF a, m
  <2>. QED  BY <1>1, <2>1, <2>2 DEF AnswerOf
<1>3. /\ \A k \in Keys : k # a.key => WithKey(k)' = WithKey(k)
      /\ \A k \in Keys : k = a.key => WithKey(k)' = {m}
  <2>. HIDE DEF a, m
  <2>1. \A k \in Keys : k # a.key => WithKey(k)' = WithKey(k)
    BY <1>1 DEF WithKey
  <2>2. \A k \in Keys : k = a.key => WithKey(k)' = {m}
    BY <1>1 DEF WithKey
  <2>. QED  BY <2>1, <2>2
<1>. HIDE DEF m
<1>4. StoredAnswers[a.key] = NoCall /\ StoredAnswers' = [StoredAnswers EXCEPT ![a.key] = a]
  <2>1. \A n \in DOMAIN resolutions : AnswerOf(n)' = AnswerOf(n)
    BY <1>1 DEF AnswerOf
  <2>2. \A k \in Keys : WithKey(k) \subseteq DOMAIN resolutions
    BY DEF WithKey
  <2>3. \A k \in Keys : k = a.key => StoredAnswers'[k] = a
    <3>. HIDE DEF a
    <3>. QED  BY <1>2, <1>3 DEF StoredAnswers
  <2>4. ASSUME NEW k \in Keys, k # a.key PROVE StoredAnswers'[k] = StoredAnswers[k]
    BY <1>3, <2>1, <2>2, <2>4 DEF StoredAnswers
  <2>5. StoredAnswers[a.key] = NoCall
    BY <1>1 DEF StoredAnswers
  <2>6. DOMAIN StoredAnswers = Keys /\ DOMAIN StoredAnswers' = Keys
    BY DEF StoredAnswers
  <2>7. /\ StoredAnswers = [k \in Keys |-> StoredAnswers[k]]
        /\ StoredAnswers' = [k \in Keys |-> StoredAnswers'[k]]
    BY DEF StoredAnswers
  <2>. QED  BY <1>1, <2>3, <2>4, <2>5, <2>6, <2>7
<1>5. AppliedKeys' = AppliedKeys
  <2>1. ASSUME NEW k \in Keys
        PROVE  (\E n \in WithKey(k)' : resolutions'[n].status = "applied")
               <=> \E n \in WithKey(k) : resolutions[n].status = "applied"
    BY <1>1, <1>3 DEF WithKey
  <2>. QED  BY <2>1 DEF AppliedKeys
<1>6. /\ Standings[a.conflict] = Ledger!Open(a.expected)
      /\ Standings' = [Standings EXCEPT ![a.conflict] =
            [status |-> "resolution_pending", version |-> a.expected + 1, by |-> a.key]]
  <2>1. /\ DOMAIN conflicts = Conflicts
        /\ conflicts'[a.conflict] =
              [status |-> "resolution_pending", ref |-> m, version |-> a.expected + 1]
        /\ \A c \in Conflicts \ {a.conflict} : conflicts'[c] = conflicts[c]
    BY <1>0, <1>1 DEF Inv, TypeOK
  <2>2. \A c \in Conflicts : conflicts[c].status = "resolution_pending" =>
            conflicts[c].ref \in DOMAIN resolutions
    BY <1>0 DEF Inv, RecordsAgree, ConflictNames
  <2>3. Standings'[a.conflict] =
            [status |-> "resolution_pending", version |-> a.expected + 1, by |-> a.key]
    BY <1>1, <2>1 DEF Standings
  <2>4. ASSUME NEW c \in Conflicts, c # a.conflict PROVE Standings'[c] = Standings[c]
    BY <1>1, <2>1, <2>2, <2>4 DEF Standings
  <2>5. Standings[a.conflict] = Ledger!Open(a.expected)
    BY <1>1 DEF Standings, Ledger!Open
  <2>6. /\ Standings = [c \in Conflicts |-> Standings[c]]
        /\ Standings' = [c \in Conflicts |-> Standings'[c]]
    BY DEF Standings
  <2>. QED  BY <1>1, <2>3, <2>4, <2>5, <2>6
<1>. QED  BY <1>0, <1>1, <1>3, <1>4, <1>5, <1>6 DEF Ledger!Lock

LEMMA LedgerApply ==
    ASSUME LedgerInv, ApplyAnswer
    PROVE  Ledger!Apply(packet)
<1>. DEFINE n == bound[packet]
            a == AnswerOf(n)
<1>0. Inv /\ phase # "idle" /\ UNCHANGED <<call, replied>> /\ DOMAIN conflicts = Conflicts
  BY DEF LedgerInv, Inv, TypeOK, ApplyAnswer, clientVars
<1>1. /\ packet \in Keys /\ n \in DOMAIN resolutions /\ resolutions[n].key = packet
      /\ resolutions[n] \in Answers /\ a \in Calls /\ a # NoCall
  <2>1. packet \in Keys /\ n \in DOMAIN resolutions /\ resolutions[n].key = packet
    BY <1>0, PacketHeld
  <2>2. resolutions[n] \in Answers /\ a \in Calls
    BY <1>0, <2>1, AnswerIsCall
  <2>. QED  BY <2>1, <2>2, ConflictAssumption DEF Calls
<1>2. /\ a.key = packet /\ a.conflict = resolutions[n].conflict
      /\ a.outcome = resolutions[n].outcome /\ a.expected = resolutions[n].expected
      /\ a.conflict \in Conflicts
  BY <1>1 DEF AnswerOf, Answers
<1>3. WithKey(packet) = {n} /\ StoredAnswers[packet] = a
  BY <1>0, <1>1, KeyStandsFor
<1>4. /\ DOMAIN resolutions' = DOMAIN resolutions
      /\ \A m \in DOMAIN resolutions : m # n => resolutions'[m] = resolutions[m]
      /\ resolutions'[n] = [resolutions[n] EXCEPT !.status = "applied"]
      /\ conflicts' = [conflicts EXCEPT ![a.conflict] =
            [status |-> IF a.outcome = "remain_open" THEN "open" ELSE "resolved",
             ref |-> n, version |-> conflicts[a.conflict].version + 1]]
      /\ LockedHere(n)
  BY <1>0, <1>2, ApplyWrites
<1>5. /\ conflicts[a.conflict].status = "resolution_pending" /\ conflicts[a.conflict].ref = n
      /\ resolutions[n].status = "locked" /\ conflicts[a.conflict].version = a.expected + 1
  <2>1. /\ conflicts[a.conflict].status = "resolution_pending"
        /\ conflicts[a.conflict].ref = n /\ resolutions[n].status = "locked"
    BY <1>2, <1>4 DEF LockedHere
  <2>2. LockIsPending(n)
    BY <1>0, <1>1 DEF Inv, RecordsAgree
  <2>. QED  BY <1>2, <2>1, <2>2 DEF LockIsPending
<1>6. a.expected \in Nat
  BY <1>1 DEF Calls
<1>7. \A m \in DOMAIN resolutions :
          /\ resolutions'[m].key = resolutions[m].key
          /\ resolutions'[m].conflict = resolutions[m].conflict
          /\ resolutions'[m].outcome = resolutions[m].outcome
          /\ resolutions'[m].expected = resolutions[m].expected
          /\ resolutions'[m].status = "applied" <=> m = n \/ resolutions[m].status = "applied"
  <2>. HIDE DEF n
  <2>. QED  BY <1>1, <1>4 DEF Answers
<1>. HIDE DEF n, a
<1>8. \A k : WithKey(k)' = WithKey(k)
  BY <1>4, <1>7 DEF WithKey
<1>9. StoredAnswers' = StoredAnswers
  <2>1. \A k : WithKey(k) \subseteq DOMAIN resolutions
    BY DEF WithKey
  <2>2. \A m \in DOMAIN resolutions : AnswerOf(m)' = AnswerOf(m)
    BY <1>7 DEF AnswerOf
  <2>. QED  BY <1>8, <2>1, <2>2 DEF StoredAnswers
<1>10. packet \notin AppliedKeys /\ AppliedKeys' = AppliedKeys \cup {packet}
  <2>1. packet \notin AppliedKeys
    BY <1>3, <1>5 DEF AppliedKeys
  <2>2. ASSUME NEW k \in Keys
        PROVE  (\E m \in WithKey(k)' : resolutions'[m].status = "applied")
               <=> k = packet \/ \E m \in WithKey(k) : resolutions[m].status = "applied"
    <3>1. WithKey(k) \subseteq DOMAIN resolutions /\ (n \in WithKey(k) <=> k = packet)
      BY <1>1 DEF WithKey
    <3>. QED  BY <1>7, <1>8, <3>1
  <2>. QED  BY <1>1, <2>1, <2>2 DEF AppliedKeys
<1>11. /\ Standings[a.conflict].by = packet
       /\ Standings' = [Standings EXCEPT ![a.conflict] =
             [status |-> IF a.outcome = "remain_open" THEN "open" ELSE "resolved",
              version |-> a.expected + 2, by |-> NoKey]]
  <2>1. /\ conflicts'[a.conflict] =
              [status |-> IF a.outcome = "remain_open" THEN "open" ELSE "resolved",
               ref |-> n, version |-> conflicts[a.conflict].version + 1]
        /\ \A c \in Conflicts \ {a.conflict} : conflicts'[c] = conflicts[c]
    BY <1>0, <1>2, <1>4
  <2>2. \A c \in Conflicts : conflicts[c].status = "resolution_pending" =>
            conflicts[c].ref \in DOMAIN resolutions
    BY <1>0 DEF Inv, RecordsAgree, ConflictNames
  <2>3. \A c \in Conflicts : c = a.conflict => Standings'[c] =
            [status |-> IF a.outcome = "remain_open" THEN "open" ELSE "resolved",
             version |-> a.expected + 2, by |-> NoKey]
    <3>1. /\ conflicts[a.conflict].version + 1 = a.expected + 2
          /\ (IF a.outcome = "remain_open" THEN "open" ELSE "resolved") # "resolution_pending"
      BY <1>5, <1>6
    <3>. QED  BY <2>1, <3>1 DEF Standings
  <2>4. ASSUME NEW c \in Conflicts, c # a.conflict PROVE Standings'[c] = Standings[c]
    BY <1>7, <2>1, <2>2, <2>4 DEF Standings
  <2>5. Standings[a.conflict].by = packet
    BY <1>1, <1>2, <1>5 DEF Standings
  <2>6. /\ Standings = [c \in Conflicts |-> Standings[c]]
        /\ Standings' = [c \in Conflicts |-> Standings'[c]]
    BY DEF Standings
  <2>. QED  BY <1>2, <2>3, <2>4, <2>5, <2>6
<1>. QED  BY <1>0, <1>1, <1>3, <1>9, <1>10, <1>11 DEF Ledger!Apply

LEMMA LedgerSubmit ==
    ASSUME LedgerInv, NEW i \in Clients, Submit(i) \/ Resubmit(i)
    PROVE  Ledger!Submit(i)
<1>0. /\ Inv /\ call \in [Clients -> Calls \cup {NoCall}] /\ call[i] = NoCall
      /\ UNCHANGED <<conflicts, resolutions, replied>>
  BY DEF LedgerInv, Inv, TypeOK, Asks, Submit, Resubmit, canonical
<1>1. PICK a \in Calls : call' = [call EXCEPT ![i] = a]
  <2>1. CASE Submit(i)
    <3>1. PICK k \in Keys, c \in Conflicts, outcome \in Outcomes :
              call' = [call EXCEPT ![i] = [key |-> k, conflict |-> c, outcome |-> outcome,
                                           expected |-> conflicts[c].version]]
      BY <2>1 DEF Submit
    <3>2. conflicts[c].version \in Nat
      BY <1>0 DEF Inv, TypeOK
    <3>. QED  BY <3>1, <3>2 DEF Calls
  <2>2. CASE Resubmit(i)
    <3>1. PICK n \in DOMAIN resolutions : call' = [call EXCEPT ![i] = AnswerOf(n)]
      BY <2>2 DEF Resubmit, AnswerOf
    <3>. QED  BY <1>0, <3>1, AnswerIsCall
  <2>. QED  BY <2>1, <2>2
<1>2. call'[i] = a
  BY <1>0, <1>1
<1>3. call'[i] \in Ledger!Answers /\ call' = [call EXCEPT ![i] = call'[i]]
  BY <1>1, <1>2 DEF Calls, Ledger!Answers
<1>. QED  BY <1>0, <1>3, SeenAgain DEF Ledger!Submit

\* A call that ends, told of its answer or not.
LEMMA LedgerEnd ==
    ASSUME LedgerInv, NEW i \in Clients, pc[i] # "idle", EndCall(i),
           UNCHANGED <<conflicts, resolutions>>
    PROVE  /\ UNCHANGED replied => Ledger!Leave(i)
           /\ /\ replied' = replied \cup {call[i].key}
              /\ StoredAnswers[call[i].key] = call[i]
              => Ledger!Tell(i)
<1>1. call \in [Clients -> Calls \cup {NoCall}] /\ call[i] \in Calls
  BY DEF LedgerInv, Inv, TypeOK, ClientKnows
<1>2. call[i] # NoCall
  BY <1>1, ConflictAssumption DEF Calls
<1>3. call' = [call EXCEPT ![i] = NoCall]
  BY <1>1, CallEnds
<1>. QED  BY <1>2, <1>3, SeenAgain DEF Ledger!Leave, Ledger!Tell

LEMMA LedgerLookUp ==
    ASSUME LedgerInv, NEW i \in Clients, LookUp(i)
    PROVE  Ledger!Tell(i) \/ Ledger!Leave(i) \/ UNCHANGED Ledger!vars
<1>0. /\ Inv /\ pc[i] = "lookup" /\ pc[i] # "idle" /\ call[i] \in Calls
      /\ UNCHANGED <<conflicts, resolutions>>
  BY DEF LedgerInv, Inv, ClientKnows, LookUp, canonical
<1>1. CASE UNCHANGED <<call, replied>>
  BY <1>0, <1>1, SeenAgain DEF Ledger!vars
<1>2. CASE ~UNCHANGED <<call, replied>>
  <2>1. PICK n \in WithKey(call[i].key) :
            /\ IF /\ Authorization(resolutions[n]) = Authorization(call[i])
                  /\ resolutions[n].status = "locked"
               THEN replied' = replied \cup {call[i].key}
               ELSE UNCHANGED replied
            /\ EndCall(i)
    BY <1>2 DEF LookUp
  <2>2. CASE /\ Authorization(resolutions[n]) = Authorization(call[i])
             /\ resolutions[n].status = "locked"
    <3>1. n \in DOMAIN resolutions /\ resolutions[n].key = call[i].key
      BY <2>1 DEF WithKey
    <3>2. AnswerOf(n) = call[i]
      BY <1>0, <2>2, <3>1, AnswerIsCall
    <3>3. StoredAnswers[call[i].key] = call[i]
      BY <1>0, <3>1, <3>2, KeyStandsFor
    <3>. QED  BY <1>0, <2>1, <2>2, <3>3, LedgerEnd
  <2>3. CASE ~(/\ Authorization(resolutions[n]) = Authorization(call[i])
               /\ resolutions[n].status = "locked")
    BY <1>0, <2>1, <2>3, LedgerEnd
  <2>. QED  BY <2>2, <2>3
<1>. QED  BY <1>1, <1>2

LEMMA LedgerEnqueue ==
    ASSUME LedgerInv, NEW i \in Clients, EnqueueAnswer(i)
    PROVE  Ledger!Tell(i)
<1>1. /\ Inv /\ pc[i] = "enqueue" /\ pc[i] # "idle" /\ EndCall(i)
      /\ UNCHANGED <<conflicts, resolutions>> /\ replied' = replied \cup {call[i].key}
  BY DEF LedgerInv, EnqueueAnswer, canonical
<1>2. /\ made[i] \in DOMAIN resolutions /\ resolutions[made[i]].key = call[i].key
      /\ AnswerOf(made[i]) = call[i]
  BY <1>1 DEF LedgerInv, Inv, ClientKnows, Asks
<1>3. StoredAnswers[call[i].key] = call[i]
  BY <1>1, <1>2, KeyStandsFor
<1>. QED  BY <1>1, <1>3, LedgerEnd

LEMMA LedgerObserve ==
    ASSUME LedgerInv, NEW c \in Conflicts, Observe(c)
    PROVE  Ledger!Observe(c)
<1>1. /\ DOMAIN conflicts = Conflicts /\ conflicts[c].status = "open"
      /\ conflicts[c] \in [status : {"open", "resolution_pending", "resolved"},
                           ref : 0 .. Len(resolutions), version : Nat]
      /\ conflicts' = [conflicts EXCEPT ![c].version = @ + 1]
      /\ UNCHANGED <<call, resolutions, replied>>
  BY DEF LedgerInv, Inv, TypeOK, Observe, clientVars
<1>2. UNCHANGED <<StoredAnswers, AppliedKeys>>
  BY <1>1 DEF StoredAnswers, AppliedKeys, WithKey, AnswerOf
<1>3. /\ conflicts'[c].status = "open" /\ conflicts'[c].version = conflicts[c].version + 1
      /\ \A d \in Conflicts \ {c} : conflicts'[d] = conflicts[d]
  BY <1>1
<1>4. /\ Standings[c] = [status |-> "open", version |-> conflicts[c].version, by |-> NoKey]
      /\ Standings'[c] = [status |-> "open", version |-> conflicts[c].version + 1, by |-> NoKey]
      /\ \A d \in Conflicts \ {c} : Standings'[d] = Standings[d]
  BY <1>1, <1>3 DEF Standings
<1>5. /\ Standings = [d \in Conflicts |-> Standings[d]]
      /\ Standings' = [d \in Conflicts |-> Standings'[d]]
  BY DEF Standings
<1>6. /\ Standings[c].status = "open"
      /\ Standings' = [Standings EXCEPT ![c].version = @ + 1]
  <2>1. Standings[c].version = conflicts[c].version /\ Standings[c].status = "open"
    BY <1>4
  <2>2. Standings'[c] = [Standings[c] EXCEPT !.version = @ + 1]
    BY <1>4
  <2>. QED  BY <1>4, <1>5, <2>1, <2>2
<1>. QED  BY <1>1, <1>2, <1>6 DEF Ledger!Observe

LEMMA LedgerStep ==
    ASSUME LedgerInv, [Next]_vars
    PROVE  [Ledger!Next]_(Ledger!vars)
<1>1. ASSUME UNCHANGED <<call, conflicts, resolutions, replied>>
      PROVE  UNCHANGED Ledger!vars
  BY <1>1, SeenAgain DEF Ledger!vars
<1>2. CASE \/ Lease \/ Refresh \/ ProposalFails \/ CheckBase \/ Validate
           \/ ApplyRefused \/ Complete \/ CrashMaintainer \/ PublishOther
  BY <1>1, <1>2 DEF Lease, Refresh, ProposalFails, CheckBase, Validate, ApplyRefused, Complete,
                    CrashMaintainer, PublishOther, clientVars, canonical
<1>3. CASE UNCHANGED vars
  BY <1>1, <1>3 DEF vars, clientVars, canonical
<1>4. ASSUME NEW i \in Clients, Submit(i) \/ Resubmit(i)
      PROVE  Ledger!Next
  BY <1>4, LedgerSubmit DEF Ledger!Next
<1>5. ASSUME NEW i \in Clients, LookUp(i)
      PROVE  [Ledger!Next]_(Ledger!vars)
  BY <1>5, LedgerLookUp DEF Ledger!Next
<1>6. ASSUME NEW i \in Clients, Inspect(i)
      PROVE  [Ledger!Next]_(Ledger!vars)
  <2>1. pc[i] # "idle" /\ UNCHANGED <<conflicts, resolutions, replied>>
    BY <1>6 DEF Inspect, canonical
  <2>2. EndCall(i) \/ UNCHANGED call
    BY <1>6 DEF Inspect
  <2>3. CASE EndCall(i)
    BY <2>1, <2>3, LedgerEnd DEF Ledger!Next
  <2>4. CASE UNCHANGED call
    BY <1>1, <2>1, <2>4
  <2>. QED  BY <2>2, <2>3, <2>4
<1>7. ASSUME NEW i \in Clients, LockRefused(i) \/ EnqueueRefused(i) \/ CrashClient(i)
      PROVE  Ledger!Next
  <2>1. pc[i] # "idle" /\ EndCall(i) /\ UNCHANGED <<conflicts, resolutions, replied>>
    BY <1>7 DEF LockRefused, EnqueueRefused, CrashClient, canonical
  <2>. QED  BY <2>1, LedgerEnd DEF Ledger!Next
<1>8. ASSUME NEW i \in Clients, LockAnswer(i)
      PROVE  Ledger!Next
  BY <1>8, LedgerLock DEF Ledger!Next
<1>9. ASSUME NEW i \in Clients, EnqueueAnswer(i)
      PROVE  Ledger!Next
  BY <1>9, LedgerEnqueue DEF Ledger!Next
<1>10. CASE ApplyAnswer
  <2>1. packet \in Keys
    BY <1>10, PacketHeld DEF LedgerInv, ApplyAnswer
  <2>. QED  BY <1>10, <2>1, LedgerApply DEF Ledger!Next
<1>11. ASSUME NEW c \in Conflicts, Observe(c)
       PROVE  Ledger!Next
  BY <1>11, LedgerObserve DEF Ledger!Next
<1>. QED  BY <1>2, <1>3, <1>4, <1>5, <1>6, <1>7, <1>8, <1>9, <1>10, <1>11 DEF Next

LEMMA LedgerInit == Init => Ledger!Init
<1>. SUFFICES ASSUME Init PROVE Ledger!Init
  OBVIOUS
<1>1. /\ call = [i \in Clients |-> NoCall] /\ replied = {}
      /\ conflicts = [c \in Conflicts |-> [status |-> "open", ref |-> 0, version |-> 0]]
      /\ DOMAIN resolutions = {}
  BY DEF Init
<1>2. \A k : WithKey(k) = {}
  BY <1>1 DEF WithKey
<1>3. StoredAnswers = [k \in Keys |-> NoCall] /\ AppliedKeys = {}
  BY <1>2 DEF StoredAnswers, AppliedKeys
<1>4. Standings = [c \in Conflicts |-> Ledger!Open(0)]
  BY <1>1 DEF Standings, Ledger!Open
<1>. QED  BY <1>1, <1>3, <1>4 DEF Ledger!Init

\* For any users, conflicts, publications and crashes, submissions and maintenance are a
\* ledger on which an answer is locked in one step, on the conflict its user saw and once
\* per key, and applied in one step; resolution_pending is told only of one's own answer
\* (submitUserConflictResolution, applyMaintenancePlan).
THEOREM SubmissionsAreAtomic == Spec => AnswersAreAtomic
<1>1. Init => \A i \in Clients : Asks(i)
  BY DEF Init, Asks
<1>2. Spec => [](\A i \in Clients : Asks(i))
  <2>1. Inv /\ (\A i \in Clients : Asks(i)) /\ [Next]_vars => (\A i \in Clients : Asks(i))'
    BY AsksStep DEF LedgerInv
  <2>. QED  BY <1>1, <2>1, ConflictInvariant, PTL DEF Spec
<1>3. Inv /\ (\A i \in Clients : Asks(i)) /\ [Next]_vars => [Ledger!Next]_(Ledger!vars)
  BY LedgerStep DEF LedgerInv
<1>. QED  BY <1>2, <1>3, LedgerInit, ConflictInvariant, PTL
          DEF Spec, AnswersAreAtomic, Ledger!Spec
=============================================================================
