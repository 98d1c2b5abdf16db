------------------------- MODULE ProjectServerProofs -------------------------
(***************************************************************************)
(* Proofs about ProjectServer for any number of calls, uploads and         *)
(* connections, any quotas, and any number of failed removals and deaths.  *)
(***************************************************************************)
EXTENDS ProjectServer, FiniteSetTheorems, TLAPS

(***************************************************************************)
(* Part 1: sessions.  Places are what the server counts; that counting     *)
(* them limits the sessions follows from SessionsHoldPlaces.               *)
(***************************************************************************)

PlacesWithinLimits ==
    /\ IsFiniteSet(reservations)
    /\ Cardinality(reservations) <= MaxSessions
    /\ \A c \in Connections :
          Cardinality(OfPrincipal(reservations, c)) <= MaxPrincipalSessions

SessionsWithinLimits ==
    /\ Cardinality(sessions) <= MaxSessions
    /\ \A c \in Connections :
          Cardinality(OfPrincipal(sessions, c)) <= MaxPrincipalSessions

\* The steps that touch sessions: one takes a place, one enters a session that has
\* its place, and every other one leaves both alone or drops both.
LEMMA SessionStep ==
    ASSUME workload \in Workloads, [Next]_vars
    PROVE  \/ UNCHANGED <<reservations, sessions>>
           \/ \E c \in Connections : Reserve(c)
           \/ \E c \in Connections :
                 /\ c \in reservations
                 /\ sessions' = sessions \cup {c} /\ UNCHANGED reservations
           \/ \E cs : reservations' = reservations \ cs /\ sessions' = sessions \ cs
<1>1. CASE UNCHANGED vars
  BY <1>1 DEF vars, sessionVars
<1>2. ASSUME NEW c \in Connections, Connect(c) \/ Answer(c) \/ Disconnect(c) \/ Request(c)
                                    \/ GrowOld(c) \/ Sweep(c)
      PROVE  \/ UNCHANGED <<reservations, sessions>>
             \/ \E cs : reservations' = reservations \ cs /\ sessions' = sessions \ cs
  BY <1>2 DEF Connect, Answer, Disconnect, Request, GrowOld, Sweep, Closed
<1>3. ASSUME NEW c \in Connections, Handle(c)
      PROVE  \/ UNCHANGED <<reservations, sessions>>
             \/ /\ c \in reservations
                /\ sessions' = sessions \cup {c} /\ UNCHANGED reservations
  BY <1>3 DEF Handle, Admits
<1>4. ASSUME Stop \/ SessionsDie
      PROVE  \E cs : reservations' = reservations \ cs /\ sessions' = sessions \ cs
  BY <1>4 DEF Stop, SessionsDie, Closed
<1>5. CASE Next /\ ~UNCHANGED <<reservations, sessions>>
  <2>1. \/ \E c \in workload.sessions : Reserve(c)
        \/ \E c \in workload.sessions : Handle(c)
        \/ \E c \in workload.sessions : \/ Connect(c) \/ Answer(c) \/ Disconnect(c)
                                        \/ Request(c) \/ GrowOld(c) \/ Sweep(c)
        \/ Stop \/ SessionsDie
    BY <1>5 DEF Next, OfUploads, OfSessions, OpenSession, Initialising, Restart, sessionVars
  <2>2. workload.sessions \subseteq Connections
    BY ServerAssumption
  <2>. QED  BY <1>2, <1>3, <1>4, <2>1, <2>2
<1>. QED  BY <1>1, <1>5

\* The workload of a run is what it was at first.
LEMMA WorkloadKept == Spec => [](workload \in Workloads)
<1>1. Init => workload \in Workloads
  BY DEF Init
<1>2. workload \in Workloads /\ [Next]_vars => (workload \in Workloads)'
  BY DEF Next, OfUploads, OfSessions, OpenSession, Restart, vars
<1>. QED  BY <1>1, <1>2, PTL DEF Spec

\* A session that requests find holds a place.
THEOREM SessionsHaveTheirPlace == Spec => []SessionsHoldPlaces
<1>1. Init => SessionsHoldPlaces
  BY DEF Init, SessionsInit, SessionsHoldPlaces
<1>2. workload \in Workloads /\ SessionsHoldPlaces /\ [Next]_vars => SessionsHoldPlaces'
  <2>. SUFFICES ASSUME workload \in Workloads, SessionsHoldPlaces, [Next]_vars
                PROVE  SessionsHoldPlaces'
    OBVIOUS
  <2>1. ASSUME NEW c \in Connections, Reserve(c) PROVE SessionsHoldPlaces'
    BY <2>1 DEF Reserve, SessionsHoldPlaces
  <2>. QED  BY <2>1, SessionStep DEF SessionsHoldPlaces
<1>. QED  BY <1>1, <1>2, WorkloadKept, PTL DEF Spec

\* Places are counted before anything is awaited, and so never exceed the limits.
THEOREM PlacesBounded == Spec => []PlacesWithinLimits
<1>1. Init => PlacesWithinLimits
  <2>. SUFFICES ASSUME Init PROVE PlacesWithinLimits
    OBVIOUS
  <2>1. reservations = {} /\ \A c : OfPrincipal(reservations, c) = {}
    BY DEF Init, SessionsInit, OfPrincipal
  <2>. QED  BY <2>1, FS_EmptySet, SessionAssumption DEF PlacesWithinLimits
<1>2. workload \in Workloads /\ PlacesWithinLimits /\ [Next]_vars => PlacesWithinLimits'
  <2>. SUFFICES ASSUME workload \in Workloads, PlacesWithinLimits, [Next]_vars
                PROVE  PlacesWithinLimits'
    OBVIOUS
  <2>0. /\ IsFiniteSet(reservations) /\ Cardinality(reservations) \in Nat
        /\ \A c : /\ IsFiniteSet(OfPrincipal(reservations, c))
                  /\ Cardinality(OfPrincipal(reservations, c)) \in Nat
        /\ MaxSessions \in Nat /\ MaxPrincipalSessions \in Nat
    BY FS_Subset, FS_CardinalityType, SessionAssumption DEF PlacesWithinLimits, OfPrincipal
  <2>1. ASSUME NEW c \in Connections, Reserve(c) PROVE PlacesWithinLimits'
    <3>1. /\ reservations' = reservations \cup {c}
          /\ Cardinality(reservations) < MaxSessions
          /\ Cardinality(OfPrincipal(reservations, c)) < MaxPrincipalSessions
      BY <2>1 DEF Reserve
    <3>2. IsFiniteSet(reservations') /\ Cardinality(reservations') <= MaxSessions
      BY <2>0, <3>1, FS_AddElement
    <3>3. ASSUME NEW d \in Connections
          PROVE  Cardinality(OfPrincipal(reservations', d)) <= MaxPrincipalSessions
      <4>1. CASE PrincipalOf[d] = PrincipalOf[c]
        <5>1. OfPrincipal(reservations', d) = OfPrincipal(reservations, c) \cup {c}
          BY <3>1, <4>1 DEF OfPrincipal
        <5>2. Cardinality(OfPrincipal(reservations, c) \cup {c}) <= MaxPrincipalSessions
          <6>. DEFINE own == OfPrincipal(reservations, c)
          <6>1. IsFiniteSet(own) /\ Cardinality(own) \in Nat
            BY <2>0, Zenon
          <6>2. Cardinality(own) < MaxPrincipalSessions
            BY <3>1
          <6>. HIDE DEF own
          <6>3. Cardinality(own \cup {c}) <= Cardinality(own) + 1
            BY <6>1, FS_AddElement
          <6>4. Cardinality(own \cup {c}) \in Nat
            BY <6>1, FS_AddElement, FS_CardinalityType
          <6>5. Cardinality(own \cup {c}) <= MaxPrincipalSessions
            BY <2>0, <6>1, <6>2, <6>3, <6>4
          <6>. QED  BY <6>5 DEF own
        <5>. QED  BY <5>1, <5>2, Zenon
      <4>2. CASE PrincipalOf[d] # PrincipalOf[c]
        <5>1. OfPrincipal(reservations', d) = OfPrincipal(reservations, d)
          BY <3>1, <4>2 DEF OfPrincipal
        <5>. QED  BY <5>1 DEF PlacesWithinLimits
      <4>. QED  BY <4>1, <4>2
    <3>. QED  BY <3>2, <3>3 DEF PlacesWithinLimits
  <2>2. ASSUME reservations' \subseteq reservations PROVE PlacesWithinLimits'
    <3>1. /\ IsFiniteSet(reservations')
          /\ Cardinality(reservations') <= Cardinality(reservations)
          /\ Cardinality(reservations') \in Nat
      BY <2>0, <2>2, FS_Subset, FS_CardinalityType
    <3>2. ASSUME NEW d \in Connections
          PROVE  Cardinality(OfPrincipal(reservations', d)) <= MaxPrincipalSessions
      <4>1. OfPrincipal(reservations', d) \subseteq OfPrincipal(reservations, d)
        BY <2>2 DEF OfPrincipal
      <4>2. Cardinality(OfPrincipal(reservations, d)) <= MaxPrincipalSessions
        BY DEF PlacesWithinLimits
      <4>3. /\ Cardinality(OfPrincipal(reservations', d))
                  <= Cardinality(OfPrincipal(reservations, d))
            /\ Cardinality(OfPrincipal(reservations', d)) \in Nat
        BY <2>0, <4>1, FS_Subset, FS_CardinalityType
      <4>. QED  BY <2>0, <4>2, <4>3
    <3>. QED  BY <2>0, <3>1, <3>2 DEF PlacesWithinLimits
  <2>. QED  BY <2>1, <2>2, SessionStep
<1>. QED  BY <1>1, <1>2, WorkloadKept, PTL DEF Spec

\* The limits on places are limits on sessions, whatever closes when.
THEOREM SessionsBounded == Spec => []SessionsWithinLimits
<1>1. SessionsHoldPlaces /\ PlacesWithinLimits => SessionsWithinLimits
  <2>. SUFFICES ASSUME SessionsHoldPlaces, PlacesWithinLimits PROVE SessionsWithinLimits
    OBVIOUS
  <2>0. /\ Cardinality(reservations) \in Nat /\ IsFiniteSet(reservations)
        /\ sessions \subseteq reservations
        /\ MaxSessions \in Nat /\ MaxPrincipalSessions \in Nat
    BY FS_CardinalityType, SessionAssumption DEF PlacesWithinLimits, SessionsHoldPlaces
  <2>1. Cardinality(sessions) <= Cardinality(reservations) /\ Cardinality(sessions) \in Nat
    BY <2>0, FS_Subset, FS_CardinalityType
  <2>2. ASSUME NEW c \in Connections
        PROVE  Cardinality(OfPrincipal(sessions, c)) <= MaxPrincipalSessions
    <3>1. /\ OfPrincipal(sessions, c) \subseteq OfPrincipal(reservations, c)
          /\ OfPrincipal(reservations, c) \subseteq reservations
      BY <2>0 DEF OfPrincipal
    <3>2. IsFiniteSet(OfPrincipal(reservations, c))
      BY <2>0, <3>1, FS_Subset
    <3>3. /\ Cardinality(OfPrincipal(sessions, c)) <= Cardinality(OfPrincipal(reservations, c))
          /\ Cardinality(OfPrincipal(sessions, c)) \in Nat
          /\ Cardinality(OfPrincipal(reservations, c)) \in Nat
      BY <3>1, <3>2, FS_Subset, FS_CardinalityType
    <3>. QED  BY <2>0, <3>3 DEF PlacesWithinLimits
  <2>. QED  BY <2>0, <2>1, <2>2 DEF SessionsWithinLimits, PlacesWithinLimits
<1>. QED  BY <1>1, SessionsHaveTheirPlace, PlacesBounded, PTL

-----------------------------------------------------------------------------
(***************************************************************************)
(* Part 2: who has an upload.  A call that waits for the disk keeps its    *)
(* upload reserved and busy, and so to itself; what else runs meanwhile    *)
(* may end its life and remove its file, but not its reservation.          *)
(***************************************************************************)

Entries == [busy : BOOLEAN, live : BOOLEAN, received : Nat]
Places == {"idle", "create", "created", "append", "commit", "publish", "abandon", "discard"}

UploadsTyped ==
    /\ \A u \in Reserved : chunkUploads[u] \in Entries
    /\ Reserved \subseteq begun /\ begun \subseteq Uploads
    /\ files \subseteq Reserved
    /\ upc \in [Callers -> Places]
    /\ upload \in [Callers -> Uploads \cup {NoUpload}]
    /\ published \in [Uploads -> {0, 1}]

Holds(i) ==
    /\ upc[i] = "idle" <=> upload[i] = NoUpload
    /\ upc[i] # "idle" => upload[i] \in Reserved /\ chunkUploads[upload[i]].busy
    /\ upc[i] \in {"commit", "publish"} => published[upload[i]] = 0
    /\ \A j \in Callers : upload[j] = upload[i] /\ j # i => upload[i] = NoUpload

Unpublished ==
    \A u \in Uploads : u \notin begun \/ Live(u) => published[u] = 0

UploadsInv == UploadsTyped /\ (\A i \in Callers : Holds(i)) /\ Unpublished

\* What the three ways of changing an entry do to the table.
SameBut(table, u) ==
    /\ DOMAIN table = Reserved
    /\ \A v \in Reserved : v # u => table[v] = chunkUploads[v]

LEMMA TableRevoked ==
    ASSUME UploadsTyped, NEW u
    PROVE  /\ SameBut(Revoked(u), u)
           /\ u \in Reserved => /\ Revoked(u)[u] \in Entries /\ ~Revoked(u)[u].live
                                /\ Revoked(u)[u].busy = chunkUploads[u].busy
BY DEF UploadsTyped, Revoked, Set, SameBut, Entries, Reserved

LEMMA TableBusy ==
    ASSUME UploadsTyped, NEW u \in Reserved, NEW busy \in BOOLEAN
    PROVE  LET table == Set(u, "busy", busy)
           IN  /\ SameBut(table, u)
               /\ table[u] \in Entries /\ table[u].busy = busy
               /\ table[u].live = chunkUploads[u].live
BY DEF UploadsTyped, Set, SameBut, Entries, Reserved

LEMMA TableAppended ==
    ASSUME UploadsTyped, NEW u \in Reserved
    PROVE  LET table == [chunkUploads EXCEPT ![u].received = @ + 1, ![u].busy = FALSE]
           IN  /\ SameBut(table, u)
               /\ table[u] \in Entries /\ ~table[u].busy
               /\ table[u].live = chunkUploads[u].live
<1>. DEFINE mid == [chunkUploads EXCEPT ![u].received = @ + 1]
            table == [mid EXCEPT ![u].busy = FALSE]
<1>1. /\ DOMAIN mid = Reserved /\ mid[u] \in Entries
      /\ mid[u].live = chunkUploads[u].live
      /\ \A v \in Reserved : v # u => mid[v] = chunkUploads[v]
  BY DEF UploadsTyped, Entries, Reserved
<1>2. [chunkUploads EXCEPT ![u].received = @ + 1, ![u].busy = FALSE] = table
  OBVIOUS
<1>. HIDE DEF mid
<1>3. /\ DOMAIN table = Reserved /\ table[u] \in Entries /\ ~table[u].busy
      /\ table[u].live = chunkUploads[u].live
      /\ \A v \in Reserved : v # u => table[v] = chunkUploads[v]
  BY <1>1 DEF Entries
<1>. QED  BY <1>2, <1>3 DEF SameBut

\* A discard removes the file and the entry, or keeps the entry and ends its life.
LEMMA TableDiscarded ==
    ASSUME UploadsTyped, NEW u \in Reserved, NEW busy \in BOOLEAN, Discarded(u, busy)
    PROVE  \/ /\ files' = files \ {u}
              /\ DOMAIN chunkUploads' = Reserved \ {u}
              /\ \A v \in Reserved \ {u} : chunkUploads'[v] = chunkUploads[v]
           \/ /\ files' = files
              /\ SameBut(chunkUploads', u)
              /\ chunkUploads'[u] \in Entries /\ ~chunkUploads'[u].live
              /\ chunkUploads'[u].busy = busy
<1>1. PICK removed \in BOOLEAN :
         /\ files' = IF removed THEN files \ {u} ELSE files
         /\ LET left == Released(u, removed)
            IN  chunkUploads' = IF u \in DOMAIN left
                                THEN [left EXCEPT ![u].busy = busy] ELSE left
  BY DEF Discarded
<1>2. CASE removed
  BY <1>1, <1>2 DEF Released, Without, Reserved
<1>3. CASE ~removed
  <2>. DEFINE left == Revoked(u)
  <2>1. /\ DOMAIN left = Reserved /\ left[u] \in Entries /\ ~left[u].live
        /\ \A v \in Reserved : v # u => left[v] = chunkUploads[v]
    BY TableRevoked DEF SameBut
  <2>2. chunkUploads' = [left EXCEPT ![u].busy = busy] /\ files' = files
    BY <1>1, <1>3, <2>1 DEF Released
  <2>. HIDE DEF left
  <2>. QED  BY <2>1, <2>2 DEF SameBut, Entries
<1>. QED  BY <1>2, <1>3

\* Nobody else has the upload a call has, or one that nobody is using.
LEMMA NobodyElse ==
    ASSUME UploadsInv, NEW i \in Callers, NEW u \in Reserved,
           upload[i] = u \/ ~chunkUploads[u].busy,
           NEW j \in Callers, j # i
    PROVE  upload[j] # u
<1>1. u # NoUpload
  BY UploadAssumption DEF UploadsInv, UploadsTyped
<1>2. Holds(i) /\ Holds(j)
  BY DEF UploadsInv
<1>. QED  BY <1>1, <1>2 DEF Holds

\* A call changes the entry of the upload it has, or of one it takes.
LEMMA CallStep ==
    ASSUME UploadsInv, NEW i \in Callers, NEW u \in Reserved,
           upload[i] = u \/ ~chunkUploads[u].busy,
           SameBut(chunkUploads', u), chunkUploads'[u] \in Entries,
           files' \subseteq Reserved, begun' = begun,
           NEW place \in Places, upc' = [upc EXCEPT ![i] = place],
           upload' = [upload EXCEPT ![i] = IF place = "idle" THEN NoUpload ELSE u],
           place # "idle" => chunkUploads'[u].busy,
           published' \in [Uploads -> {0, 1}],
           \A v \in Uploads : v # u => published'[v] = published[v],
           chunkUploads'[u].live \/ place \in {"commit", "publish"} => published'[u] = 0
    PROVE  UploadsInv'
<1>0. /\ UploadsTyped /\ u \in Uploads /\ u # NoUpload
      /\ DOMAIN chunkUploads' = Reserved
      /\ \A v \in Reserved : v # u => chunkUploads'[v] = chunkUploads[v]
  BY UploadAssumption DEF UploadsInv, UploadsTyped, SameBut
<1>1. /\ upc'[i] = place
      /\ upload'[i] = IF place = "idle" THEN NoUpload ELSE u
      /\ \A j \in Callers : j # i => upc'[j] = upc[j] /\ upload'[j] = upload[j]
  BY <1>0 DEF UploadsTyped
<1>2. UploadsTyped'
  BY <1>0 DEF UploadsTyped, Reserved
<1>3. ASSUME NEW j \in Callers PROVE Holds(j)'
  <2>1. CASE j = i
    <3>1. \A k \in Callers : k # i => upload[k] # u
      BY NobodyElse
    <3>. QED  BY <1>0, <1>1, <2>1, <3>1 DEF Holds, Reserved
  <2>2. CASE j # i
    <3>1. upload[j] # u
      BY <2>2, NobodyElse
    <3>2. Holds(j)
      BY DEF UploadsInv
    <3>3. upload[j] \in Uploads \cup {NoUpload}
      BY <1>0 DEF UploadsTyped
    <3>4. /\ upc'[j] = "idle" <=> upload'[j] = NoUpload
          /\ upc'[j] # "idle" => upload'[j] \in Reserved' /\ chunkUploads'[upload'[j]].busy
      BY <1>0, <1>1, <2>2, <3>1, <3>2 DEF Holds, Reserved
    <3>5. upc'[j] \in {"commit", "publish"} => published'[upload'[j]] = 0
      BY <1>0, <1>1, <2>2, <3>1, <3>2, <3>3 DEF Holds
    <3>6. \A k \in Callers : upload'[k] = upload'[j] /\ k # j => upload'[j] = NoUpload
      BY <1>1, <2>2, <3>1, <3>2 DEF Holds
    <3>. QED  BY <3>4, <3>5, <3>6 DEF Holds
  <2>. QED  BY <2>1, <2>2
<1>4. Unpublished'
  <2>1. Unpublished
    BY DEF UploadsInv
  <2>. QED  BY <1>0, <2>1 DEF Unpublished, Live, Reserved, UploadsTyped
<1>. QED  BY <1>2, <1>3, <1>4 DEF UploadsInv

\* Time and the sweeper change an entry that they leave as busy as it was.
LEMMA IdleStep ==
    ASSUME UploadsInv, NEW u \in Reserved,
           SameBut(chunkUploads', u), chunkUploads'[u] \in Entries,
           chunkUploads'[u].busy = chunkUploads[u].busy,
           chunkUploads'[u].live => chunkUploads[u].live,
           files' \subseteq files, UNCHANGED <<begun, upc, upload, published>>
    PROVE  UploadsInv'
<1>0. /\ UploadsTyped /\ Unpublished
      /\ DOMAIN chunkUploads' = Reserved
      /\ \A v \in Reserved : v # u => chunkUploads'[v] = chunkUploads[v]
  BY DEF UploadsInv, SameBut
<1>1. UploadsTyped'
  BY <1>0 DEF UploadsTyped, Reserved
<1>2. ASSUME NEW j \in Callers PROVE Holds(j)'
  <2>1. Holds(j)
    BY DEF UploadsInv
  <2>2. upload[j] \in Reserved => chunkUploads'[upload[j]].busy = chunkUploads[upload[j]].busy
    BY <1>0
  <2>. QED  BY <1>0, <2>1, <2>2 DEF Holds, Reserved
<1>3. Unpublished'
  BY <1>0 DEF Unpublished, Live, Reserved
<1>. QED  BY <1>1, <1>2, <1>3 DEF UploadsInv

\* An entry is removed once nobody has the upload any more.
LEMMA RemoveStep ==
    ASSUME UploadsInv, NEW u \in Reserved,
           files' = files \ {u}, DOMAIN chunkUploads' = Reserved \ {u},
           \A v \in Reserved \ {u} : chunkUploads'[v] = chunkUploads[v],
           UNCHANGED <<begun, published>>,
           \/ UNCHANGED <<upc, upload>> /\ ~chunkUploads[u].busy
           \/ \E i \in Callers : /\ upload[i] = u
                                 /\ upc' = [upc EXCEPT ![i] = "idle"]
                                 /\ upload' = [upload EXCEPT ![i] = NoUpload]
    PROVE  UploadsInv'
<1>0. UploadsTyped /\ Unpublished /\ u # NoUpload
  BY UploadAssumption DEF UploadsInv, UploadsTyped
<1>1. \A j \in Callers : \/ upc'[j] = "idle" /\ upload'[j] = NoUpload
                         \/ upc'[j] = upc[j] /\ upload'[j] = upload[j] /\ upload[j] # u
  <2>1. CASE UNCHANGED <<upc, upload>> /\ ~chunkUploads[u].busy
    BY <1>0, <2>1 DEF UploadsInv, Holds
  <2>2. ASSUME NEW i \in Callers, upload[i] = u,
               upc' = [upc EXCEPT ![i] = "idle"],
               upload' = [upload EXCEPT ![i] = NoUpload]
        PROVE  \A j \in Callers :
                  \/ upc'[j] = "idle" /\ upload'[j] = NoUpload
                  \/ upc'[j] = upc[j] /\ upload'[j] = upload[j] /\ upload[j] # u
    BY <1>0, <2>2, NobodyElse DEF UploadsTyped
  <2>. QED  BY <2>1, <2>2
<1>2. UploadsTyped'
  <2>1. upc' \in [Callers -> Places] /\ upload' \in [Callers -> Uploads \cup {NoUpload}]
    BY <1>0 DEF UploadsTyped, Places
  <2>. QED  BY <1>0, <2>1 DEF UploadsTyped, Reserved
<1>3. ASSUME NEW j \in Callers PROVE Holds(j)'
  <2>1. CASE upc'[j] = "idle" /\ upload'[j] = NoUpload
    BY <2>1 DEF Holds
  <2>2. CASE upc'[j] = upc[j] /\ upload'[j] = upload[j] /\ upload[j] # u
    <3>1. Holds(j)
      BY DEF UploadsInv
    <3>2. \A k \in Callers : upload'[k] = upload[k] \/ upload'[k] = NoUpload
      BY <1>1
    <3>. QED  BY <1>0, <2>2, <3>1, <3>2 DEF Holds, Reserved
  <2>. QED  BY <1>1, <2>1, <2>2
<1>4. Unpublished'
  BY <1>0 DEF Unpublished, Live, Reserved
<1>. QED  BY <1>2, <1>3, <1>4 DEF UploadsInv

\* An upload is begun once: its id is new.
LEMMA BeginStep ==
    ASSUME UploadsInv, NEW i \in Callers, Begin(i)
    PROVE  UploadsInv'
<1>1. PICK u \in Uploads \ begun :
         /\ begun' = begun \cup {u}
         /\ chunkUploads' = [v \in Reserved \cup {u} |->
               IF v = u THEN [busy |-> TRUE, live |-> TRUE, received |-> 0]
               ELSE chunkUploads[v]]
         /\ upload' = [upload EXCEPT ![i] = u]
  BY DEF Begin
<1>2. /\ upc' = [upc EXCEPT ![i] = "create"] /\ UNCHANGED <<files, published>>
  BY DEF Begin, Go
<1>3. /\ UploadsTyped /\ Unpublished /\ u \notin Reserved /\ u # NoUpload
      /\ DOMAIN chunkUploads' = Reserved \cup {u}
      /\ chunkUploads'[u] \in Entries /\ chunkUploads'[u].busy
      /\ \A v \in Reserved : chunkUploads'[v] = chunkUploads[v]
  BY <1>1, UploadAssumption DEF UploadsInv, UploadsTyped, Entries
<1>4. \A j \in Callers : upload[j] # u
  BY <1>3 DEF UploadsInv, Holds
<1>5. UploadsTyped'
  BY <1>1, <1>2, <1>3 DEF UploadsTyped, Reserved, Places
<1>6. ASSUME NEW j \in Callers PROVE Holds(j)'
  <2>1. CASE j = i
    BY <1>1, <1>2, <1>3, <1>4, <2>1 DEF Holds, Reserved, UploadsTyped
  <2>2. CASE j # i
    <3>1. Holds(j) /\ upc'[j] = upc[j] /\ upload'[j] = upload[j]
      BY <1>1, <1>2, <1>3, <2>2 DEF UploadsInv, UploadsTyped
    <3>2. \A k \in Callers : upload'[k] = upload[k] \/ upload'[k] = u
      BY <1>1, <1>3 DEF UploadsTyped
    <3>. QED  BY <1>2, <1>3, <1>4, <3>1, <3>2 DEF Holds, Reserved
  <2>. QED  BY <2>1, <2>2
<1>7. Unpublished'
  BY <1>1, <1>2, <1>3 DEF Unpublished, Live, Reserved
<1>. QED  BY <1>5, <1>6, <1>7 DEF UploadsInv

LEMMA CallerStep ==
    ASSUME UploadsInv, NEW i \in Callers, UploadCall(i) \/ Uploading(i)
    PROVE  UploadsInv'
<1>0. UploadsTyped /\ Unpublished /\ Holds(i)
  BY DEF UploadsInv
<1>. DEFINE u == upload[i]
<1>1. upc[i] # "idle" => /\ u \in Reserved /\ u \in Uploads /\ chunkUploads[u].busy
                         /\ chunkUploads[u] \in Entries
  BY <1>0 DEF Holds, UploadsTyped
<1>2. upc[i] # "idle" =>
         /\ SameBut(Revoked(u), u)
         /\ Revoked(u)[u] \in Entries /\ ~Revoked(u)[u].live /\ Revoked(u)[u].busy
  BY <1>0, <1>1, TableRevoked
<1>3. SameBut(chunkUploads, u)
  BY DEF SameBut, Reserved
<1>4. files \subseteq Reserved /\ published \in [Uploads -> {0, 1}]
      /\ upload \in [Callers -> Uploads \cup {NoUpload}]
  BY <1>0 DEF UploadsTyped
<1>5. upc[i] # "idle" /\ chunkUploads[u].live => published[u] = 0
  BY <1>0, <1>1 DEF Unpublished, Live
<1>6. upload = [upload EXCEPT ![i] = u]
  BY <1>4
<1>. HIDE DEF u
<1>. USE DEF At, Go, Return
<1>7. CASE Begin(i)
  BY <1>7, BeginStep
<1>8. CASE Create(i)
  <2>1. /\ upc[i] = "create" /\ UNCHANGED <<upload, begun, published>>
        /\ upc' = [upc EXCEPT ![i] = "created"] \/ upc' = [upc EXCEPT ![i] = "abandon"]
        /\ files' \subseteq files \cup {u}
        /\ chunkUploads' = chunkUploads \/ chunkUploads' = Revoked(u)
    BY <1>8 DEF Create, u
  <2>. QED
    BY <1>1, <1>2, <1>3, <1>4, <1>5, <1>6, <2>1, CallStep DEF Places, u
<1>9. CASE Created(i)
  <2>1. /\ upc[i] = "created" /\ UNCHANGED <<files, begun, published>>
    BY <1>9 DEF Created
  <2>2. CASE Live(u)
    <3>1. /\ upc' = [upc EXCEPT ![i] = "idle"] /\ upload' = [upload EXCEPT ![i] = NoUpload]
          /\ chunkUploads' = Set(u, "busy", FALSE)
      BY <1>9, <2>2 DEF Created, u
    <3>2. /\ SameBut(chunkUploads', u) /\ chunkUploads'[u] \in Entries
          /\ chunkUploads'[u].live = chunkUploads[u].live
      BY <1>0, <1>1, <2>1, <3>1, TableBusy
    <3>. QED  BY <1>1, <1>4, <1>5, <2>1, <3>1, <3>2, CallStep DEF Places, u
  <2>3. CASE ~Live(u)
    <3>1. /\ upc' = [upc EXCEPT ![i] = "abandon"] /\ UNCHANGED upload
          /\ chunkUploads' = Revoked(u)
      BY <1>9, <2>3 DEF Created, u
    <3>. QED  BY <1>1, <1>2, <1>4, <1>6, <2>1, <3>1, CallStep DEF Places, u
  <2>. QED  BY <2>2, <2>3
<1>10. ASSUME NEW to \in {"append", "commit"}, Acquire(i, to) PROVE UploadsInv'
  <2>1. PICK v \in Reserved :
           /\ chunkUploads[v].live /\ ~chunkUploads[v].busy
           /\ chunkUploads' = Set(v, "busy", TRUE)
           /\ upload' = [upload EXCEPT ![i] = v]
    BY <1>10 DEF Acquire, Acquirable, Live
  <2>2. upc' = [upc EXCEPT ![i] = to] /\ UNCHANGED <<files, begun, published>>
    BY <1>10 DEF Acquire
  <2>3. /\ SameBut(chunkUploads', v) /\ chunkUploads'[v] \in Entries
        /\ chunkUploads'[v].busy
    BY <1>0, <2>1, TableBusy
  <2>4. published[v] = 0
    BY <1>0, <2>1 DEF Unpublished, Live, UploadsTyped
  <2>. QED  BY <1>4, <2>1, <2>2, <2>3, <2>4, CallStep DEF Places
<1>11. CASE Append(i)
  <2>1. upc[i] = "append" /\ UNCHANGED <<files, begun, published>>
    BY <1>11 DEF Append
  <2>2. CASE /\ chunkUploads' = [chunkUploads EXCEPT ![u].received = @ + 1, ![u].busy = FALSE]
             /\ Return(i)
    <3>1. /\ SameBut(chunkUploads', u) /\ chunkUploads'[u] \in Entries
          /\ chunkUploads'[u].live = chunkUploads[u].live
      BY <1>0, <1>1, <2>1, <2>2, TableAppended
    <3>. QED  BY <1>1, <1>4, <1>5, <2>1, <2>2, <3>1, CallStep DEF Places, u
  <2>3. CASE chunkUploads' = Revoked(u) /\ upc' = [upc EXCEPT ![i] = "discard"]
             /\ UNCHANGED upload
    BY <1>1, <1>2, <1>4, <1>6, <2>1, <2>3, CallStep DEF Places, u
  <2>4. CASE Live(u) /\ chunkUploads' = Set(u, "busy", FALSE) /\ Return(i)
    <3>1. u \in Reserved
      BY <2>4 DEF Live
    <3>2. /\ SameBut(chunkUploads', u) /\ chunkUploads'[u] \in Entries
          /\ chunkUploads'[u].live = chunkUploads[u].live
      BY <1>0, <2>4, <3>1, TableBusy
    <3>. QED  BY <1>1, <1>4, <1>5, <2>1, <2>4, <3>2, CallStep DEF Places, u
  <2>. QED  BY <1>11, <2>2, <2>3, <2>4 DEF Append, u
<1>12. CASE Read(i)
  <2>1. upc[i] = "commit" /\ UNCHANGED <<files, upload, begun, published>>
    BY <1>12 DEF Read
  <2>2. CASE upc' = [upc EXCEPT ![i] = "publish"] /\ UNCHANGED chunkUploads
    <3>1. published[u] = 0
      BY <1>0, <2>1 DEF Holds, u
    <3>. QED  BY <1>1, <1>3, <1>4, <1>6, <2>1, <2>2, <3>1, CallStep DEF Places, u
  <2>3. CASE chunkUploads' = Revoked(u) /\ upc' = [upc EXCEPT ![i] = "discard"]
    BY <1>1, <1>2, <1>4, <1>6, <2>1, <2>3, CallStep DEF Places, u
  <2>. QED  BY <1>12, <2>2, <2>3 DEF Read, u
<1>13. CASE Publish(i)
  <2>1. /\ upc[i] = "publish" /\ UNCHANGED <<files, upload, begun>>
        /\ chunkUploads' = Revoked(u) /\ upc' = [upc EXCEPT ![i] = "discard"]
    BY <1>13 DEF Publish, u
  <2>2. PICK ok \in {0, 1} : published' = [published EXCEPT ![u] = @ + ok]
    BY <1>13 DEF Publish, u
  <2>3. published[u] = 0
    BY <1>0, <2>1 DEF Holds, u
  <2>4. /\ published' \in [Uploads -> {0, 1}]
        /\ \A v \in Uploads : v # u => published'[v] = published[v]
    BY <1>1, <1>4, <2>1, <2>2, <2>3
  <2>. QED  BY <1>1, <1>2, <1>4, <1>6, <2>1, <2>4, CallStep DEF Places, u
<1>14. CASE Discard(i)
  <2>1. /\ upc[i] \in {"abandon", "discard"} /\ UNCHANGED <<begun, published>>
        /\ upc' = [upc EXCEPT ![i] = "idle"] /\ upload' = [upload EXCEPT ![i] = NoUpload]
    BY <1>14 DEF Discard
  <2>2. PICK busy \in BOOLEAN : Discarded(u, busy)
    <3>1. Discarded(u, upc[i] = "abandon") /\ (upc[i] = "abandon") \in BOOLEAN
      BY <1>14 DEF Discard, u
    <3>. QED  BY <3>1
  <2>3. CASE /\ files' = files \ {u}
             /\ DOMAIN chunkUploads' = Reserved \ {u}
             /\ \A v \in Reserved \ {u} : chunkUploads'[v] = chunkUploads[v]
    BY <1>1, <2>1, <2>3, RemoveStep DEF u
  <2>4. CASE /\ files' = files /\ SameBut(chunkUploads', u)
             /\ chunkUploads'[u] \in Entries /\ ~chunkUploads'[u].live
    BY <1>1, <1>4, <2>1, <2>4, CallStep DEF Places, u
  <2>. QED  BY <1>0, <1>1, <2>1, <2>2, <2>3, <2>4, TableDiscarded
<1>. QED
  BY <1>7, <1>8, <1>9, <1>10, <1>11, <1>12, <1>13, <1>14 DEF UploadCall, Uploading

LEMMA SweepStep ==
    ASSUME UploadsInv, NEW u \in Uploads, Cleanup(u) \/ Expires(u)
    PROVE  UploadsInv'
<1>0. UploadsTyped
  BY DEF UploadsInv
<1>1. SameBut(chunkUploads, u)
  BY DEF SameBut, Reserved
<1>2. u \in Reserved /\ chunkUploads[u] \in Entries /\ u \in DOMAIN chunkUploads
  BY <1>0 DEF Cleanup, Expires, Live, UploadsTyped, Reserved
<1>3. CASE Expires(u)
  <2>1. chunkUploads' = Revoked(u) /\ UNCHANGED <<files, upc, upload, begun, published>>
    BY <1>3 DEF Expires
  <2>. QED  BY <1>0, <1>2, <2>1, TableRevoked, IdleStep
<1>4. CASE Cleanup(u) /\ InUse(u)
  <2>1. files' \subseteq files /\ UNCHANGED <<chunkUploads, upc, upload, begun, published>>
    BY <1>4 DEF Cleanup
  <2>. QED  BY <1>1, <1>2, <2>1, IdleStep
<1>5. CASE Cleanup(u) /\ ~InUse(u)
  <2>1. Discarded(u, FALSE) /\ UNCHANGED <<upc, upload, begun, published>>
        /\ ~chunkUploads[u].busy
    BY <1>5 DEF Cleanup, InUse
  <2>2. CASE /\ files' = files \ {u}
             /\ DOMAIN chunkUploads' = Reserved \ {u}
             /\ \A v \in Reserved \ {u} : chunkUploads'[v] = chunkUploads[v]
    BY <1>2, <2>1, <2>2, RemoveStep
  <2>3. CASE /\ files' = files /\ SameBut(chunkUploads', u)
             /\ chunkUploads'[u] \in Entries /\ ~chunkUploads'[u].live
             /\ chunkUploads'[u].busy = FALSE
    <3>1. chunkUploads'[u].busy = chunkUploads[u].busy
      BY <1>2, <2>1, <2>3 DEF Entries
    <3>. QED  BY <1>2, <2>1, <2>3, <3>1, IdleStep
  <2>. QED  BY <1>0, <1>2, <2>1, <2>2, <2>3, TableDiscarded
<1>. QED  BY <1>3, <1>4, <1>5

\* With the process its uploads go, but not what was begun and published.
LEMMA DieStep ==
    ASSUME UploadsInv, Die
    PROVE  UploadsInv'
<1>1. /\ UploadsTyped /\ Unpublished
      /\ Reserved' = {} /\ files' = {} /\ UNCHANGED <<begun, published>>
      /\ upc' = [i \in Callers |-> "idle"] /\ upload' = [i \in Callers |-> NoUpload]
  BY DEF UploadsInv, Die, Reserved
<1>. QED  BY <1>1 DEF UploadsInv, UploadsTyped, Places, Holds, Unpublished, Live

\* Whatever overlaps, fails or dies: a call that is at work has its upload busy, and
\* what the server holds agrees with its reservations.
THEOREM UploadsInvariant == Spec => []UploadsInv
<1>1. Init => UploadsInv
  <2>. SUFFICES ASSUME Init PROVE UploadsInv
    OBVIOUS
  <2>1. /\ Reserved = {} /\ files = {} /\ begun = {}
        /\ published = [u \in Uploads |-> 0]
        /\ upc = [i \in Callers |-> "idle"] /\ upload = [i \in Callers |-> NoUpload]
    BY DEF Init, UploadsInit, Reserved
  <2>. QED  BY <2>1 DEF UploadsInv, UploadsTyped, Places, Holds, Unpublished
<1>2. UploadsInv /\ [Next]_vars => UploadsInv'
  <2>. SUFFICES ASSUME UploadsInv, [Next]_vars PROVE UploadsInv'
    OBVIOUS
  <2>1. CASE UNCHANGED <<chunkUploads, files, upc, upload, begun, published>>
    BY <2>1 DEF UploadsInv, UploadsTyped, Holds, Unpublished, Live, Reserved
  <2>2. \/ \E i \in Callers : UploadCall(i) \/ Uploading(i)
        \/ \E u \in Uploads : Cleanup(u) \/ Expires(u)
        \/ Die
        \/ UNCHANGED <<chunkUploads, files, upc, upload, begun, published>>
    BY DEF Next, OfUploads, OfSessions, OpenSession, PrepareDirectory, CleanupOrphans, Restart,
           uploadVars, vars
  <2>. QED  BY <2>1, <2>2, CallerStep, SweepStep, DieStep
<1>. QED  BY <1>1, <1>2, PTL DEF Spec

\* An upload becomes a resource at most once, however often it is committed.
THEOREM UploadPublishedOnce == Spec => []PublishedOnce
<1>1. UploadsInv => PublishedOnce
  BY DEF UploadsInv, UploadsTyped, PublishedOnce
<1>. QED  BY <1>1, UploadsInvariant, PTL

-----------------------------------------------------------------------------
(***************************************************************************)
(* Part 3: the quotas.  They are counted on reservations before anything   *)
(* is awaited; what is on the disk or in the memory of a publisher is      *)
(* always reserved, and so within them.                                    *)
(***************************************************************************)

WithinQuota(us) ==
    /\ Cardinality(us) <= TotalCount /\ Size(us) <= TotalBytes
    /\ \A u \in Uploads :
          /\ Cardinality(Own(us, u)) <= PerPrincipalCount
          /\ Size(Own(us, u)) <= PerPrincipalBytes

\* Finitely many uploads have finitely many chunks.
LEMMA ChunksFinite ==
    ASSUME NEW us, us \subseteq Uploads
    PROVE  IsFiniteSet(us) /\ IsFiniteSet(ChunksIn(us))
<1>. DEFINE Of == [u \in us |-> {u} \X (1..SizeOf[u])]
            Parts == {{u} \X (1..SizeOf[u]) : u \in us}
<1>1. IsFiniteSet(us)
  BY FS_Subset, UploadAssumption
<1>2. Of \in Surjection(us, Parts)
  <2>1. Of \in [us -> Parts]
    OBVIOUS
  <2>2. ASSUME NEW part \in Parts PROVE \E u \in us : Of[u] = part
    <3>1. PICK u \in us : part = {u} \X (1..SizeOf[u])
      BY <2>2
    <3>2. Of[u] = part
      BY <3>1
    <3>. QED  BY <3>2
  <2>. HIDE DEF Of, Parts
  <2>. QED  BY <2>1, <2>2 DEF Surjection
<1>3. IsFiniteSet(Parts)
  <2>. HIDE DEF Of, Parts
  <2>. QED  BY <1>1, <1>2, FS_Surjection
<1>4. ASSUME NEW u \in us PROVE IsFiniteSet({u} \X (1..SizeOf[u]))
  <2>1. SizeOf[u] \in Nat
    BY UploadAssumption
  <2>2. IsFiniteSet(1..SizeOf[u])
    BY <2>1, FS_Interval
  <2>3. IsFiniteSet({u})
    BY FS_Singleton
  <2>. QED  BY <2>2, <2>3, FS_Product
<1>5. \A part \in Parts : IsFiniteSet(part)
  BY <1>4
<1>6. IsFiniteSet(UNION Parts)
  BY <1>3, <1>5, FS_UNION
<1>. QED  BY <1>1, <1>6 DEF ChunksIn

\* Fewer uploads take no more.
LEMMA FewerTakeLess ==
    ASSUME NEW us, us \subseteq Uploads, NEW vs, vs \subseteq us
    PROVE  /\ Cardinality(vs) <= Cardinality(us)
           /\ Cardinality(vs) \in Nat /\ Cardinality(us) \in Nat
           /\ Size(vs) <= Size(us) /\ Size(vs) \in Nat /\ Size(us) \in Nat
<1>1. IsFiniteSet(us) /\ IsFiniteSet(ChunksIn(us)) /\ ChunksIn(vs) \subseteq ChunksIn(us)
  BY ChunksFinite DEF ChunksIn
<1>2. /\ Cardinality(vs) <= Cardinality(us)
      /\ Cardinality(vs) \in Nat /\ Cardinality(us) \in Nat
  BY <1>1, FS_Subset, FS_CardinalityType
<1>3. /\ Cardinality(ChunksIn(vs)) <= Cardinality(ChunksIn(us))
      /\ Cardinality(ChunksIn(vs)) \in Nat /\ Cardinality(ChunksIn(us)) \in Nat
  BY <1>1, FS_Subset, FS_CardinalityType
<1>. QED  BY <1>2, <1>3 DEF Size

LEMMA PartWithinQuota ==
    ASSUME NEW us, us \subseteq Uploads, WithinQuota(us), NEW vs, vs \subseteq us
    PROVE  WithinQuota(vs)
<1>0. {PerPrincipalCount, PerPrincipalBytes, TotalCount, TotalBytes} \subseteq Nat
  BY UploadAssumption
<1>1. Cardinality(vs) <= TotalCount /\ Size(vs) <= TotalBytes
  BY <1>0, FewerTakeLess DEF WithinQuota
<1>2. ASSUME NEW u \in Uploads
      PROVE  /\ Cardinality(Own(vs, u)) <= PerPrincipalCount
             /\ Size(Own(vs, u)) <= PerPrincipalBytes
  <2>1. Own(vs, u) \subseteq Own(us, u) /\ Own(us, u) \subseteq Uploads
    BY DEF Own
  <2>2. /\ Cardinality(Own(us, u)) <= PerPrincipalCount
        /\ Size(Own(us, u)) <= PerPrincipalBytes
    BY DEF WithinQuota
  <2>. QED  BY <1>0, <2>1, <2>2, FewerTakeLess
<1>. QED  BY <1>1, <1>2 DEF WithinQuota

\* A begin makes room for the one it reserves.
LEMMA RoomKept ==
    ASSUME Reserved \subseteq Uploads, WithinQuota(Reserved),
           NEW u \in Uploads, HasRoom(u)
    PROVE  WithinQuota(Reserved \cup {u})
<1>0. /\ {PerPrincipalCount, PerPrincipalBytes, TotalCount, TotalBytes} \subseteq Nat
      /\ IsFiniteSet(Uploads)
  BY UploadAssumption
<1>1. \A us : us \subseteq Uploads => /\ IsFiniteSet(us) /\ Cardinality(us) \in Nat
                                      /\ Cardinality(us \cup {u}) <= Cardinality(us) + 1
                                      /\ Cardinality(us \cup {u}) \in Nat
  BY <1>0, FS_Subset, FS_CardinalityType, FS_AddElement
<1>2. /\ Cardinality(Reserved) < TotalCount /\ Size(Reserved \cup {u}) <= TotalBytes
      /\ Cardinality(Own(Reserved, u)) < PerPrincipalCount
      /\ Size(Own(Reserved, u) \cup {u}) <= PerPrincipalBytes
  BY DEF HasRoom
<1>3. Cardinality(Reserved \cup {u}) <= TotalCount
  <2>1. /\ Cardinality(Reserved \cup {u}) <= Cardinality(Reserved) + 1
        /\ Cardinality(Reserved \cup {u}) \in Nat /\ Cardinality(Reserved) \in Nat
    BY <1>1
  <2>. QED  BY <1>0, <1>2, <2>1
<1>4. ASSUME NEW v \in Uploads
      PROVE  /\ Cardinality(Own(Reserved \cup {u}, v)) <= PerPrincipalCount
             /\ Size(Own(Reserved \cup {u}, v)) <= PerPrincipalBytes
  <2>1. CASE OwnerOf[v] = OwnerOf[u]
    <3>1. Own(Reserved \cup {u}, v) = Own(Reserved, u) \cup {u}
      BY <2>1 DEF Own
    <3>2. Own(Reserved, u) \subseteq Uploads
      BY DEF Own
    <3>3. /\ Cardinality(Own(Reserved, u) \cup {u}) <= Cardinality(Own(Reserved, u)) + 1
          /\ Cardinality(Own(Reserved, u) \cup {u}) \in Nat
          /\ Cardinality(Own(Reserved, u)) \in Nat
      BY <1>1, <3>2
    <3>4. Cardinality(Own(Reserved, u) \cup {u}) <= PerPrincipalCount
      BY <1>0, <1>2, <3>3
    <3>. QED  BY <1>2, <3>1, <3>4, Zenon
  <2>2. CASE OwnerOf[v] # OwnerOf[u]
    <3>1. Own(Reserved \cup {u}, v) = Own(Reserved, v)
      BY <2>2 DEF Own
    <3>2. /\ Cardinality(Own(Reserved, v)) <= PerPrincipalCount
          /\ Size(Own(Reserved, v)) <= PerPrincipalBytes
      BY DEF WithinQuota
    <3>. QED  BY <3>1, <3>2, Zenon
  <2>. QED  BY <2>1, <2>2
<1>. QED  BY <1>2, <1>3, <1>4 DEF WithinQuota

\* Only a begin reserves.
LEMMA ReservedStep ==
    ASSUME UploadsInv, [Next]_vars
    PROVE  \/ Reserved' \subseteq Reserved
           \/ \E u \in Uploads : HasRoom(u) /\ Reserved' = Reserved \cup {u}
<1>0. UploadsTyped
  BY DEF UploadsInv
<1>1. ASSUME NEW i \in Callers, Begin(i)
      PROVE  \E u \in Uploads : HasRoom(u) /\ Reserved' = Reserved \cup {u}
  BY <1>1 DEF Begin, Reserved
<1>2. ASSUME NEW u, chunkUploads' = Revoked(u) PROVE Reserved' = Reserved
  BY <1>0, <1>2, TableRevoked DEF SameBut, Reserved
<1>3. ASSUME NEW u, NEW busy \in BOOLEAN, chunkUploads' = Set(u, "busy", busy)
      PROVE  Reserved' = Reserved
  BY <1>3 DEF Set, Reserved
<1>4. ASSUME NEW u \in Reserved, NEW busy \in BOOLEAN, Discarded(u, busy)
      PROVE  Reserved' \subseteq Reserved
  BY <1>0, <1>4, TableDiscarded DEF SameBut, Reserved
<1>5. ASSUME NEW i \in Callers, \/ Create(i) \/ Created(i) \/ Read(i) \/ Publish(i)
                                \/ Acquire(i, "append") \/ Acquire(i, "commit")
      PROVE  Reserved' = Reserved
  BY <1>2, <1>3, <1>5 DEF Create, Created, Read, Publish, Acquire, Reserved
<1>6. ASSUME NEW i \in Callers, Append(i) PROVE Reserved' = Reserved
  BY <1>2, <1>3, <1>6 DEF Append, Reserved
<1>7. ASSUME NEW i \in Callers, Discard(i) PROVE Reserved' \subseteq Reserved
  <2>1. upload[i] \in Reserved
    BY <1>7 DEF Discard, UploadsInv, Holds
  <2>. QED  BY <1>4, <1>7, <2>1 DEF Discard, At
<1>8. ASSUME NEW u \in Uploads, Cleanup(u) \/ Expires(u) PROVE Reserved' \subseteq Reserved
  BY <1>2, <1>4, <1>8 DEF Cleanup, Expires, Reserved
<1>9. CASE Die
  BY <1>9 DEF Die, Reserved
<1>10. CASE UNCHANGED chunkUploads
  BY <1>10 DEF Reserved
<1>. QED
  BY <1>1, <1>5, <1>6, <1>7, <1>8, <1>9, <1>10
     DEF Next, OfUploads, OfSessions, OpenSession, UploadCall, Uploading, PrepareDirectory,
         CleanupOrphans, Restart, uploadVars, vars

\* The bytes on the disk and in memory never exceed the quotas.
THEOREM UsageBounded == Spec => []UsageWithinQuota
<1>. DEFINE Quota == WithinQuota(Reserved)
<1>1. Init => Quota
  <2>. SUFFICES ASSUME Init PROVE WithinQuota({}) /\ Reserved = {}
    BY Zenon
  <2>1. Reserved = {}
    BY DEF Init, UploadsInit, Reserved
  <2>2. \A u : Own({}, u) = {}
    BY DEF Own
  <2>3. Cardinality({}) = 0 /\ Size({}) = 0
    <3>1. ChunksIn({}) = {}
      BY DEF ChunksIn
    <3>. QED  BY <3>1, FS_EmptySet DEF Size
  <2>. QED  BY <2>1, <2>2, <2>3, UploadAssumption DEF WithinQuota
<1>2. UploadsInv /\ Quota /\ [Next]_vars => Quota'
  <2>. SUFFICES ASSUME UploadsInv, WithinQuota(Reserved), [Next]_vars
                PROVE  WithinQuota(Reserved')
    BY DEF WithinQuota
  <2>1. Reserved \subseteq Uploads
    BY DEF UploadsInv, UploadsTyped
  <2>2. CASE Reserved' \subseteq Reserved
    BY <2>1, <2>2, PartWithinQuota
  <2>3. ASSUME NEW u \in Uploads, HasRoom(u), Reserved' = Reserved \cup {u}
        PROVE  WithinQuota(Reserved')
    <3>1. WithinQuota(Reserved \cup {u})
      BY <2>1, <2>3, RoomKept
    <3>. QED  BY <2>3, <3>1, Zenon
  <2>. QED  BY <2>2, <2>3, ReservedStep
<1>3. UploadsInv /\ Quota => UsageWithinQuota
  <2>. SUFFICES ASSUME UploadsInv, WithinQuota(Reserved) PROVE UsageWithinQuota
    OBVIOUS
  <2>1. Held \subseteq Reserved /\ Reserved \subseteq Uploads
    BY DEF UploadsInv, UploadsTyped, Holds, Held
  <2>2. WithinQuota(Held)
    BY <2>1, PartWithinQuota
  <2>. QED  BY <2>2 DEF WithinQuota, UsageWithinQuota
<1>. QED  BY <1>1, <1>2, <1>3, UploadsInvariant, PTL DEF Spec
=============================================================================
