----------------------------- MODULE AnswerLedger -----------------------------
(***************************************************************************)
(* What users may rely on when they answer conflicts, without records that *)
(* are read in separate steps, revisions, packets, leases and retries: an  *)
(* answer is locked in one step, at most once per idempotency key, and     *)
(* only on the conflict as its user saw it; a locked conflict waits for    *)
(* its answer, which is applied in one step, at most once; and a user is   *)
(* told that an answer is pending only if that very answer is stored.      *)
(* ConflictResolution implements this specification.                       *)
(***************************************************************************)
EXTENDS Naturals

CONSTANTS
    Clients, Keys, Conflicts,
    Outcomes,    \* "remain_open" opens a conflict again, the others settle it
    NoCall,      \* a client submits nothing; nothing is stored with a key
    NoKey        \* no answer locks a conflict

VARIABLES
    asked,       \* per client: the answer it submits
    answer,      \* per key: the answer stored with it
    applied,     \* the keys whose answer has been applied
    standing,    \* per conflict: its status, its version, and the key that locks it
    told         \* keys whose answer some user knows to be pending

vars == <<asked, answer, applied, standing, told>>

Answers == [key : Keys, conflict : Conflicts, outcome : Outcomes, expected : Nat]
Open(version) == [status |-> "open", version |-> version, by |-> NoKey]

Init ==
    /\ asked = [i \in Clients |-> NoCall]
    /\ answer = [k \in Keys |-> NoCall]
    /\ applied = {}
    /\ standing = [c \in Conflicts |-> Open(0)]
    /\ told = {}

\* A user submits an answer, for the first time or again.
Submit(i) ==
    /\ asked[i] = NoCall
    /\ asked'[i] \in Answers
    /\ asked' = [asked EXCEPT ![i] = asked'[i]]
    /\ UNCHANGED <<answer, applied, standing, told>>

Lock(i) ==
    LET a == asked[i]
    IN  /\ a # NoCall
        /\ answer[a.key] = NoCall
        /\ standing[a.conflict] = Open(a.expected)
        /\ answer' = [answer EXCEPT ![a.key] = a]
        /\ standing' = [standing EXCEPT ![a.conflict] =
               [status |-> "resolution_pending", version |-> a.expected + 1, by |-> a.key]]
        /\ UNCHANGED <<asked, applied, told>>

\* The call returns resolution_pending.
Tell(i) ==
    /\ asked[i] # NoCall
    /\ answer[asked[i].key] = asked[i]
    /\ told' = told \cup {asked[i].key}
    /\ asked' = [asked EXCEPT ![i] = NoCall]
    /\ UNCHANGED <<answer, applied, standing>>

\* The call ends in any other way; what it has locked stays locked.
Leave(i) ==
    /\ asked[i] # NoCall
    /\ asked' = [asked EXCEPT ![i] = NoCall]
    /\ UNCHANGED <<answer, applied, standing, told>>

Apply(k) ==
    LET a == answer[k]
    IN  /\ a # NoCall /\ k \notin applied
        /\ standing[a.conflict].by = k
        /\ applied' = applied \cup {k}
        /\ standing' = [standing EXCEPT ![a.conflict] =
               [status |-> IF a.outcome = "remain_open" THEN "open" ELSE "resolved",
                version |-> a.expected + 2, by |-> NoKey]]
        /\ UNCHANGED <<asked, answer, told>>

\* An open conflict changes.
Observe(c) ==
    /\ standing[c].status = "open"
    /\ standing' = [standing EXCEPT ![c].version = @ + 1]
    /\ UNCHANGED <<asked, answer, applied, told>>

Next ==
    \/ \E i \in Clients : Submit(i) \/ Lock(i) \/ Tell(i) \/ Leave(i)
    \/ \E k \in Keys : Apply(k)
    \/ \E c \in Conflicts : Observe(c)

Spec == Init /\ [][Next]_vars
=============================================================================
