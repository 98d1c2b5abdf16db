------------------------------ MODULE McpSessions ------------------------------
(***************************************************************************)
(* Sessions of the HTTP server (mcp/project-http-server.ts).  A request    *)
(* that initialises a session reserves a place before it awaits anything;  *)
(* the place is released when the transport closes, which a failed         *)
(* connection, a refused or undelivered answer, the client's disconnection *)
(* or DELETE, the sweeper and the server's stop each bring about.          *)
(***************************************************************************)
EXTENDS Naturals, FiniteSets

CONSTANTS
    Connections,     \* initialisation requests, each with its transport
    PrincipalOf, MaxSessions, MaxPrincipalSessions

ASSUME SessionAssumption == {MaxSessions, MaxPrincipalSessions} \subseteq Nat

VARIABLES
    reservations, \* connections that hold a place
    sessions,     \* connections whose session requests find
    named,        \* connections whose transport has a session id
    spc,          \* where the initialisation is
    old,          \* reservations not seen for the session's lifetime
    gone,         \* connections whose client has gone
    stopping

sessionVars == <<reservations, sessions, named, spc, old, gone, stopping>>

SessionsInit ==
    /\ reservations = {} /\ sessions = {} /\ named = {} /\ old = {} /\ gone = {}
    /\ spc = [c \in Connections |-> "new"]
    /\ stopping = FALSE

\* onclose: the transport's reservation and session are dropped.
Closed(cs) ==
    /\ reservations' = reservations \ cs
    /\ sessions' = sessions \ cs
    /\ old' = old \ cs

Step(c, from, to) == spc[c] = from /\ spc' = [spc EXCEPT ![c] = to]

-----------------------------------------------------------------------------
OfPrincipal(cs, c) == {d \in cs : PrincipalOf[d] = PrincipalOf[c]}

\* createSession
Reserve(c) ==
    /\ Step(c, "new", "connecting")
    /\ ~stopping /\ c \notin gone
    /\ Cardinality(reservations) < MaxSessions
    /\ Cardinality(OfPrincipal(reservations, c)) < MaxPrincipalSessions
    /\ reservations' = reservations \cup {c}
    /\ UNCHANGED <<sessions, named, old, gone, stopping>>

Connect(c) ==
    /\ \/ Step(c, "connecting", "handling") /\ UNCHANGED <<reservations, sessions, old>>
       \/ Step(c, "connecting", "closed") /\ Closed({c})
    /\ UNCHANGED <<named, gone, stopping>>

\* onsessioninitialized: a session whose place was taken away is not entered.
AdmitsUnlessStopping(c) == ~stopping
Admits(c) == ~stopping /\ c \in reservations

\* handleRequest: an invalid request gets no session.
Handle(c) ==
    /\ \/ /\ Step(c, "handling", "answering")
          /\ named' = named \cup {c}
          /\ Admits(c)
          /\ sessions' = sessions \cup {c}
       \/ /\ Step(c, "handling", "refused")
          /\ named' \in {named, named \cup {c}}
          /\ UNCHANGED sessions
    /\ UNCHANGED <<reservations, old, gone, stopping>>

\* The answer is delivered; or it is an error, or nobody is there, and the transport
\* is closed.
Delivers(c) == spc[c] = "answering" /\ c \notin gone

Answer(c) ==
    /\ spc[c] \in {"answering", "refused"}
    /\ IF Delivers(c)
       THEN spc' = [spc EXCEPT ![c] = "open"] /\ UNCHANGED <<reservations, sessions, old>>
       ELSE spc' = [spc EXCEPT ![c] = "closed"] /\ Closed({c})
    /\ UNCHANGED <<named, gone, stopping>>

\* The client goes away: before its answer, the transport is closed at once, but not
\* while it is being connected, when nobody listens yet.
Disconnect(c) ==
    /\ c \notin gone /\ gone' = gone \cup {c}
    /\ IF spc[c] \in {"handling", "answering", "refused"} THEN Closed({c})
       ELSE UNCHANGED <<reservations, sessions, old>>
    /\ UNCHANGED <<named, spc, stopping>>

\* A request in the session is seen when it begins; DELETE closes the session.
Request(c) ==
    /\ c \in sessions \ gone /\ spc[c] = "open"
    /\ \/ old' = old \ {c} /\ UNCHANGED <<reservations, sessions>>
       \/ Closed({c})
    /\ UNCHANGED <<named, spc, gone, stopping>>

GrowOld(c) ==
    /\ c \in reservations \ old /\ old' = old \cup {c}
    /\ UNCHANGED <<reservations, sessions, named, spc, gone, stopping>>

\* The sweeper: old sessions, and old reservations that never came to an id.
SweptSessions(c) == c \in old /\ c \in sessions
Swept(c) == c \in old /\ (c \in sessions \/ c \notin named)

Sweep(c) ==
    /\ c \in reservations /\ ~stopping /\ Swept(c)
    /\ Closed({c})
    /\ UNCHANGED <<named, spc, gone, stopping>>

Stop ==
    /\ ~stopping /\ stopping' = TRUE
    /\ Closed(Connections)
    /\ UNCHANGED <<named, spc, gone>>

\* A restarted server: what was being initialised or open is lost.
SessionsDie ==
    /\ spc' = [c \in Connections |-> IF spc[c] = "new" THEN "new" ELSE "closed"]
    /\ Closed(Connections) /\ stopping' = FALSE
    /\ UNCHANGED <<named, gone>>

Initialising(c) == Handle(c) \/ Answer(c)

-----------------------------------------------------------------------------
\* Every session that requests find holds a place: the limits on places, in sum and
\* per principal, are limits on sessions, although places are released while their
\* initialisation still runs.
SessionsHoldPlaces == sessions \subseteq reservations
=============================================================================
