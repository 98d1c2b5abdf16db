---------------------------- MODULE RevisionChain ----------------------------
(***************************************************************************)
(* What the canonical revision store promises its callers, without files,  *)
(* locks or staging directories: one chain of published batches that only  *)
(* grows at its end, and a compare-and-swap publication that takes effect  *)
(* at most once, in one step, and only on top of the parent its caller     *)
(* expected.  RevisionStore implements this specification as long as no    *)
(* lock directory is ever old enough to be broken.                         *)
(*                                                                         *)
(* A revision is named by the hash of its parent's name and of its own     *)
(* mutations, so a revision is the sequence of the batches that lead to    *)
(* it, and the empty sequence stands for a store without a pointer.        *)
(***************************************************************************)
EXTENDS Naturals, Sequences

CONSTANTS Writers,   \* processes that publish
          Batches    \* the mutation lists a caller may submit

VARIABLES head,      \* the active revision
          call,      \* per writer: none, open or done (took effect, not returned)
          want       \* per writer: the publication asked for

vars == <<head, call, want>>

\* cas is FALSE when the caller passes no expectedParent.
Wants == [batch : Batches, cas : BOOLEAN, expected : Seq(Batches)]

Init ==
    /\ head = <<>>
    /\ call = [w \in Writers |-> "none"]
    /\ want \in [Writers -> Wants]

\* Only the request of w may change.
Asks(w) ==
    /\ want' \in [Writers -> Wants]
    /\ \A v \in Writers \ {w} : want'[v] = want[v]

Invoke(w) ==
    /\ call[w] = "none"
    /\ Asks(w)
    /\ call' = [call EXCEPT ![w] = "open"]
    /\ UNCHANGED head

\* The publication takes effect, in one step.
Commit(w) ==
    /\ call[w] = "open"
    /\ want[w].cas => want[w].expected = head
    /\ head' = Append(head, want[w].batch)
    /\ call' = [call EXCEPT ![w] = "done"]
    /\ UNCHANGED want

\* The call returns, is refused, or its process dies.
Close(w) ==
    /\ call[w] # "none"
    /\ call' = [call EXCEPT ![w] = "none"]
    /\ Asks(w)
    /\ UNCHANGED head

Next == \E w \in Writers : Invoke(w) \/ Commit(w) \/ Close(w)

Spec == Init /\ [][Next]_vars
=============================================================================
