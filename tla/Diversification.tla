---------------------------- MODULE Diversification ----------------------------
(***************************************************************************)
(* The loop of diversify (retrieval/index.ts), on hits of one score band:  *)
(* rounds of distinct contents, and within each, rounds of at most         *)
(* MaxPerSource hits of a source.  RetrievalIndex states its result        *)
(* without a loop; LoopIsDiversify compares the two.                       *)
(***************************************************************************)
EXTENDS RetrievalIndex

\* One pass over the hits: those whose key has come `limit` times wait.
Pass(hits, key, limit) ==
    FoldLeft(LAMBDA done, id :
                 IF Cardinality({i \in DOMAIN done.taken : key[done.taken[i]] = key[id]}) < limit
                 THEN [done EXCEPT !.taken = Append(@, id)]
                 ELSE [done EXCEPT !.waiting = Append(@, id)],
             [taken |-> <<>>, waiting |-> <<>>], hits)

\* What each pass takes, until nothing is left.
RECURSIVE Rounds(_, _, _)
Rounds(hits, key, limit) ==
    IF hits = <<>> THEN <<>>
    ELSE LET pass == Pass(hits, key, limit)
         IN  <<pass.taken>> \o Rounds(pass.waiting, key, limit)

BySource(hits, r) ==
    FlattenSeq(Rounds(hits, [id \in Range(hits) |-> Corpus[r][id].source], MaxPerSource))

ByContent(hits, r) ==
    LET rounds == Rounds(hits, [id \in Range(hits) |-> Corpus[r][id].content], 1)
    IN  FlattenSeq([n \in DOMAIN rounds |-> BySource(rounds[n], r)])

\* For hits of any ids, in ascending order as a ranking gives them.
LoopIsDiversify ==
    \A r \in DOMAIN Corpus : \A hits \in SUBSET DOMAIN Corpus[r] :
        Diversify(hits, r) = ByContent(SelectSeq(Order, LAMBDA id : id \in hits), r)
=============================================================================
