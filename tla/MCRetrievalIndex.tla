--------------------------- MODULE MCRetrievalIndex ---------------------------
(* Two clients; a text in two sources, an image, a memory that is superseded *)
(* in the second revision; one request for words and one for meaning.        *)
EXTENDS Diversification, TLC

CONSTANTS ann, ben

MCText(content, source, type, status) ==
    [kind |-> "text", content |-> content, source |-> source, level |-> 1, status |-> status, type |-> type]
MCImage == [kind |-> "image", content |-> "photo", source |-> "deck", level |-> 1,
            status |-> "parsed", type |-> "artifact"]
MCBase(status) ==
    "a" :> MCText("plan", "deck", "artifact", "parsed") @@ "b" :> MCImage
    @@ "c" :> MCText("plan", "copy", "memory", status)

MCImage2 == [MCImage EXCEPT !.content = "chart"]
MCCorpus == "r1" :> MCBase("accepted") @@ "r2" :> MCBase("superseded")
            @@ "images" :> ("a" :> MCImage @@ "b" :> MCImage2)
MCRequests ==
    {[terms |-> {"plan"}, similar |-> {"photo", "plan"}, maximum |-> 1, history |-> TRUE,
      unverified |-> FALSE, size |-> 2]}
MCOrder == <<"a", "b", "c">>
MCLoad == [first |-> "r1", searches |-> 3, changes |-> 0, failures |-> 0, restarts |-> 0, drops |-> 0]
MCWorkloads ==
    {MCLoad,
     [MCLoad EXCEPT !.searches = 2, !.changes = 1],
     [MCLoad EXCEPT !.searches = 2, !.restarts = 1, !.drops = 1, !.failures = 1],
     [MCLoad EXCEPT !.first = "images", !.searches = 1, !.failures = 2]}

\* The loop of diversify: every corpus of four units with three contents and two
\* sources, with one or two hits of a source in a round.
MCIds == <<"a", "b", "c", "d">>
MCUnits == {[content |-> k, source |-> s] : k \in {"plan", "photo", "chart"},
                                            s \in {"deck", "copy"}}
MCCorpora == LET all == [Range(MCIds) -> MCUnits] IN [u \in all |-> u]
MCOne == INSTANCE Diversification
             WITH Corpus <- MCCorpora, Order <- MCIds, MaxPerSource <- 1
MCTwo == INSTANCE Diversification
             WITH Corpus <- MCCorpora, Order <- MCIds, MaxPerSource <- 2
ASSUME MCDiversification ==
    LoopIsDiversify /\ MCOne!LoopIsDiversify /\ MCTwo!LoopIsDiversify
=============================================================================
