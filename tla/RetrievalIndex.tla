---------------------------- MODULE RetrievalIndex ----------------------------
(***************************************************************************)
(* The retrieval index (retrieval/index.ts): one database of lexical       *)
(* tables, vectors and result pages, shared by a server that answers       *)
(* searches and an indexer that embeds.  Each process has one index object *)
(* with its own caches.  A search runs without interruption up to its      *)
(* first provider call; other calls of the server run while it waits, and  *)
(* the other process may commit between any two of its statements.         *)
(*                                                                         *)
(* Scores are left out: the hits of a ranking come in the order of their   *)
(* ids, then diversify postpones some.  Searches have the intent           *)
(* "collect", which has no candidate window.                               *)
(***************************************************************************)
EXTENDS Naturals, FiniteSets, SequencesExt

CONSTANTS
    Clients,
    Corpus,      \* revision -> id -> the unit of that id in that revision's corpus
    Requests,    \* what clients search for
    Order,       \* the ids, in ascending order
    NoRevision,
    BatchSize, MaxPerSource, MaxSnapshots, MaxPages, MaxRankings, \* limits of the code
    Workloads    \* bounds: the first revision, how many searches, changes of the
                 \* records, failures, restarts and dropped cache entries there are

Revisions == DOMAIN Corpus
Unit == [kind : {"text", "image"}, content : STRING, source : STRING, level : 0..3,
         status : STRING, type : STRING]

\* terms, similar: the contents the query matches by words and by vectors.
Request == [terms : SUBSET STRING, similar : SUBSET STRING, maximum : 0..3,
            history : BOOLEAN, unverified : BOOLEAN, size : Nat \ {0}]

ASSUME IndexAssumption ==
    /\ NoRevision \notin Revisions \cup Nat
    /\ \A r \in Revisions : DOMAIN Corpus[r] \subseteq Range(Order)
    /\ \A r \in Revisions : \A id \in DOMAIN Corpus[r] : Corpus[r][id] \in Unit
    /\ Order \in Seq(Range(Order)) /\ IsInjective(Order)
    /\ \A q \in Requests : q \in Request
    /\ {BatchSize, MaxPerSource, MaxSnapshots, MaxPages, MaxRankings} \subseteq Nat \ {0}
    /\ \A w \in Workloads :
          /\ w.first \in Revisions
          /\ {w.searches, w.changes, w.failures, w.restarts, w.drops} \subseteq Nat

Processes == {"server", "indexer"}

VARIABLES
    current,     \* revision of the project's records
    tables,      \* revision in the lexical tables
    embedded,    \* contents whose vector is in the database
    generation,  \* of the vectors: new with every stored batch
    pages,       \* ids of the stored result pages
    missing,     \* per process: contents cached as having no vector
    known,       \* per process: cacheGeneration, or NoRevision after a start
    snapshots, rankings, \* of the server: ids in memory; the cache of rankings
    made,        \* every ranking that was made, by its id: a later one has a larger
    pc, call,    \* per client: where its search is, and what it has
    round,       \* of the indexer: where it is, with what corpus, what is left
    settled,     \* lastRevision of the indexer
    workload, count \* bounds

database == <<tables, embedded, generation, pages>>
caches == <<missing, known, snapshots, rankings>>
clientVars == <<made, pc, call>>
indexerVars == <<round, settled>>
bounds == <<workload, count>>
vars == <<current, database, caches, clientVars, indexerVars, bounds>>

\* A cursor names a ranking (0: none) and an offset in it.
NoCall == [request |-> NoRevision, revision |-> NoRevision, snapshot |-> 0, offset |-> 0,
           seen |-> <<>>, since |-> {}, key |-> <<>>, hits |-> {}, vectors |-> {},
           failed |-> FALSE, torn |-> FALSE]
NoRound == [pc |-> "idle", first |-> NoRevision, revision |-> NoRevision, left |-> {},
            single |-> {}]

Init ==
    /\ workload \in Workloads
    /\ count = [searches |-> 0, changes |-> 0, failures |-> 0, restarts |-> 0,
                drops |-> 0]
    /\ current = workload.first
    /\ tables = NoRevision /\ embedded = {} /\ generation = 0 /\ pages = {}
    /\ missing = [p \in Processes |-> {}]
    /\ known = [p \in Processes |-> NoRevision]
    /\ snapshots = {} /\ rankings = {} /\ made = <<>>
    /\ pc = [c \in Clients |-> "idle"] /\ call = [c \in Clients |-> NoCall]
    /\ round = NoRound /\ settled = NoRevision

Count(what) ==
    /\ count[what] < workload[what]
    /\ count' = [count EXCEPT ![what] = @ + 1] /\ UNCHANGED workload

\* What a table keeps that drops the oldest above n.
Newest(ids, n) == {i \in ids : Cardinality({j \in ids : j > i}) < n}

-----------------------------------------------------------------------------
(* What a request may see *)

Historical == {"stale", "superseded", "archived"}
Unverified == {"candidate", "quarantined", "proposed"}
LexicalOnly == {"work_item", "audit_event"}

Permitted(u, q) ==
    /\ u.level <= q.maximum
    /\ q.history \/ u.status \notin Historical
    /\ u.type # "validation_event"
    /\ \/ q.unverified
       \/ /\ u.status \notin Unverified
          /\ \/ u.type # "memory" \/ u.status = "accepted"
             \/ q.history /\ u.status \in Historical

\* The same conditions as the search of the tables states them.
Selected(u, q) ==
    /\ u.level <= q.maximum
    /\ u.type # "validation_event"
    /\ ~q.history => u.status \notin Historical
    /\ ~q.unverified =>
          /\ u.status \notin Unverified
          /\ IF q.history THEN u.type # "memory" \/ u.status = "accepted" \/ u.status \in Historical
             ELSE u.type # "memory" \/ u.status = "accepted"

\* Only units anyone may see are sent to the provider.
Plain == [terms |-> {}, similar |-> {}, maximum |-> 1, history |-> FALSE,
          unverified |-> FALSE, size |-> 1]
Visible == [r \in Revisions |-> [q \in Requests \cup {Plain} |->
               {id \in DOMAIN Corpus[r] : Permitted(Corpus[r][id], q)}]]

Eligible(u) == u.kind = "image" \/ u.type \notin LexicalOnly

\* diversify: every further hit of the same content comes one round later; within
\* a round, so does every MaxPerSource-th further hit of the same source.
Place(id) == CHOOSE n \in DOMAIN Order : Order[n] = id

ContentRound(hits, r) ==
    [id \in hits |-> Cardinality({x \in hits : Place(x) < Place(id)
                        /\ Corpus[r][x].content = Corpus[r][id].content})]

SourceRound(hits, r) ==
    LET content == ContentRound(hits, r)
    IN  [id \in hits |-> Cardinality({x \in hits : Place(x) < Place(id)
                            /\ content[x] = content[id]
                            /\ Corpus[r][x].source = Corpus[r][id].source}) \div MaxPerSource]

ComesBefore(hits, r) ==
    LET content == ContentRound(hits, r)
        source == SourceRound(hits, r)
    IN  {p \in hits \X hits :
            \/ content[p[1]] < content[p[2]]
            \/ /\ content[p[1]] = content[p[2]]
               /\ \/ source[p[1]] < source[p[2]]
                  \/ source[p[1]] = source[p[2]] /\ Place(p[1]) < Place(p[2])}

\* All hits, each once, in that order.
Diversify(hits, r) ==
    LET before == ComesBefore(hits, r)
    IN  CHOOSE s \in SetToSeqs(hits) :
            \A i, j \in DOMAIN s : i < j => <<s[i], s[j]>> \in before

-----------------------------------------------------------------------------
(* Caches of a process *)

\* refreshVectorCache: misses and rankings of another generation are dropped.
Refresh(p) ==
    /\ known' = [known EXCEPT ![p] = generation]
    /\ missing' = [missing EXCEPT ![p] = IF generation = known[p] THEN @ ELSE {}]
    /\ rankings' = IF p = "server" /\ generation # known[p] THEN {} ELSE rankings

\* vector: a content that is looked up and not found is a miss until refreshed.
WithVector(p, r, ids) == {id \in ids : Corpus[r][id].content \in embedded \ missing[p]}
Remember(p, r, ids) ==
    missing' = [missing EXCEPT ![p] = @ \cup ({Corpus[r][id].content : id \in ids} \ embedded)]

\* rememberVector: an entry is dropped at the limit.
Forget(p) ==
    /\ Count("drops")
    /\ \E k \in missing[p] : missing' = [missing EXCEPT ![p] = @ \ {k}]
    /\ UNCHANGED <<current, database, known, snapshots, rankings, clientVars, indexerVars>>

SemanticIds == [r \in Revisions |-> [q \in Requests \cup {Plain} |->
    [kind \in {"text", "image"} |->
        {id \in Visible[r][q] : Corpus[r][id].kind = kind /\ Eligible(Corpus[r][id])}]]]

-----------------------------------------------------------------------------
(* Searches *)

\* Up to its first await a call has the server's process for itself.
Free == \A c \in Clients : pc[c] # "select"

\* evidenceCorpus: the corpus is of the records as they are when the call comes;
\* a cursor goes with the request it was returned for.
Arrive(c) ==
    /\ \/ /\ pc[c] \in {"idle", "done"}
          /\ \E q \in Requests : call' = [call EXCEPT ![c] =
                                    [NoCall EXCEPT !.request = q, !.revision = current]]
       \/ /\ pc[c] = "more"
          /\ call' = [call EXCEPT ![c].revision = current]
    /\ Count("searches")
    /\ pc' = [pc EXCEPT ![c] = "corpus"]
    /\ UNCHANGED <<current, database, caches, made, indexerVars>>

\* search begins: the vector cache is refreshed and synchronizeLexical puts the
\* call's corpus into the tables.
Begin(c) ==
    /\ pc[c] = "corpus" /\ Free
    /\ Refresh("server")
    /\ tables' = call[c].revision
    /\ call' = [call EXCEPT ![c].since = IF call[c].snapshot = 0 THEN embedded ELSE @]
    /\ pc' = [pc EXCEPT ![c] = "select"]
    /\ UNCHANGED <<current, embedded, generation, pages, snapshots, made, indexerVars, bounds>>

\* page: the units of one ranking are looked up in this request's corpus.
Page(c, snapshot, id, offset) ==
    LET r == call[c].revision
        next == Min({offset + call[c].request.size, Len(snapshot.hits)})
        slice == SubSeq(snapshot.hits, offset + 1, next)
    IN  IF Range(slice) \subseteq Visible[r][call[c].request]
        THEN /\ pc' = [pc EXCEPT ![c] = IF next < Len(snapshot.hits) THEN "more" ELSE "done"]
             /\ call' = [call EXCEPT ![c].snapshot = id, ![c].offset = next,
                                     ![c].seen = @ \o slice]
        ELSE /\ pc' = [pc EXCEPT ![c] = "idle"]
             /\ call' = [call EXCEPT ![c] = NoCall]

\* A cursor is answered from its ranking, if that is still held and of this revision.
Held(id) == id \in snapshots \cup pages

Continue(c) ==
    /\ pc[c] = "select" /\ call[c].snapshot # 0
    /\ LET id == call[c].snapshot
       IN  IF Held(id) /\ made[id].revision = call[c].revision
           THEN Page(c, made[id], id, call[c].offset)
           ELSE pc' = [pc EXCEPT ![c] = "idle"] /\ call' = [call EXCEPT ![c] = NoCall]
    /\ UNCHANGED <<current, database, caches, made, indexerVars, bounds>>

\* The key of a ranking: request, revision and generation of the vector cache.
RankingKeyOfScope(c) == <<call[c].request, call[c].revision>>
RankingKey(c) == <<call[c].request, call[c].revision, known["server"]>>
CachedFor(c) == {x \in rankings : x.key = RankingKey(c)}

FromCache(c) ==
    /\ pc[c] = "select" /\ call[c].snapshot = 0
    /\ \E x \in CachedFor(c) : Page(c, made[x.id], x.id, 0)
    /\ UNCHANGED <<current, database, caches, made, indexerVars, bounds>>

\* Lexical candidates come from the tables, whatever corpus they now hold, and
\* count only if this call's unit of that id is visible and has the words.
Lexical(c) ==
    LET r == call[c].revision
        q == call[c].request
    IN  {id \in Visible[r][q] \cap DOMAIN Corpus[tables] :
            /\ Selected(Corpus[tables][id], q)
            /\ {Corpus[tables][id].content, Corpus[r][id].content} \subseteq q.terms}

\* The visible units of a kind that may have a vector.
Semantic(c, kind) == SemanticIds[call[c].revision][call[c].request][kind]
Similar(c, ids) ==
    {id \in ids : Corpus[call[c].revision][id].content \in call[c].request.similar}

\* Coverage looks up every vector; then the call waits for the query's.
Candidates(c) ==
    /\ pc[c] = "select" /\ call[c].snapshot = 0 /\ CachedFor(c) = {}
    /\ Remember("server", call[c].revision, Semantic(c, "text") \cup Semantic(c, "image"))
    /\ call' = [call EXCEPT ![c].key = RankingKey(c), ![c].hits = Lexical(c),
                            ![c].vectors = WithVector("server", call[c].revision,
                                                      Semantic(c, "text")),
                            ![c].torn = tables # call[c].revision]
    /\ pc' = [pc EXCEPT ![c] = "text"]
    /\ UNCHANGED <<current, database, known, snapshots, rankings, made, indexerVars, bounds>>

\* queryVector for texts, then for images, then the reranking: each is answered, or
\* fails and is done without.
AnswerText(c) ==
    /\ pc[c] = "text" /\ Free
    /\ pc' = [pc EXCEPT ![c] = "image"]
    /\ \E ok \in BOOLEAN :
          /\ IF ok THEN UNCHANGED bounds ELSE call[c].vectors # {} /\ Count("failures")
          /\ call' = [call EXCEPT
                ![c].hits = IF ok THEN @ \cup Similar(c, call[c].vectors) ELSE @,
                ![c].failed = ~ok,
                ![c].vectors = WithVector("server", call[c].revision, Semantic(c, "image"))]
    /\ Remember("server", call[c].revision, Semantic(c, "image"))
    /\ UNCHANGED <<current, database, known, snapshots, rankings, made, indexerVars>>

\* With images found by what they show, words add no other image.
FusedImages(c) == Similar(c, call[c].vectors)
Fused(c) ==
    LET found == Similar(c, call[c].vectors)
    IN  {id \in call[c].hits : Corpus[call[c].revision][id].kind = "text"} \cup found

AnswerImage(c) ==
    /\ pc[c] = "image" /\ Free
    /\ pc' = [pc EXCEPT ![c] = "rerank"]
    /\ \E ok \in BOOLEAN :
          /\ IF ok THEN UNCHANGED bounds ELSE call[c].vectors # {} /\ Count("failures")
          /\ call' = [call EXCEPT
                ![c].hits = IF ok /\ call[c].vectors # {} THEN Fused(c) ELSE @,
                ![c].failed = @ \/ ~ok]
    /\ UNCHANGED <<current, database, caches, made, indexerVars>>

\* The ranking is stored in memory and in the database, in the cache unless some
\* call failed, and its first page is returned.
Cache(c, id) ==
    LET entries == {x \in rankings : x.key # call[c].key}
                       \cup {[key |-> call[c].key, id |-> id]}
    IN  {x \in entries : x.id \in Newest({y.id : y \in entries}, MaxRankings)}

Store(c) ==
    /\ pc[c] = "rerank" /\ Free
    /\ \E ok \in BOOLEAN :
          LET id == Len(made) + 1
              failed == call[c].failed \/ ~ok
              ranking == [revision |-> call[c].revision, failed |-> failed,
                          torn |-> call[c].torn,
                          hits |-> Diversify(call[c].hits, call[c].revision)]
          IN  /\ IF ok THEN UNCHANGED bounds ELSE call[c].hits # {} /\ Count("failures")
              /\ made' = Append(made, ranking)
              /\ snapshots' = Newest(snapshots \cup {id}, MaxSnapshots)
              /\ pages' = Newest(pages \cup {id}, MaxPages)
              /\ rankings' = IF failed THEN rankings ELSE Cache(c, id)
              /\ Page(c, ranking, id, 0)
    /\ UNCHANGED <<current, tables, embedded, generation, missing, known, indexerVars>>

\* After 30 seconds, the oldest first.
Expire ==
    /\ \E x \in rankings : /\ \A y \in rankings : x.id <= y.id
                           /\ rankings' = rankings \ {x}
    /\ Count("drops")
    /\ UNCHANGED <<current, database, missing, known, snapshots, clientVars, indexerVars>>

\* The server is restarted: its caches and calls are lost, cursors are not.
Restart ==
    /\ Count("restarts")
    /\ missing' = [missing EXCEPT !["server"] = {}]
    /\ known' = [known EXCEPT !["server"] = NoRevision]
    /\ snapshots' = {} /\ rankings' = {}
    /\ LET broken == {c \in Clients : pc[c] \notin {"idle", "more", "done"}}
       IN  /\ pc' = [c \in Clients |-> IF c \in broken THEN "idle" ELSE pc[c]]
           /\ call' = [c \in Clients |-> IF c \in broken THEN NoCall ELSE call[c]]
    /\ UNCHANGED <<current, database, made, indexerVars>>

-----------------------------------------------------------------------------
(* The indexer *)

Safe(r, kind) == SemanticIds[r][Plain][kind]
ContentsOf(r, ids) == {Corpus[r][id].content : id \in ids}
Lacking(r, kind) == ContentsOf(r, Safe(r, kind) \ WithVector("indexer", r, Safe(r, kind)))

\* A round of the indexer: nothing to do for a revision it has settled.
BeginRound ==
    /\ round.pc = "idle" /\ current # settled
    /\ round' = [NoRound EXCEPT !.pc = "synchronize", !.first = current]
    /\ UNCHANGED <<current, database, caches, clientVars, settled, bounds>>

\* rebuildRetrieval: the corpus is read once more.
Rebuild ==
    /\ round.pc = "synchronize"
    /\ Refresh("indexer")
    /\ tables' = current
    /\ round' = [round EXCEPT !.pc = "lookup", !.revision = current]
    /\ UNCHANGED <<current, embedded, generation, pages, snapshots, clientVars, settled, bounds>>

\* Texts are looked up first; when they are done, images.
LookUp ==
    /\ round.pc \in {"lookup", "text"} /\ round.left = {}
    /\ LET kind == IF round.pc = "lookup" THEN "text" ELSE "image"
       IN  /\ round' = [round EXCEPT !.pc = kind, !.left = Lacking(round.revision, kind)]
           /\ Remember("indexer", round.revision, Safe(round.revision, kind))
    /\ UNCHANGED <<current, database, known, snapshots, rankings, clientVars, settled, bounds>>

\* embedPayloadBatch: a batch is stored in one transaction, with a new generation.
StoreBatch(batch) ==
    /\ embedded' = embedded \cup batch /\ generation' = generation + 1
    /\ missing' = [missing EXCEPT !["indexer"] = @ \ batch]
    /\ UNCHANGED <<current, tables, pages, known, snapshots, rankings, clientVars, settled, bounds>>

Batches == {b \in SUBSET round.left : b # {} /\ Cardinality(b) <= BatchSize}

EmbedBatch ==
    /\ round.pc \in {"text", "image"} /\ round.single = {}
    /\ \E batch \in Batches :
          StoreBatch(batch) /\ round' = [round EXCEPT !.left = @ \ batch]

\* A batch fails; images of an invalid batch are tried one by one, once.
FailBatch ==
    /\ round.pc \in {"text", "image"} /\ round.single = {} /\ Count("failures")
    /\ \E batch \in Batches : \E single \in {{}, batch} :
          /\ single # {} => round.pc = "image" /\ Cardinality(batch) > 1
          /\ round' = [round EXCEPT !.left = @ \ batch, !.single = single]
    /\ UNCHANGED <<current, database, caches, clientVars, settled>>

EmbedSingle ==
    \E k \in round.single :
        StoreBatch({k}) /\ round' = [round EXCEPT !.single = @ \ {k}]
FailSingle ==
    /\ Count("failures")
    /\ \E k \in round.single : round' = [round EXCEPT !.single = @ \ {k}]
    /\ UNCHANGED <<current, database, caches, clientVars, settled>>

\* The revision the round began with is settled when all that can have a vector does.
CompleteInAnyCase(r) == r \in Revisions
Complete(r) == Lacking(r, "text") \cup Lacking(r, "image") = {}

EndRound ==
    /\ round.pc = "image" /\ round.left = {} /\ round.single = {}
    /\ settled' = IF Complete(round.revision) THEN round.first ELSE settled
    /\ LET safe == Safe(round.revision, "text") \cup Safe(round.revision, "image")
       IN  Remember("indexer", round.revision, safe)
    /\ round' = NoRound
    /\ UNCHANGED <<current, database, known, snapshots, rankings, clientVars, bounds>>

Indexing ==
    \/ BeginRound \/ Rebuild \/ LookUp \/ EmbedBatch \/ EmbedSingle
    \/ FailBatch \/ FailSingle \/ EndRound

-----------------------------------------------------------------------------
\* Some record is published: the corpus of the next call is another one.
Change ==
    /\ Count("changes")
    /\ current' \in Revisions \ {current}
    /\ UNCHANGED <<database, caches, clientVars, indexerVars>>

Searching(c) ==
    \/ Begin(c) \/ Continue(c) \/ FromCache(c) \/ Candidates(c)
    \/ AnswerText(c) \/ AnswerImage(c) \/ Store(c)

Next ==
    \/ \E c \in Clients : Arrive(c) \/ Searching(c)
    \/ Indexing
    \/ Change \/ Expire \/ Restart
    \/ \E p \in Processes : Forget(p)

Spec == Init /\ [][Next]_vars
FairSpec == Spec /\ WF_vars(Indexing)

-----------------------------------------------------------------------------
(* Properties *)

\* What a search that has come to its last page must have returned.
Ended(c) == pc[c] = "done" /\ ~made[call[c].snapshot].failed

\* A client that follows the cursors of a search to the end is given every visible
\* text with the words it asked for, and nothing twice, although changes of the
\* records, other searches and restarts come between its pages and the vectors are
\* stored meanwhile; unless another process replaced the lexical tables between two
\* statements of the call.
CollectedOnce ==
    \A c \in Clients :
        Ended(c) =>
            LET r == call[c].revision
                q == call[c].request
            IN  /\ IsInjective(call[c].seen)
                /\ Range(call[c].seen) = Range(made[call[c].snapshot].hits)
                /\ ~made[call[c].snapshot].torn =>
                      {id \in Visible[r][q] : Corpus[r][id].kind = "text"
                          /\ Corpus[r][id].content \in q.terms} \subseteq Range(call[c].seen)

\* Neither a cached miss nor a cached ranking hides a vector: what is similar and had
\* its vector when the search began is returned.
VectorsCount ==
    \A c \in Clients :
        Ended(c) =>
            \A id \in Semantic(c, "text") \cup Semantic(c, "image") :
                id \in Similar(c, {id}) /\ Corpus[call[c].revision][id].content \in call[c].since
                    => id \in Range(call[c].seen)

\* Whatever batches fail, every content that may be sent to the provider has its
\* vector in the end.
EmbeddedInTheEnd ==
    \A r \in Revisions :
        <>[](current = r) =>
            <>(ContentsOf(r, Safe(r, "text") \cup Safe(r, "image")) \subseteq embedded)
=============================================================================
