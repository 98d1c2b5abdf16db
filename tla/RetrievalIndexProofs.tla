------------------------- MODULE RetrievalIndexProofs -------------------------
(***************************************************************************)
(* Proofs about RetrievalIndex for any number of clients, any corpora,     *)
(* requests and limits, and any number of changes, failures and restarts.  *)
(***************************************************************************)
EXTENDS RetrievalIndex, FiniteSetTheorems, SequenceTheorems, TLAPS

(***************************************************************************)
(* Part 1: the sequence that Diversify chooses exists.  Its order is       *)
(* total, so the number of hits that come before a hit is its place, and   *)
(* the places are those of a sequence of all hits.                         *)
(***************************************************************************)

Ids == Range(Order)

\* A finite set with a strict total order can be put into a sequence in that order.
LEMMA Sortable ==
    ASSUME NEW S, IsFiniteSet(S), NEW before,
           \A x \in S : <<x, x>> \notin before,
           \A x, y \in S : x # y => <<x, y>> \in before \/ <<y, x>> \in before,
           \A x, y, z \in S : <<x, y>> \in before /\ <<y, z>> \in before => <<x, z>> \in before
    PROVE  \E s \in SetToSeqs(S) : \A i, j \in DOMAIN s : i < j => <<s[i], s[j]>> \in before
<1>. DEFINE n == Cardinality(S)
            Below(y) == {x \in S : <<x, y>> \in before}
            Rank == [y \in S |-> Cardinality(Below(y)) + 1]
<1>1. n \in Nat /\ IsFiniteSet(1..n) /\ Cardinality(1..n) = n
  BY FS_CardinalityType, FS_Interval
<1>2. \A y \in S : IsFiniteSet(Below(y)) /\ Cardinality(Below(y)) \in Nat
  BY FS_Subset, FS_CardinalityType
<1>3. ASSUME NEW y \in S PROVE Cardinality(Below(y)) + 1 \in 1..n
  <2>1. IsFiniteSet(S \ {y}) /\ Cardinality(S \ {y}) = n - 1
    BY FS_RemoveElement
  <2>2. Below(y) \subseteq S \ {y}
    OBVIOUS
  <2>. HIDE DEF Below
  <2>3. Cardinality(Below(y)) <= n - 1
    BY <2>1, <2>2, FS_Subset
  <2>. QED  BY <1>1, <1>2, <2>3
<1>4. ASSUME NEW x \in S, NEW y \in S, <<x, y>> \in before
      PROVE  Rank[x] < Rank[y]
  <2>1. Below(x) \subseteq Below(y) \ {x} /\ x \in Below(y)
    BY <1>4
  <2>. HIDE DEF Below
  <2>2. /\ IsFiniteSet(Below(y) \ {x})
        /\ Cardinality(Below(y) \ {x}) = Cardinality(Below(y)) - 1
    BY <1>2, <2>1, FS_RemoveElement
  <2>3. Cardinality(Below(x)) <= Cardinality(Below(y)) - 1
    BY <2>1, <2>2, FS_Subset
  <2>. QED  BY <1>2, <2>3
<1>5. Rank \in [S -> 1..n]
  BY <1>3
<1>. HIDE DEF Rank
<1>6. ASSUME NEW x \in S, NEW y \in S, Rank[x] = Rank[y] PROVE x = y
  <2>1. Rank[x] \in Nat /\ Rank[y] \in Nat
    BY <1>5
  <2>2. ~(Rank[x] < Rank[y]) /\ ~(Rank[y] < Rank[x])
    BY <1>6, <2>1
  <2>. QED  BY <1>4, <2>2
<1>7. Rank \in Injection(S, 1..n)
  BY <1>5, <1>6 DEF Injection, IsInjective
<1>8. Rank \in Surjection(S, 1..n)
  BY <1>1, <1>7, FS_Injection
<1>. DEFINE s == [i \in 1..n |-> CHOOSE x \in S : Rank[x] = i]
<1>9. \A i \in 1..n : s[i] \in S /\ Rank[s[i]] = i
  <2>1. \A i \in 1..n : \E x \in S : Rank[x] = i
    BY <1>8 DEF Surjection
  <2>. QED  BY <2>1
<1>10. DOMAIN s = 1..n /\ s \in [1..n -> S]
  BY <1>9
<1>. HIDE DEF s
<1>11. s \in SetToSeqs(S)
  BY <1>9, <1>10 DEF SetToSeqs
<1>12. ASSUME NEW i \in 1..n, NEW j \in 1..n, i < j PROVE <<s[i], s[j]>> \in before
  <2>1. s[i] # s[j] /\ ~(<<s[j], s[i]>> \in before)
    BY <1>1, <1>4, <1>9, <1>12
  <2>. QED  BY <1>9, <2>1
<1>. QED  BY <1>10, <1>11, <1>12

\* A sequence of a set's elements has all of them, each once.
LEMMA AllOnce ==
    ASSUME NEW S, IsFiniteSet(S), NEW s \in SetToSeqs(S)
    PROVE  s \in Seq(S) /\ IsInjective(s) /\ Range(s) = S
<1>. DEFINE n == Cardinality(S)
<1>1. n \in Nat /\ IsFiniteSet(1..n) /\ Cardinality(1..n) = n
  BY FS_CardinalityType, FS_Interval
<1>2. s \in [1..n -> S] /\ IsInjective(s)
  BY DEF SetToSeqs, IsInjective
<1>3. s \in Injection(1..n, S)
  BY <1>2 DEF Injection
<1>4. s \in Surjection(1..n, S)
  BY <1>1, <1>3, FS_Injection
<1>5. Range(s) = S
  BY <1>2, <1>4 DEF Range, Surjection
<1>6. s \in Seq(S)
  BY <1>1, <1>2, SeqDef
<1>. QED  BY <1>2, <1>5, <1>6

LEMMA Places ==
    /\ \A x \in Ids : Place(x) \in Nat
    /\ \A x, y \in Ids : Place(x) = Place(y) => x = y
<1>1. DOMAIN Order \subseteq Nat
  BY LenProperties, IndexAssumption
<1>2. \A x \in Ids : Place(x) \in DOMAIN Order /\ Order[Place(x)] = x
  BY DEF Ids, Range, Place
<1>. QED  BY <1>1, <1>2

LEMMA IdsFinite == IsFiniteSet(Ids)
<1>1. Len(Order) \in Nat /\ DOMAIN Order = 1..Len(Order)
  BY LenProperties, IndexAssumption
<1>2. IsFiniteSet(DOMAIN Order)
  BY <1>1, FS_Interval
<1>3. Order \in Surjection(DOMAIN Order, Ids)
  <2>1. Order \in [DOMAIN Order -> Ids]
    BY <1>1, LenProperties, IndexAssumption DEF Ids
  <2>. QED  BY <2>1 DEF Surjection, Ids, Range
<1>. QED  BY <1>2, <1>3, FS_Surjection

\* The order of a ranking is total.
LEMMA OrderTotal ==
    ASSUME NEW S, S \subseteq Ids, NEW r
    PROVE  LET before == ComesBefore(S, r)
           IN  /\ \A x \in S : <<x, x>> \notin before
               /\ \A x, y \in S : x # y => <<x, y>> \in before \/ <<y, x>> \in before
               /\ \A x, y, z \in S :
                     <<x, y>> \in before /\ <<y, z>> \in before => <<x, z>> \in before
<1>. DEFINE content == ContentRound(S, r)
            source == SourceRound(S, r)
<1>1. \A x \in S : content[x] \in Nat
  <2>1. ASSUME NEW x \in S, NEW T, T \subseteq S PROVE Cardinality(T) \in Nat
    BY <2>1, IdsFinite, FS_Subset, FS_CardinalityType
  <2>. QED  BY <2>1 DEF ContentRound
<1>2. \A x \in S : source[x] \in Nat
  <2>1. ASSUME NEW x \in S, NEW T, T \subseteq S PROVE Cardinality(T) \div MaxPerSource \in Nat
    <3>1. Cardinality(T) \in Nat
      BY <2>1, IdsFinite, FS_Subset, FS_CardinalityType
    <3>2. MaxPerSource \in Nat \ {0}
      BY IndexAssumption
    <3>. QED  BY <3>1, <3>2
  <2>. QED  BY <2>1 DEF SourceRound
<1>3. \A x \in S : Place(x) \in Nat
  BY Places
<1>4. \A x, y \in S : Place(x) = Place(y) => x = y
  BY Places
<1>5. \A x, y \in S : <<x, y>> \in ComesBefore(S, r) <=>
          \/ content[x] < content[y]
          \/ /\ content[x] = content[y]
             /\ \/ source[x] < source[y]
                \/ source[x] = source[y] /\ Place(x) < Place(y)
  BY DEF ComesBefore
<1>. HIDE DEF content, source
<1>. QED  BY <1>1, <1>2, <1>3, <1>4, <1>5

\* Diversify is well defined: a ranking has every hit exactly once.  That the loop
\* of the code arrives at it is checked in Diversification.
LEMMA DiversifyKeepsHits ==
    ASSUME NEW hits, hits \subseteq Ids, NEW r
    PROVE  LET ranking == Diversify(hits, r)
           IN  ranking \in Seq(hits) /\ IsInjective(ranking) /\ Range(ranking) = hits
<1>. DEFINE before == ComesBefore(hits, r)
<1>1. IsFiniteSet(hits)
  BY IdsFinite, FS_Subset
<1>2. /\ \A x \in hits : <<x, x>> \notin before
      /\ \A x, y \in hits : x # y => <<x, y>> \in before \/ <<y, x>> \in before
      /\ \A x, y, z \in hits :
            <<x, y>> \in before /\ <<y, z>> \in before => <<x, z>> \in before
  BY OrderTotal
<1>. HIDE DEF before
<1>3. \E s \in SetToSeqs(hits) : \A i, j \in DOMAIN s : i < j => <<s[i], s[j]>> \in before
  BY <1>1, <1>2, Sortable
<1>4. Diversify(hits, r) \in SetToSeqs(hits)
  BY <1>3 DEF Diversify, before
<1>. QED  BY <1>1, <1>4, AllOnce

-----------------------------------------------------------------------------
(***************************************************************************)
(* Part 2: the inductive invariant.                                        *)
(***************************************************************************)

Phases == {"idle", "corpus", "select", "text", "image", "rerank", "more", "done"}
Waiting == {"text", "image", "rerank"}
Keys == Requests \X Revisions \X Nat
MaybeRevision == Revisions \cup {NoRevision}

Calls == [request : Requests \cup {NoRevision}, revision : MaybeRevision, snapshot : Nat,
          offset : Nat, seen : Seq(Ids), since : SUBSET STRING, key : Keys \cup {<<>>},
          hits : SUBSET Ids, vectors : SUBSET Ids, failed : BOOLEAN, torn : BOOLEAN]
Rankings == [revision : Revisions, failed : BOOLEAN, torn : BOOLEAN, hits : Seq(Ids)]
Rounds == [pc : {"idle", "synchronize", "lookup", "text", "image"}, first : MaybeRevision,
           revision : MaybeRevision, left : SUBSET STRING, single : SUBSET STRING]

TypeOK ==
    /\ current \in Revisions /\ tables \in MaybeRevision
    /\ embedded \subseteq STRING /\ generation \in Nat
    /\ missing \in [Processes -> SUBSET STRING]
    /\ known \in [Processes -> Nat \cup {NoRevision}]
    /\ made \in Seq(Rankings)
    /\ pages \subseteq 1..Len(made) /\ snapshots \subseteq 1..Len(made)
    /\ rankings \subseteq [key : Keys, id : 1..Len(made)]
    /\ pc \in [Clients -> Phases] /\ call \in [Clients -> Calls]
    /\ round \in Rounds /\ settled \in MaybeRevision
    /\ round.pc \in {"lookup", "text", "image"} => round.revision \in Revisions
    /\ workload \in Workloads

\* The texts that have the words of a request, and what is similar to it and has
\* its vector among some contents.
Worded(r, q) ==
    {id \in Visible[r][q] : Corpus[r][id].kind = "text" /\ Corpus[r][id].content \in q.terms}
Alike(r, q, kind, contents) ==
    {id \in SemanticIds[r][q][kind] : /\ Corpus[r][id].content \in q.similar
                                      /\ Corpus[r][id].content \in contents}

\* A ranking for a request has all it should have, given the contents that had
\* their vectors.
Worthy(m, q) == ~m.torn => Worded(m.revision, q) \subseteq Range(m.hits)
Complementary(m, q, contents) ==
    ~m.failed => \A kind \in {"text", "image"} :
                    Alike(m.revision, q, kind, contents) \subseteq Range(m.hits)

MadeOK == \A i \in 1..Len(made) : IsInjective(made[i].hits)

\* A cached miss is one still, as far as the process can know: the vectors of its
\* generation are the ones now stored, or it will look again.  No call's vectors are
\* hidden by a miss.
MissesOK ==
    /\ \A p \in Processes :
          known[p] # NoRevision =>
              /\ known[p] <= generation
              /\ known[p] = generation => missing[p] \cap embedded = {}
    /\ \A c \in Clients : /\ call[c].since \subseteq embedded
                          /\ call[c].since \cap missing["server"] = {}

\* A cached ranking of the present generation has what is similar among all vectors.
CachedOK ==
    \A x \in rankings :
        LET m == made[x.id]
        IN  /\ m.revision = x.key[2] /\ x.key[3] <= generation
            /\ Worthy(m, x.key[1]) /\ ~m.failed
            /\ x.key[3] = generation => Complementary(m, x.key[1], embedded)

\* While a call chooses: had nothing been stored since it began, it would know all
\* vectors; and what is cached for it has what is similar among those it knows.
ChoosesOK(c) ==
    LET x == call[c]
    IN  pc[c] = "select" =>
            /\ known["server"] # NoRevision
            /\ x.snapshot = 0 =>
                  /\ known["server"] = generation => x.since = embedded
                  /\ \A y \in CachedFor(c) : Complementary(made[y.id], x.request, x.since)

\* What a call that waits for the provider has found, and what it has still to use.
CollectsOK(c) ==
    LET x == call[c]
        q == x.request
        r == x.revision
    IN  pc[c] \in Waiting =>
            /\ x.snapshot = 0
            /\ x.key \in Keys /\ x.key[1] = q /\ x.key[2] = r /\ x.key[3] <= generation
            /\ x.key[3] = generation => x.since = embedded
            /\ ~x.torn => Worded(r, q) \subseteq x.hits
            /\ pc[c] = "text" => Alike(r, q, "text", x.since) \subseteq x.vectors
            /\ pc[c] = "image" => Alike(r, q, "image", x.since) \subseteq x.vectors
            /\ pc[c] \in {"image", "rerank"} /\ ~x.failed =>
                  Alike(r, q, "text", x.since) \subseteq x.hits
            /\ pc[c] = "rerank" /\ ~x.failed => Alike(r, q, "image", x.since) \subseteq x.hits

\* A client has read the first hits of one ranking.
ReadsOK(c) ==
    LET x == call[c]
        m == made[x.snapshot]
    IN  /\ pc[c] # "idle" => x.request \in Requests /\ x.revision \in Revisions
        /\ pc[c] \in {"more", "done"} => x.snapshot # 0
        /\ IF x.snapshot = 0 THEN x.seen = <<>>
           ELSE /\ x.snapshot <= Len(made)
                /\ x.offset <= Len(m.hits) /\ x.seen = SubSeq(m.hits, 1, x.offset)
                /\ Worthy(m, x.request) /\ Complementary(m, x.request, x.since)
        /\ pc[c] = "done" => x.offset = Len(m.hits) /\ x.revision = m.revision

SearchInv ==
    /\ TypeOK /\ MadeOK /\ MissesOK /\ CachedOK
    /\ \A c \in Clients : ChoosesOK(c) /\ CollectsOK(c) /\ ReadsOK(c)

-----------------------------------------------------------------------------
(***************************************************************************)
(* Part 3: what the steps have in common.                                  *)
(***************************************************************************)

\* What is visible is in the corpus.
LEMMA VisibleUnits ==
    ASSUME NEW r \in Revisions, NEW q \in Requests \cup {Plain}
    PROVE  /\ Visible[r][q] \subseteq Ids
           /\ \A id \in Visible[r][q] : /\ id \in DOMAIN Corpus[r]
                                        /\ Permitted(Corpus[r][id], q)
                                        /\ Corpus[r][id].content \in STRING
<1>1. Visible[r][q] = {id \in DOMAIN Corpus[r] : Permitted(Corpus[r][id], q)}
  BY DEF Visible
<1>2. DOMAIN Corpus[r] \subseteq Ids
  BY IndexAssumption DEF Ids
<1>3. \A id \in DOMAIN Corpus[r] : Corpus[r][id].content \in STRING
  BY IndexAssumption DEF Unit
<1>. QED  BY <1>1, <1>2, <1>3

LEMMA SemanticUnits ==
    ASSUME NEW r \in Revisions, NEW q \in Requests \cup {Plain},
           NEW kind \in {"text", "image"}
    PROVE  /\ SemanticIds[r][q][kind] \subseteq Visible[r][q]
           /\ SemanticIds[r][q][kind] \subseteq Ids
           /\ \A id \in SemanticIds[r][q][kind] : /\ Corpus[r][id].kind = kind
                                                  /\ Corpus[r][id].content \in STRING
<1>1. SemanticIds[r][q][kind] =
          {id \in Visible[r][q] : Corpus[r][id].kind = kind /\ Eligible(Corpus[r][id])}
  BY DEF SemanticIds
<1>. QED  BY <1>1, VisibleUnits

\* The search of the tables lets through whatever a request may see.
LEMMA PermittedIsSelected ==
    ASSUME NEW u, NEW q \in Request, Permitted(u, q)
    PROVE  Selected(u, q)
<1>1. q.history \in BOOLEAN /\ q.unverified \in BOOLEAN
  BY DEF Request
<1>2. CASE q.history /\ q.unverified
  BY <1>2 DEF Permitted, Selected
<1>3. CASE q.history /\ ~q.unverified
  BY <1>3 DEF Permitted, Selected
<1>4. CASE ~q.history /\ q.unverified
  BY <1>4 DEF Permitted, Selected
<1>5. CASE ~q.history /\ ~q.unverified
  BY <1>5 DEF Permitted, Selected
<1>. QED  BY <1>1, <1>2, <1>3, <1>4, <1>5

\* Rankings are only added.
MadeGrows ==
    /\ Len(made) <= Len(made')
    /\ \A i \in 1..Len(made) : made'[i] = made[i]

\* A step that leaves a client's call alone keeps what holds of it, whatever is
\* embedded meanwhile; while the client chooses, no ranking may enter the cache.
LEMMA ClientKept ==
    ASSUME SearchInv, NEW c \in Clients, call'[c] = call[c], pc'[c] = pc[c], MadeGrows,
           \/ UNCHANGED <<embedded, generation>>
           \/ generation' = generation + 1,
           pc[c] = "select" => /\ known'["server"] = known["server"]
                               /\ rankings' \subseteq rankings
    PROVE  ChoosesOK(c)' /\ CollectsOK(c)' /\ ReadsOK(c)'
<1>0. /\ call[c] \in Calls /\ Len(made) \in Nat /\ generation \in Nat
      /\ known["server"] \in Nat \cup {NoRevision} /\ NoRevision \notin Nat
      /\ \A x \in rankings : x.id \in 1..Len(made) /\ x.key \in Keys
  <2>1. Len(made) \in Nat
    BY LenProperties DEF SearchInv, TypeOK
  <2>. QED  BY <2>1, IndexAssumption DEF SearchInv, TypeOK, Processes
<1>1. ChoosesOK(c) /\ CollectsOK(c) /\ ReadsOK(c)
  BY DEF SearchInv
<1>2. known["server"] # NoRevision => known["server"] <= generation
  BY DEF SearchInv, MissesOK, Processes
<1>3. ReadsOK(c)'
  <2>1. call[c].snapshot \in Nat
    BY <1>0 DEF Calls
  <2>2. call[c].snapshot # 0 => /\ call[c].snapshot \in 1..Len(made)
                                /\ call[c].snapshot <= Len(made')
                                /\ made'[call[c].snapshot] = made[call[c].snapshot]
    <3>1. Len(made') >= Len(made) /\ (call[c].snapshot # 0 => call[c].snapshot <= Len(made))
      BY <1>1 DEF ReadsOK, MadeGrows
    <3>2. call[c].snapshot # 0 => call[c].snapshot \in 1..Len(made)
      BY <1>0, <2>1, <3>1
    <3>. QED  BY <3>2 DEF MadeGrows
  <2>3. pc[c] = "done" => call[c].snapshot # 0
    BY <1>1 DEF ReadsOK
  <2>. QED  BY <1>1, <2>2, <2>3 DEF ReadsOK, Worthy, Complementary
<1>4. CollectsOK(c)'
  <2>1. CASE UNCHANGED <<embedded, generation>>
    BY <1>1, <2>1 DEF CollectsOK, Waiting
  <2>2. CASE generation' = generation + 1
    <3>1. pc[c] \in Waiting => call[c].key[3] \in Nat /\ call[c].key[3] <= generation
      BY <1>1 DEF CollectsOK, Keys
    <3>2. pc[c] \in Waiting => call[c].key[3] <= generation' /\ call[c].key[3] # generation'
      BY <1>0, <2>2, <3>1
    <3>. QED  BY <1>1, <3>2 DEF CollectsOK
  <2>. QED  BY <2>1, <2>2
<1>5. ChoosesOK(c)'
  <2>. SUFFICES ASSUME pc[c] = "select" PROVE ChoosesOK(c)'
    BY DEF ChoosesOK
  <2>1. \A y \in rankings' : y \in rankings /\ made'[y.id] = made[y.id]
    BY <1>0 DEF MadeGrows
  <2>2. RankingKey(c)' = RankingKey(c)
    BY DEF RankingKey
  <2>3. CachedFor(c)' \subseteq CachedFor(c)
    BY <2>2 DEF CachedFor
  <2>4. CASE UNCHANGED <<embedded, generation>>
    BY <1>1, <2>1, <2>3, <2>4 DEF ChoosesOK, Complementary, CachedFor
  <2>5. CASE generation' = generation + 1
    <3>1. known["server"] # generation'
      BY <1>0, <1>1, <1>2, <2>5 DEF ChoosesOK
    <3>. QED  BY <1>1, <2>1, <2>3, <3>1 DEF ChoosesOK, Complementary, CachedFor
  <2>. QED  BY <2>4, <2>5
<1>. QED  BY <1>3, <1>4, <1>5


\* A step of one client alone, after which what holds of it holds again.
Moved(c) ==
    /\ call' \in [Clients -> Calls] /\ pc' \in [Clients -> Phases]
    /\ call'[c].since \in {call[c].since, {}}
    /\ \A d \in Clients \ {c} : call'[d] = call[d] /\ pc'[d] = pc[d]
    /\ ChoosesOK(c)' /\ CollectsOK(c)' /\ ReadsOK(c)'

\* A call that failed is forgotten.
LEMMA CallDropped ==
    ASSUME TypeOK, NEW c \in Clients,
           pc' = [pc EXCEPT ![c] = "idle"], call' = [call EXCEPT ![c] = NoCall]
    PROVE  Moved(c)
<1>1. NoCall \in Calls /\ NoCall.snapshot = 0 /\ NoCall.seen = <<>> /\ NoCall.since = {}
  BY EmptySeq DEF NoCall, Calls, MaybeRevision
<1>2. /\ call'[c] = NoCall /\ pc'[c] = "idle"
      /\ call' \in [Clients -> Calls] /\ pc' \in [Clients -> Phases]
      /\ \A d \in Clients \ {c} : call'[d] = call[d] /\ pc'[d] = pc[d]
  BY <1>1 DEF Phases, TypeOK
<1>. QED  BY <1>1, <1>2 DEF Moved, ChoosesOK, CollectsOK, ReadsOK, Waiting

\* A page of a ranking: the client has read its hits up to the next offset, or the
\* call has failed.
LEMMA PageRead ==
    ASSUME TypeOK, NEW c \in Clients, NEW m \in Rankings, NEW id \in Nat \ {0},
           NEW offset \in Nat, Page(c, m, id, offset), id <= Len(made'), made'[id] = m,
           call[c].request \in Requests, call[c].revision \in Revisions,
           m.revision = call[c].revision,
           offset <= Len(m.hits), call[c].seen = SubSeq(m.hits, 1, offset),
           Worthy(m, call[c].request), Complementary(m, call[c].request, call[c].since)
    PROVE  Moved(c)
<1>. DEFINE r == call[c].revision
            size == call[c].request.size
            next == Min({offset + size, Len(m.hits)})
            slice == SubSeq(m.hits, offset + 1, next)
            shown == Range(slice) \subseteq Visible[r][call[c].request]
<1>1. m.hits \in Seq(Ids) /\ Len(m.hits) \in Nat
  BY LenProperties DEF Rankings
<1>2. size \in Nat \ {0}
  BY IndexAssumption DEF Request
<1>3. /\ next \in Nat /\ offset <= next /\ next <= Len(m.hits)
      /\ ~(next < Len(m.hits)) => next = Len(m.hits)
  <2>. DEFINE a == offset + size
              b == Len(m.hits)
  <2>1. a \in Nat /\ b \in Nat /\ offset <= a /\ offset <= b
    BY <1>1, <1>2
  <2>. HIDE DEF a, b
  <2>2. Min({a, b}) \in {a, b} /\ Min({a, b}) <= a /\ Min({a, b}) <= b
    <3>1. \E x \in {a, b} : \A y \in {a, b} : x <= y
      BY <2>1
    <3>. QED  BY <3>1 DEF Min
  <2>3. next = Min({a, b})
    BY DEF a, b
  <2>. HIDE DEF next
  <2>. QED  BY <2>1, <2>2, <2>3 DEF b
<1>4. IF shown
      THEN /\ pc' = [pc EXCEPT ![c] = IF next < Len(m.hits) THEN "more" ELSE "done"]
           /\ call' = [call EXCEPT ![c].snapshot = id, ![c].offset = next,
                                   ![c].seen = @ \o slice]
      ELSE /\ pc' = [pc EXCEPT ![c] = "idle"] /\ call' = [call EXCEPT ![c] = NoCall]
  BY DEF Page
<1>5. SubSeq(m.hits, 1, offset) \o slice = SubSeq(m.hits, 1, next)
  <2>. HIDE DEF next
  <2>1. /\ 1 \in 1..Len(m.hits) + 1 /\ offset \in 1 - 1..Len(m.hits)
        /\ next \in offset..Len(m.hits)
    BY <1>1, <1>3
  <2>. QED  BY <1>1, <2>1, ConcatAdjacentSubSeq
<1>6. SubSeq(m.hits, 1, next) \in Seq(Ids)
  <2>. HIDE DEF next
  <2>1. \A i \in 1..next : m.hits[i] \in Ids
    BY <1>1, <1>3, ElementOfSeq
  <2>. QED  BY <1>3, <2>1, SubSeqProperties
<1>7. pc \in [Clients -> Phases] /\ call \in [Clients -> Calls]
  BY DEF TypeOK
<1>. HIDE DEF next, shown
<1>8. CASE shown
  <2>. DEFINE x == [call[c] EXCEPT !.snapshot = id, !.offset = next, !.seen = @ \o slice]
  <2>1. /\ pc' = [pc EXCEPT ![c] = IF next < Len(m.hits) THEN "more" ELSE "done"]
        /\ call' = [call EXCEPT ![c] = x]
    BY <1>4, <1>8
  <2>2. /\ x \in Calls /\ x.snapshot = id /\ x.offset = next
        /\ x.seen = SubSeq(m.hits, 1, next)
        /\ x.since = call[c].since /\ x.request = call[c].request
        /\ x.revision = call[c].revision
    <3>1. call[c] \in Calls
      BY <1>7
    <3>. HIDE DEF slice
    <3>. QED  BY <1>3, <1>5, <1>6, <3>1 DEF Calls
  <2>. HIDE DEF x
  <2>3. /\ call'[c] = x /\ pc'[c] \in {"more", "done"}
        /\ pc'[c] = "done" => next = Len(m.hits)
        /\ call' \in [Clients -> Calls] /\ pc' \in [Clients -> Phases]
        /\ \A d \in Clients \ {c} : call'[d] = call[d] /\ pc'[d] = pc[d]
    BY <1>3, <1>7, <2>1, <2>2 DEF Phases
  <2>4. ReadsOK(c)'
    BY <1>3, <2>2, <2>3 DEF ReadsOK, Worthy, Complementary
  <2>. QED  BY <2>2, <2>3, <2>4 DEF Moved, ChoosesOK, CollectsOK, Waiting
<1>9. CASE ~shown
  BY <1>4, <1>9, CallDropped
<1>. QED  BY <1>8, <1>9


\* Misses that are not embedded, and calls that know no more than before, change nothing.
LEMMA MissesKept ==
    ASSUME SearchInv, UNCHANGED <<known, embedded, generation>>,
           \A p \in Processes : missing'[p] \cap embedded \subseteq missing[p],
           \A c \in Clients : call'[c].since \in {call[c].since, {}}
    PROVE  MissesOK'
<1>1. MissesOK
  BY DEF SearchInv
<1>2. ASSUME NEW p \in Processes, known'[p] # NoRevision
      PROVE  /\ known'[p] <= generation'
             /\ known'[p] = generation' => missing'[p] \cap embedded' = {}
  BY <1>1, <1>2 DEF MissesOK
<1>3. ASSUME NEW c \in Clients
      PROVE  call'[c].since \subseteq embedded' /\ call'[c].since \cap missing'["server"] = {}
  <2>1. "server" \in Processes
    BY DEF Processes
  <2>2. call[c].since \subseteq embedded /\ call[c].since \cap missing["server"] = {}
    BY <1>1 DEF MissesOK
  <2>3. call'[c].since \subseteq call[c].since
    OBVIOUS
  <2>. QED  BY <2>1, <2>2, <2>3
<1>. QED  BY <1>2, <1>3 DEF MissesOK

\* What is looked up and not found becomes a miss.
LEMMA Remembered ==
    ASSUME TypeOK, NEW p \in Processes, NEW r, NEW ids,
           \A id \in ids : Corpus[r][id].content \in STRING, Remember(p, r, ids)
    PROVE  /\ missing' \in [Processes -> SUBSET STRING]
           /\ \A o \in Processes : missing'[o] \cap embedded \subseteq missing[o]
<1>. DEFINE new == {Corpus[r][id].content : id \in ids} \ embedded
<1>1. new \subseteq STRING /\ new \cap embedded = {}
  OBVIOUS
<1>2. missing' = [missing EXCEPT ![p] = missing[p] \cup new]
  BY DEF Remember
<1>3. missing \in [Processes -> SUBSET STRING]
  BY DEF TypeOK
<1>. HIDE DEF new
<1>4. missing' \in [Processes -> SUBSET STRING]
  BY <1>1, <1>2, <1>3
<1>5. ASSUME NEW o \in Processes PROVE missing'[o] \cap embedded \subseteq missing[o]
  <2>1. CASE o = p
    BY <1>1, <1>2, <1>3, <2>1
  <2>2. CASE o # p
    BY <1>2, <1>3, <2>2
  <2>. QED  BY <2>1, <2>2
<1>. QED  BY <1>4, <1>5

\* The cached rankings stay good while the vectors are the same.
LEMMA CachedKept ==
    ASSUME SearchInv, UNCHANGED <<embedded, generation>>, MadeGrows, rankings' \subseteq rankings
    PROVE  CachedOK'
<1>1. CachedOK
  BY DEF SearchInv
<1>2. \A x \in rankings' : x \in rankings /\ made'[x.id] = made[x.id]
  <2>1. \A x \in rankings : x.id \in 1..Len(made)
    BY DEF SearchInv, TypeOK
  <2>. QED  BY <2>1 DEF MadeGrows
<1>. QED  BY <1>1, <1>2 DEF CachedOK, Worthy, Complementary

LEMMA MadeSame ==
    ASSUME SearchInv, made' = made
    PROVE  MadeGrows /\ MadeOK'
<1>1. Len(made) \in Nat
  BY LenProperties DEF SearchInv, TypeOK
<1>2. MadeOK
  BY DEF SearchInv
<1>. QED  BY <1>1, <1>2 DEF MadeGrows, MadeOK

\* The typing of what the steps of a client leave alone.
LEMMA CallTyped ==
    ASSUME TypeOK, NEW c \in Clients, NEW x \in Calls, NEW to \in Phases,
           call' = [call EXCEPT ![c] = x], pc' = [pc EXCEPT ![c] = to]
    PROVE  /\ call' \in [Clients -> Calls] /\ pc' \in [Clients -> Phases]
           /\ call'[c] = x /\ pc'[c] = to
           /\ \A d \in Clients \ {c} : call'[d] = call[d] /\ pc'[d] = pc[d]
BY DEF TypeOK

-----------------------------------------------------------------------------
(***************************************************************************)
(* Part 4: every step keeps the invariant.  First the searches.            *)
(***************************************************************************)

LEMMA ArriveStep ==
    ASSUME SearchInv, NEW c \in Clients, Arrive(c)
    PROVE  SearchInv'
<1>0. TypeOK /\ ReadsOK(c) /\ UNCHANGED <<current, database, caches, made, indexerVars>>
  BY DEF SearchInv, Arrive
<1>1. PICK x : /\ call' = [call EXCEPT ![c] = x] /\ pc' = [pc EXCEPT ![c] = "corpus"]
               /\ \/ \E q \in Requests : x = [NoCall EXCEPT !.request = q, !.revision = current]
                  \/ pc[c] = "more" /\ x = [call[c] EXCEPT !.revision = current]
  BY DEF Arrive
<1>2. /\ x \in Calls /\ x.request \in Requests /\ x.revision \in Revisions
      /\ x.since \in {call[c].since, {}}
      /\ \/ x.snapshot = 0 /\ x.seen = <<>>
         \/ /\ x.snapshot = call[c].snapshot /\ x.offset = call[c].offset
            /\ x.seen = call[c].seen /\ x.request = call[c].request /\ x.since = call[c].since
            /\ pc[c] = "more"
  <2>1. current \in Revisions /\ call[c] \in Calls
    BY <1>0 DEF TypeOK
  <2>2. CASE \E q \in Requests : x = [NoCall EXCEPT !.request = q, !.revision = current]
    <3>1. PICK q \in Requests : x = [NoCall EXCEPT !.request = q, !.revision = current]
      BY <2>2
    <3>2. /\ NoCall \in Calls /\ NoCall.snapshot = 0 /\ NoCall.seen = <<>>
          /\ NoCall.since = {}
      BY EmptySeq DEF NoCall, Calls, MaybeRevision
    <3>. HIDE DEF NoCall
    <3>. QED  BY <2>1, <3>1, <3>2 DEF Calls, MaybeRevision
  <2>3. CASE pc[c] = "more" /\ x = [call[c] EXCEPT !.revision = current]
    <3>1. call[c].request \in Requests
      BY <1>0, <2>3 DEF ReadsOK
    <3>. QED  BY <2>1, <2>3, <3>1 DEF Calls, MaybeRevision
  <2>. QED  BY <1>1, <2>2, <2>3
<1>3. /\ call' \in [Clients -> Calls] /\ pc' \in [Clients -> Phases]
      /\ call'[c] = x /\ pc'[c] = "corpus"
      /\ \A d \in Clients \ {c} : call'[d] = call[d] /\ pc'[d] = pc[d]
  BY <1>0, <1>1, <1>2, CallTyped DEF Phases
<1>4. MadeGrows /\ MadeOK'
  BY <1>0, MadeSame
<1>5. TypeOK'
  BY <1>0, <1>3 DEF TypeOK, database, caches, indexerVars, Arrive, Count
<1>6. MissesOK'
  BY <1>0, <1>2, <1>3, MissesKept DEF database, caches
<1>7. CachedOK'
  BY <1>0, <1>4, CachedKept DEF database, caches
<1>8. ASSUME NEW d \in Clients PROVE ChoosesOK(d)' /\ CollectsOK(d)' /\ ReadsOK(d)'
  <2>1. CASE d = c
    <3>1. ReadsOK(c)'
      BY <1>0, <1>2, <1>3 DEF ReadsOK, Worthy, Complementary
    <3>. QED  BY <1>3, <2>1, <3>1 DEF ChoosesOK, CollectsOK, Waiting
  <2>2. CASE d # c
    BY <1>0, <1>3, <1>4, <2>2, ClientKept DEF database, caches
  <2>. QED  BY <2>1, <2>2
<1>. QED  BY <1>4, <1>5, <1>6, <1>7, <1>8 DEF SearchInv


LEMMA BeginStep ==
    ASSUME SearchInv, NEW c \in Clients, Begin(c)
    PROVE  SearchInv'
<1>0. /\ TypeOK /\ MissesOK /\ CachedOK /\ ReadsOK(c) /\ pc[c] = "corpus" /\ Free
      /\ Refresh("server") /\ tables' = call[c].revision
      /\ UNCHANGED <<current, embedded, generation, pages, snapshots, made, indexerVars, bounds>>
  BY DEF SearchInv, Begin
<1>. DEFINE x == [call[c] EXCEPT !.since = IF call[c].snapshot = 0 THEN embedded ELSE @]
<1>1. call' = [call EXCEPT ![c] = x] /\ pc' = [pc EXCEPT ![c] = "select"]
  BY <1>0 DEF Begin, TypeOK, Calls
<1>2. /\ x \in Calls /\ x.snapshot = call[c].snapshot /\ x.offset = call[c].offset
      /\ x.seen = call[c].seen /\ x.request = call[c].request
      /\ x.revision = call[c].revision
      /\ x.since = IF x.snapshot = 0 THEN embedded ELSE call[c].since
  <2>1. call[c] \in Calls /\ embedded \subseteq STRING
    BY <1>0 DEF TypeOK
  <2>. QED  BY <2>1 DEF Calls
<1>. HIDE DEF x
<1>3. /\ call' \in [Clients -> Calls] /\ pc' \in [Clients -> Phases]
      /\ call'[c] = x /\ pc'[c] = "select"
      /\ \A d \in Clients \ {c} : call'[d] = call[d] /\ pc'[d] = pc[d]
  BY <1>0, <1>1, <1>2, CallTyped DEF Phases
<1>4. MadeGrows /\ MadeOK'
  BY <1>0, MadeSame
<1>5. /\ known' = [known EXCEPT !["server"] = generation]
      /\ missing' = [missing EXCEPT !["server"] = IF generation = known["server"] THEN @ ELSE {}]
      /\ rankings' \subseteq rankings
  BY <1>0 DEF Refresh
<1>6. /\ known'["server"] = generation /\ known'["indexer"] = known["indexer"]
      /\ missing'["server"] = IF generation = known["server"] THEN missing["server"] ELSE {}
      /\ missing'["indexer"] = missing["indexer"]
      /\ known' \in [Processes -> Nat \cup {NoRevision}]
      /\ missing' \in [Processes -> SUBSET STRING]
      /\ generation \in Nat /\ generation # NoRevision
  BY <1>0, <1>5, IndexAssumption DEF TypeOK, Processes
<1>7. TypeOK'
  <2>1. call[c].revision \in Revisions
    BY <1>0 DEF ReadsOK
  <2>. QED  BY <1>0, <1>3, <1>5, <1>6, <2>1
            DEF TypeOK, MaybeRevision, indexerVars, bounds
<1>8. MissesOK'
  <2>1. ASSUME NEW p \in Processes, known'[p] # NoRevision
        PROVE  known'[p] <= generation /\ (known'[p] = generation => missing'[p] \cap embedded = {})
    BY <1>0, <1>6, <2>1 DEF MissesOK, Processes
  <2>2. ASSUME NEW d \in Clients
        PROVE  call'[d].since \subseteq embedded /\ call'[d].since \cap missing'["server"] = {}
    <3>1. /\ call[d].since \subseteq embedded /\ call[d].since \cap missing["server"] = {}
          /\ missing'["server"] \subseteq missing["server"]
      BY <1>0, <1>6 DEF MissesOK
    <3>2. missing'["server"] \cap embedded = {}
      BY <1>6, <2>1 DEF Processes
    <3>3. call'[d].since \in {call[d].since, embedded}
      BY <1>2, <1>3
    <3>. QED  BY <3>1, <3>2, <3>3
  <2>. QED  BY <1>0, <2>1, <2>2 DEF MissesOK
<1>9. CachedOK'
  BY <1>0, <1>4, <1>5, CachedKept
<1>10. ASSUME NEW d \in Clients PROVE ChoosesOK(d)' /\ CollectsOK(d)' /\ ReadsOK(d)'
  <2>1. CASE d = c
    <3>1. ReadsOK(c)'
      BY <1>0, <1>2, <1>3 DEF ReadsOK, Worthy, Complementary
    <3>2. CollectsOK(c)'
      BY <1>3 DEF CollectsOK, Waiting
    <3>3. ASSUME x.snapshot = 0, NEW y \in rankings', y.key = RankingKey(c)'
          PROVE  Complementary(made[y.id], x.request, x.since)
      <4>1. y.key = <<x.request, x.revision, generation>>
        BY <1>3, <1>6, <3>3 DEF RankingKey
      <4>2. Complementary(made[y.id], y.key[1], embedded)
        BY <1>0, <1>5, <4>1 DEF CachedOK
      <4>. QED  BY <1>2, <3>3, <4>1, <4>2
    <3>4. ChoosesOK(c)'
      BY <1>0, <1>2, <1>3, <1>6, <3>3 DEF ChoosesOK, CachedFor, Complementary
    <3>. QED  BY <2>1, <3>1, <3>2, <3>4
  <2>2. CASE d # c
    BY <1>0, <1>3, <1>4, <2>2, ClientKept DEF Free
  <2>. QED  BY <2>1, <2>2
<1>. QED  BY <1>4, <1>7, <1>8, <1>9, <1>10 DEF SearchInv

\* A page changes nothing else.
LEMMA MovedStep ==
    ASSUME SearchInv, NEW c \in Clients, Moved(c),
           UNCHANGED <<current, database, caches, made, indexerVars, bounds>>
    PROVE  SearchInv'
<1>0. TypeOK /\ MadeGrows /\ MadeOK'
  BY MadeSame DEF SearchInv
<1>1. TypeOK'
  BY <1>0 DEF TypeOK, Moved, database, caches, indexerVars, bounds
<1>2. MissesOK'
  <2>1. \A d \in Clients : call'[d].since \in {call[d].since, {}}
    BY DEF Moved
  <2>. QED  BY <2>1, MissesKept DEF database, caches
<1>3. CachedOK'
  BY <1>0, CachedKept DEF database, caches
<1>4. ASSUME NEW d \in Clients PROVE ChoosesOK(d)' /\ CollectsOK(d)' /\ ReadsOK(d)'
  <2>1. CASE d = c
    BY <2>1 DEF Moved
  <2>2. CASE d # c
    BY <1>0, <2>2, ClientKept DEF Moved, database, caches
  <2>. QED  BY <2>1, <2>2
<1>. QED  BY <1>0, <1>1, <1>2, <1>3, <1>4 DEF SearchInv

LEMMA ContinueStep ==
    ASSUME SearchInv, NEW c \in Clients, Continue(c)
    PROVE  SearchInv'
<1>. DEFINE id == call[c].snapshot
            m == made[id]
<1>0. /\ TypeOK /\ ReadsOK(c) /\ call[c] \in Calls /\ pc[c] = "select" /\ id # 0
      /\ UNCHANGED <<current, database, caches, made, indexerVars, bounds>>
  BY DEF SearchInv, TypeOK, Continue
<1>1. CASE Held(id) /\ m.revision = call[c].revision
  <2>1. Page(c, m, id, call[c].offset)
    BY <1>1 DEF Continue
  <2>2. /\ id \in Nat \ {0} /\ id <= Len(made) /\ call[c].offset \in Nat
        /\ call[c].offset <= Len(m.hits) /\ call[c].seen = SubSeq(m.hits, 1, call[c].offset)
        /\ Worthy(m, call[c].request) /\ Complementary(m, call[c].request, call[c].since)
        /\ call[c].request \in Requests /\ call[c].revision \in Revisions
    BY <1>0 DEF ReadsOK, Calls
  <2>3. m \in Rankings
    BY <1>0, <2>2, LenProperties, ElementOfSeq DEF TypeOK
  <2>4. id <= Len(made') /\ made'[id] = m
    BY <1>0, <2>2
  <2>. HIDE DEF id, m
  <2>5. Moved(c)
    BY <1>0, <1>1, <2>1, <2>2, <2>3, <2>4, PageRead
  <2>. QED  BY <1>0, <2>5, MovedStep
<1>2. CASE ~(Held(id) /\ m.revision = call[c].revision)
  <2>1. pc' = [pc EXCEPT ![c] = "idle"] /\ call' = [call EXCEPT ![c] = NoCall]
    BY <1>2 DEF Continue
  <2>. QED  BY <1>0, <2>1, CallDropped, MovedStep
<1>. QED  BY <1>1, <1>2

LEMMA FromCacheStep ==
    ASSUME SearchInv, NEW c \in Clients, FromCache(c)
    PROVE  SearchInv'
<1>0. /\ TypeOK /\ CachedOK /\ ReadsOK(c) /\ ChoosesOK(c)
      /\ pc[c] = "select" /\ call[c].snapshot = 0
      /\ UNCHANGED <<current, database, caches, made, indexerVars, bounds>>
  BY DEF SearchInv, FromCache
<1>1. PICK y \in CachedFor(c) : Page(c, made[y.id], y.id, 0)
  BY DEF FromCache
<1>. DEFINE m == made[y.id]
<1>2. y \in rankings /\ y.key = RankingKey(c) /\ y.id \in 1..Len(made)
  BY <1>0 DEF CachedFor, TypeOK
<1>3. /\ y.id \in Nat \ {0} /\ y.id <= Len(made) /\ m \in Rankings
  <2>1. Len(made) \in Nat
    BY <1>0, LenProperties DEF TypeOK
  <2>. QED  BY <1>0, <1>2, <2>1, ElementOfSeq DEF TypeOK
<1>4. /\ m.revision = call[c].revision /\ Worthy(m, call[c].request)
      /\ Complementary(m, call[c].request, call[c].since)
  BY <1>0, <1>1, <1>2 DEF CachedOK, RankingKey, ChoosesOK
<1>5. /\ call[c].request \in Requests /\ call[c].revision \in Revisions
      /\ call[c].seen = SubSeq(m.hits, 1, 0)
  <2>1. SubSeq(m.hits, 1, 0) = <<>>
    BY SubSeqEmpty
  <2>2. pc[c] # "idle" /\ call[c].seen = <<>>
    BY <1>0 DEF ReadsOK
  <2>. QED  BY <1>0, <2>1, <2>2 DEF ReadsOK
<1>6. 0 <= Len(m.hits)
  BY <1>3, LenProperties DEF Rankings
<1>7. y.id <= Len(made') /\ made'[y.id] = m /\ Page(c, m, y.id, 0)
  BY <1>0, <1>1, <1>3
<1>8. Moved(c)
  <2>. HIDE DEF m
  <2>. DEFINE zero == 0
              id == y.id
  <2>1. /\ id \in Nat \ {0} /\ m \in Rankings /\ zero \in Nat /\ zero <= Len(m.hits)
        /\ call[c].seen = SubSeq(m.hits, 1, zero) /\ Page(c, m, id, zero)
        /\ id <= Len(made') /\ made'[id] = m
    BY <1>3, <1>5, <1>6, <1>7
  <2>. HIDE DEF zero, id
  <2>. QED  BY <1>0, <1>4, <1>5, <2>1, PageRead
<1>. QED  BY <1>0, <1>8, MovedStep


\* A step of a call that goes on to wait for the provider.
LEMMA WaitStep ==
    ASSUME SearchInv, NEW c \in Clients, NEW x \in Calls, NEW to \in Waiting,
           call' = [call EXCEPT ![c] = x], pc' = [pc EXCEPT ![c] = to],
           pc[c] # "idle", call[c].snapshot = 0, x.snapshot = 0,
           x.request = call[c].request, x.revision = call[c].revision,
           x.seen = call[c].seen, x.since = call[c].since, CollectsOK(c)',
           missing' \in [Processes -> SUBSET STRING],
           \A o \in Processes : missing'[o] \cap embedded \subseteq missing[o],
           UNCHANGED <<current, database, known, snapshots, rankings, made, indexerVars, workload>>
    PROVE  SearchInv'
<1>0. TypeOK /\ ReadsOK(c) /\ MadeGrows /\ MadeOK'
  BY MadeSame DEF SearchInv
<1>1. /\ call' \in [Clients -> Calls] /\ pc' \in [Clients -> Phases]
      /\ call'[c] = x /\ pc'[c] = to
      /\ \A d \in Clients \ {c} : call'[d] = call[d] /\ pc'[d] = pc[d]
  BY <1>0, CallTyped DEF Phases, Waiting
<1>2. TypeOK'
  BY <1>0, <1>1 DEF TypeOK, database, indexerVars
<1>3. MissesOK'
  <2>1. \A d \in Clients : call'[d].since \in {call[d].since, {}}
    BY <1>1
  <2>. QED  BY <2>1, MissesKept DEF database
<1>4. CachedOK'
  BY <1>0, CachedKept DEF database
<1>5. ASSUME NEW d \in Clients PROVE ChoosesOK(d)' /\ CollectsOK(d)' /\ ReadsOK(d)'
  <2>1. CASE d = c
    <3>1. ReadsOK(c)'
      BY <1>0, <1>1 DEF ReadsOK, Waiting
    <3>2. ChoosesOK(c)'
      BY <1>1 DEF ChoosesOK, Waiting
    <3>. QED  BY <2>1, <3>1, <3>2
  <2>2. CASE d # c
    BY <1>0, <1>1, <2>2, ClientKept DEF database
  <2>. QED  BY <2>1, <2>2
<1>. QED  BY <1>0, <1>2, <1>3, <1>4, <1>5 DEF SearchInv

\* What a call's units of a kind are, and that every vector it knows is found.
LEMMA VectorsFound ==
    ASSUME SearchInv, NEW c \in Clients, pc[c] # "idle", NEW kind \in {"text", "image"}
    PROVE  LET r == call[c].revision
               q == call[c].request
           IN  /\ Semantic(c, kind) \subseteq Ids
               /\ \A id \in Semantic(c, kind) : /\ Corpus[r][id].content \in STRING
                                                /\ Corpus[r][id].kind = kind
               /\ Semantic(c, kind) = SemanticIds[r][q][kind]
               /\ Alike(r, q, kind, call[c].since)
                     \subseteq WithVector("server", r, Semantic(c, kind))
<1>. DEFINE r == call[c].revision
            q == call[c].request
<1>1. r \in Revisions /\ q \in Requests
  BY DEF SearchInv, ReadsOK
<1>2. Semantic(c, kind) = SemanticIds[r][q][kind]
  BY DEF Semantic
<1>3. call[c].since \subseteq embedded /\ call[c].since \cap missing["server"] = {}
  BY DEF SearchInv, MissesOK
<1>4. Alike(r, q, kind, call[c].since) \subseteq WithVector("server", r, Semantic(c, kind))
  BY <1>2, <1>3 DEF Alike, WithVector
<1>. QED  BY <1>1, <1>2, <1>4, SemanticUnits

LEMMA CandidatesStep ==
    ASSUME SearchInv, NEW c \in Clients, Candidates(c)
    PROVE  SearchInv'
<1>. DEFINE r == call[c].revision
            q == call[c].request
            looked == Semantic(c, "text") \cup Semantic(c, "image")
            found == WithVector("server", r, Semantic(c, "text"))
            x == [call[c] EXCEPT !.key = RankingKey(c), !.hits = Lexical(c),
                                 !.vectors = found, !.torn = tables # r]
<1>0. /\ TypeOK /\ MissesOK /\ ReadsOK(c) /\ ChoosesOK(c)
      /\ pc[c] = "select" /\ call[c].snapshot = 0
      /\ Remember("server", r, looked)
      /\ UNCHANGED <<current, database, known, snapshots, rankings, made, indexerVars, bounds>>
  BY DEF SearchInv, Candidates
<1>1. call' = [call EXCEPT ![c] = x] /\ pc' = [pc EXCEPT ![c] = "text"]
  BY <1>0 DEF Candidates, TypeOK, Calls
<1>2. r \in Revisions /\ q \in Requests /\ call[c] \in Calls
  BY <1>0 DEF ReadsOK, TypeOK
<1>3. Lexical(c) \subseteq Ids
  BY <1>2, VisibleUnits DEF Lexical
<1>4. found \subseteq Ids
  BY <1>0, VectorsFound DEF WithVector
<1>5. /\ RankingKey(c) \in Keys /\ RankingKey(c)[1] = q /\ RankingKey(c)[2] = r
      /\ RankingKey(c)[3] <= generation
      /\ RankingKey(c)[3] = generation => call[c].since = embedded
  <2>1. /\ known["server"] \in Nat /\ known["server"] <= generation
        /\ known["server"] = generation => call[c].since = embedded
    BY <1>0 DEF ChoosesOK, TypeOK, MissesOK, Processes
  <2>. QED  BY <1>2, <2>1 DEF RankingKey, Keys
<1>6. /\ x \in Calls /\ x.snapshot = 0 /\ x.request = q /\ x.revision = r
      /\ x.seen = call[c].seen /\ x.since = call[c].since /\ x.key = RankingKey(c)
      /\ x.hits = Lexical(c) /\ x.vectors = found /\ x.torn = (tables # r)
  <2>. HIDE DEF found
  <2>. QED  BY <1>0, <1>2, <1>3, <1>4, <1>5 DEF Calls
<1>. HIDE DEF x
<1>7. ~x.torn => Worded(r, q) \subseteq Lexical(c)
  <2>. SUFFICES ASSUME tables = r, NEW id \in Worded(r, q) PROVE id \in Lexical(c)
    BY <1>6
  <2>1. id \in Visible[r][q] /\ Corpus[r][id].content \in q.terms
    BY DEF Worded
  <2>2. id \in DOMAIN Corpus[r] /\ Selected(Corpus[r][id], q)
    <3>1. Permitted(Corpus[r][id], q) /\ id \in DOMAIN Corpus[r] /\ q \in Request
      BY <1>2, <2>1, VisibleUnits, IndexAssumption
    <3>. QED  BY <3>1, PermittedIsSelected
  <2>. QED  BY <2>1, <2>2 DEF Lexical
<1>8. Alike(r, q, "text", x.since) \subseteq found
  BY <1>0, <1>6, VectorsFound
<1>9. call'[c] = x /\ pc'[c] = "text"
  BY <1>0, <1>1 DEF TypeOK
<1>10. CollectsOK(c)'
  <2>. HIDE DEF found, q, r
  <2>. QED  BY <1>0, <1>5, <1>6, <1>7, <1>8, <1>9 DEF CollectsOK, database
<1>11. /\ missing' \in [Processes -> SUBSET STRING]
       /\ \A o \in Processes : missing'[o] \cap embedded \subseteq missing[o]
  <2>1. \A id \in looked : Corpus[r][id].content \in STRING
    BY <1>0, VectorsFound
  <2>2. "server" \in Processes
    BY DEF Processes
  <2>. HIDE DEF looked
  <2>. QED  BY <1>0, <2>1, <2>2, Remembered
<1>12. pc[c] # "idle" /\ UNCHANGED workload
  BY <1>0 DEF bounds
<1>. QED  BY <1>0, <1>1, <1>6, <1>10, <1>11, <1>12, WaitStep DEF Waiting


LEMMA AnswerTextStep ==
    ASSUME SearchInv, NEW c \in Clients, AnswerText(c)
    PROVE  SearchInv'
<1>. DEFINE r == call[c].revision
            q == call[c].request
            found == WithVector("server", r, Semantic(c, "image"))
            similar == Similar(c, call[c].vectors)
<1>0. /\ TypeOK /\ ReadsOK(c) /\ CollectsOK(c) /\ call[c] \in Calls
      /\ pc[c] = "text" /\ pc[c] # "idle" /\ pc[c] \in Waiting /\ call[c].snapshot = 0
      /\ Remember("server", r, Semantic(c, "image"))
      /\ UNCHANGED <<current, database, known, snapshots, rankings, made, indexerVars>>
  BY DEF SearchInv, AnswerText, TypeOK, CollectsOK, Waiting
<1>1. PICK ok \in BOOLEAN :
          /\ IF ok THEN UNCHANGED bounds ELSE call[c].vectors # {} /\ Count("failures")
          /\ call' = [call EXCEPT ![c].hits = IF ok THEN @ \cup similar ELSE @,
                                  ![c].failed = ~ok, ![c].vectors = found]
  BY DEF AnswerText
<1>. DEFINE x == [call[c] EXCEPT !.hits = IF ok THEN @ \cup similar ELSE @,
                                 !.failed = ~ok, !.vectors = found]
<1>2. call' = [call EXCEPT ![c] = x] /\ pc' = [pc EXCEPT ![c] = "image"]
  <2>. HIDE DEF found, similar
  <2>. QED  BY <1>0, <1>1 DEF AnswerText, TypeOK, Calls
<1>3. found \subseteq Ids /\ similar \subseteq Ids
  BY <1>0, VectorsFound DEF WithVector, Similar, Calls
<1>4. /\ x \in Calls /\ x.snapshot = 0 /\ x.request = q /\ x.revision = r
      /\ x.seen = call[c].seen /\ x.since = call[c].since /\ x.key = call[c].key
      /\ x.torn = call[c].torn /\ x.vectors = found /\ x.failed = ~ok
      /\ x.hits = IF ok THEN call[c].hits \cup similar ELSE call[c].hits
  <2>. HIDE DEF found, similar
  <2>. QED  BY <1>0, <1>3 DEF Calls
<1>. HIDE DEF x
<1>5. ~x.failed => Alike(r, q, "text", x.since) \subseteq x.hits
  <2>1. Alike(r, q, "text", x.since) \subseteq call[c].vectors
    BY <1>0, <1>4 DEF CollectsOK
  <2>2. Alike(r, q, "text", x.since) \subseteq similar
    BY <2>1 DEF Alike, Similar
  <2>. QED  BY <1>4, <2>2
<1>6. Alike(r, q, "image", x.since) \subseteq x.vectors
  BY <1>0, <1>4, VectorsFound
<1>7. ~x.torn => Worded(r, q) \subseteq x.hits
  BY <1>0, <1>4 DEF CollectsOK
<1>8. call'[c] = x /\ pc'[c] = "image"
  BY <1>0, <1>2 DEF TypeOK
<1>9. CollectsOK(c)'
  <2>1. /\ x.key \in Keys /\ x.key[1] = q /\ x.key[2] = r /\ x.key[3] <= generation
        /\ x.key[3] = generation => x.since = embedded
    BY <1>0, <1>4 DEF CollectsOK
  <2>. HIDE DEF q, r
  <2>. QED  BY <1>0, <1>4, <1>5, <1>6, <1>7, <1>8, <2>1 DEF CollectsOK, database
<1>10. /\ missing' \in [Processes -> SUBSET STRING]
       /\ \A o \in Processes : missing'[o] \cap embedded \subseteq missing[o]
  <2>1. \A id \in Semantic(c, "image") : Corpus[r][id].content \in STRING
    BY <1>0, VectorsFound
  <2>2. "server" \in Processes
    BY DEF Processes
  <2>. QED  BY <1>0, <2>1, <2>2, Remembered
<1>11. UNCHANGED workload
  BY <1>1 DEF bounds, Count
<1>. QED  BY <1>0, <1>2, <1>4, <1>9, <1>10, <1>11, WaitStep DEF Waiting

LEMMA AnswerImageStep ==
    ASSUME SearchInv, NEW c \in Clients, AnswerImage(c)
    PROVE  SearchInv'
<1>. DEFINE r == call[c].revision
            q == call[c].request
            similar == Similar(c, call[c].vectors)
<1>0. /\ TypeOK /\ ReadsOK(c) /\ CollectsOK(c) /\ call[c] \in Calls
      /\ pc[c] = "image" /\ pc[c] # "idle" /\ pc[c] \in Waiting /\ call[c].snapshot = 0
      /\ UNCHANGED <<current, database, caches, made, indexerVars>>
  BY DEF SearchInv, AnswerImage, TypeOK, CollectsOK, Waiting
<1>1. PICK ok \in BOOLEAN :
          /\ IF ok THEN UNCHANGED bounds ELSE call[c].vectors # {} /\ Count("failures")
          /\ call' = [call EXCEPT
                ![c].hits = IF ok /\ call[c].vectors # {} THEN Fused(c) ELSE @,
                ![c].failed = @ \/ ~ok]
  BY DEF AnswerImage
<1>. DEFINE x == [call[c] EXCEPT
                     !.hits = IF ok /\ call[c].vectors # {} THEN Fused(c) ELSE @,
                     !.failed = @ \/ ~ok]
<1>2. call' = [call EXCEPT ![c] = x] /\ pc' = [pc EXCEPT ![c] = "rerank"]
  BY <1>0, <1>1 DEF AnswerImage, TypeOK, Calls
<1>3. /\ Fused(c) = {id \in call[c].hits : Corpus[r][id].kind = "text"} \cup similar
      /\ Fused(c) \subseteq Ids
  BY <1>0 DEF Fused, Similar, Calls
<1>4. /\ x \in Calls /\ x.snapshot = 0 /\ x.request = q /\ x.revision = r
      /\ x.seen = call[c].seen /\ x.since = call[c].since /\ x.key = call[c].key
      /\ x.torn = call[c].torn /\ x.failed = (call[c].failed \/ ~ok)
      /\ x.hits = IF ok /\ call[c].vectors # {} THEN Fused(c) ELSE call[c].hits
  BY <1>0, <1>3 DEF Calls
<1>. HIDE DEF x
<1>5. ~x.failed => Alike(r, q, "text", x.since) \subseteq x.hits
  <2>. SUFFICES ASSUME ~x.failed PROVE Alike(r, q, "text", x.since) \subseteq x.hits
    OBVIOUS
  <2>1. ~call[c].failed
    BY <1>0, <1>4 DEF Calls
  <2>2. Alike(r, q, "text", x.since) \subseteq call[c].hits
    BY <1>0, <1>4, <2>1 DEF CollectsOK
  <2>3. \A id \in Alike(r, q, "text", x.since) : Corpus[r][id].kind = "text"
    BY <1>0, VectorsFound DEF Alike
  <2>. HIDE DEF similar
  <2>. QED  BY <1>3, <1>4, <2>2, <2>3
<1>6. ~x.failed => Alike(r, q, "image", x.since) \subseteq x.hits
  <2>. SUFFICES ASSUME ~x.failed PROVE Alike(r, q, "image", x.since) \subseteq x.hits
    OBVIOUS
  <2>1. ok
    BY <1>4
  <2>2. Alike(r, q, "image", x.since) \subseteq call[c].vectors
    BY <1>0, <1>4 DEF CollectsOK
  <2>3. Alike(r, q, "image", x.since) \subseteq similar
    BY <2>2 DEF Alike, Similar
  <2>. HIDE DEF similar
  <2>. QED  BY <1>3, <1>4, <2>1, <2>2, <2>3
<1>7. ~x.torn => Worded(r, q) \subseteq x.hits
  <2>1. ~x.torn => Worded(r, q) \subseteq call[c].hits
    BY <1>0, <1>4 DEF CollectsOK
  <2>2. \A id \in Worded(r, q) : Corpus[r][id].kind = "text"
    BY DEF Worded
  <2>. HIDE DEF similar
  <2>. QED  BY <1>3, <1>4, <2>1, <2>2
<1>8. call'[c] = x /\ pc'[c] = "rerank"
  BY <1>0, <1>2 DEF TypeOK
<1>9. CollectsOK(c)'
  <2>1. /\ x.key \in Keys /\ x.key[1] = q /\ x.key[2] = r /\ x.key[3] <= generation
        /\ x.key[3] = generation => x.since = embedded
    BY <1>0, <1>4 DEF CollectsOK
  <2>. HIDE DEF q, r
  <2>. QED  BY <1>0, <1>4, <1>5, <1>6, <1>7, <1>8, <2>1 DEF CollectsOK, database
<1>10. /\ missing' \in [Processes -> SUBSET STRING]
       /\ \A o \in Processes : missing'[o] \cap embedded \subseteq missing[o]
  BY <1>0 DEF caches, TypeOK
<1>11. UNCHANGED workload
  BY <1>1 DEF bounds, Count
<1>12. UNCHANGED <<current, database, known, snapshots, rankings, made, indexerVars>>
  BY <1>0 DEF caches
<1>. QED  BY <1>0, <1>2, <1>4, <1>9, <1>10, <1>11, <1>12, WaitStep DEF Waiting

\* A new ranking has all it should have, in memory and in the cache.
LEMMA StoreStep ==
    ASSUME SearchInv, NEW c \in Clients, Store(c)
    PROVE  SearchInv'
<1>. DEFINE r == call[c].revision
            q == call[c].request
            id == Len(made) + 1
<1>0. /\ TypeOK /\ CachedOK /\ MadeOK /\ ReadsOK(c) /\ CollectsOK(c) /\ call[c] \in Calls
      /\ pc[c] = "rerank" /\ pc[c] # "idle" /\ pc[c] \in Waiting /\ Free
      /\ UNCHANGED <<current, tables, embedded, generation, missing, known, indexerVars>>
  BY DEF SearchInv, Store, TypeOK, Waiting
<1>1. PICK ok \in BOOLEAN :
          LET failed == call[c].failed \/ ~ok
              ranking == [revision |-> r, failed |-> failed, torn |-> call[c].torn,
                          hits |-> Diversify(call[c].hits, r)]
          IN  /\ IF ok THEN UNCHANGED bounds ELSE call[c].hits # {} /\ Count("failures")
              /\ made' = Append(made, ranking)
              /\ snapshots' = Newest(snapshots \cup {id}, MaxSnapshots)
              /\ pages' = Newest(pages \cup {id}, MaxPages)
              /\ rankings' = IF failed THEN rankings ELSE Cache(c, id)
              /\ Page(c, ranking, id, 0)
  BY DEF Store
<1>. DEFINE m == [revision |-> r, failed |-> call[c].failed \/ ~ok, torn |-> call[c].torn,
                  hits |-> Diversify(call[c].hits, r)]
<1>2. /\ r \in Revisions /\ q \in Requests /\ call[c].hits \subseteq Ids
      /\ call[c].torn \in BOOLEAN /\ call[c].failed \in BOOLEAN /\ call[c].seen = <<>>
      /\ call[c].key \in Keys /\ call[c].key[1] = q /\ call[c].key[2] = r
      /\ call[c].key[3] <= generation
      /\ call[c].key[3] = generation => call[c].since = embedded
  BY <1>0 DEF ReadsOK, CollectsOK, Calls
<1>3. /\ m \in Rankings /\ IsInjective(m.hits) /\ Range(m.hits) = call[c].hits
      /\ m.revision = r /\ m.torn = call[c].torn /\ m.failed = (call[c].failed \/ ~ok)
  <2>. DEFINE s == Diversify(call[c].hits, r)
  <2>1. s \in Seq(call[c].hits) /\ IsInjective(s) /\ Range(s) = call[c].hits
    BY <1>2, DiversifyKeepsHits
  <2>2. s \in Seq(Ids)
    BY <1>2, <2>1, SeqMonotonic
  <2>. HIDE DEF s
  <2>3. m = [revision |-> r, failed |-> call[c].failed \/ ~ok, torn |-> call[c].torn, hits |-> s]
    BY DEF s
  <2>. QED  BY <1>2, <2>1, <2>2, <2>3 DEF Rankings
<1>4. Worthy(m, q)
  <2>1. ~call[c].torn => Worded(r, q) \subseteq call[c].hits
    BY <1>0 DEF CollectsOK
  <2>. HIDE DEF m, r, q
  <2>. QED  BY <1>3, <2>1 DEF Worthy
<1>5. Complementary(m, q, call[c].since)
  <2>1. ~call[c].failed => /\ Alike(r, q, "text", call[c].since) \subseteq call[c].hits
                           /\ Alike(r, q, "image", call[c].since) \subseteq call[c].hits
    BY <1>0 DEF CollectsOK
  <2>. HIDE DEF m, r, q
  <2>. QED  BY <1>3, <2>1 DEF Complementary
<1>6. /\ made' = Append(made, m) /\ Page(c, m, id, 0)
      /\ snapshots' = Newest(snapshots \cup {id}, MaxSnapshots)
      /\ pages' = Newest(pages \cup {id}, MaxPages)
      /\ rankings' = IF m.failed THEN rankings ELSE Cache(c, id)
      /\ UNCHANGED workload
  BY <1>1 DEF bounds, Count
<1>. HIDE DEF m
<1>7. /\ Len(made) \in Nat /\ made \in Seq(Rankings) /\ Len(made') = id
      /\ made' \in Seq(Rankings) /\ made'[id] = m
      /\ \A i \in 1..Len(made) : made'[i] = made[i]
  <2>1. made \in Seq(Rankings)
    BY <1>0 DEF TypeOK
  <2>. QED  BY <1>3, <1>6, <2>1, LenProperties, AppendProperties
<1>8. MadeGrows /\ 1..Len(made) \subseteq 1..Len(made') /\ id \in 1..Len(made')
  BY <1>7 DEF MadeGrows
<1>9. MadeOK'
  <2>. SUFFICES ASSUME NEW i \in 1..Len(made') PROVE IsInjective(made'[i].hits)
    BY DEF MadeOK
  <2>1. i = id \/ i \in 1..Len(made)
    BY <1>7
  <2>. HIDE DEF id
  <2>. QED  BY <1>0, <1>3, <1>7, <2>1 DEF MadeOK
<1>10. Moved(c)
  <2>. DEFINE zero == 0
  <2>1. call[c].seen = SubSeq(m.hits, 1, 0)
    BY <1>2, SubSeqEmpty
  <2>2. Len(m.hits) \in Nat
    BY <1>3, LenProperties DEF Rankings
  <2>3. /\ id \in Nat \ {0} /\ zero \in Nat /\ zero <= Len(m.hits)
        /\ call[c].seen = SubSeq(m.hits, 1, zero) /\ Page(c, m, id, zero)
        /\ id <= Len(made') /\ made'[id] = m
    BY <1>6, <1>7, <2>1, <2>2
  <2>. HIDE DEF zero, id
  <2>. QED  BY <1>0, <1>2, <1>3, <1>4, <1>5, <2>3, PageRead
<1>11. \A x \in rankings' : \/ x \in rankings
                            \/ ~m.failed /\ x = [key |-> call[c].key, id |-> id]
  BY <1>6 DEF Cache
<1>12. TypeOK'
  <2>1. pages' \subseteq 1..Len(made') /\ snapshots' \subseteq 1..Len(made')
    <3>. HIDE DEF id
    <3>. QED  BY <1>0, <1>6, <1>8 DEF TypeOK, Newest
  <2>2. rankings' \subseteq [key : Keys, id : 1..Len(made')]
    <3>. HIDE DEF id
    <3>. QED  BY <1>0, <1>2, <1>8, <1>11 DEF TypeOK
  <2>. QED  BY <1>0, <1>6, <1>7, <1>10, <2>1, <2>2 DEF TypeOK, Moved, indexerVars
<1>13. MissesOK'
  <2>1. \A d \in Clients : call'[d].since \in {call[d].since, {}}
    BY <1>10 DEF Moved
  <2>. QED  BY <1>0, <2>1, MissesKept
<1>14. CachedOK'
  <2>. SUFFICES ASSUME NEW x \in rankings'
                PROVE  /\ made'[x.id].revision = x.key[2] /\ x.key[3] <= generation
                       /\ Worthy(made'[x.id], x.key[1]) /\ ~made'[x.id].failed
                       /\ x.key[3] = generation => Complementary(made'[x.id], x.key[1], embedded)
    BY <1>0 DEF CachedOK, Worthy, Complementary
  <2>1. CASE x \in rankings
    <3>1. made'[x.id] = made[x.id]
      BY <1>0, <1>7, <2>1 DEF TypeOK
    <3>. QED  BY <1>0, <2>1, <3>1 DEF CachedOK
  <2>2. CASE ~m.failed /\ x = [key |-> call[c].key, id |-> id]
    <3>1. made'[x.id] = m /\ x.key = call[c].key
      BY <1>7, <2>2
    <3>. HIDE DEF r, q, id
    <3>. QED  BY <1>2, <1>3, <1>4, <1>5, <2>2, <3>1
  <2>. QED  BY <1>11, <2>1, <2>2
<1>15. ASSUME NEW d \in Clients PROVE ChoosesOK(d)' /\ CollectsOK(d)' /\ ReadsOK(d)'
  <2>1. CASE d = c
    BY <1>10, <2>1 DEF Moved
  <2>2. CASE d # c
    <3>1. call'[d] = call[d] /\ pc'[d] = pc[d] /\ pc[d] # "select"
      BY <1>0, <1>10, <2>2 DEF Moved, Free
    <3>. QED  BY <1>0, <1>8, <3>1, ClientKept
  <2>. QED  BY <2>1, <2>2
<1>. QED  BY <1>9, <1>12, <1>13, <1>14, <1>15 DEF SearchInv

\* A step that leaves the calls, the rankings made and the vectors alone.
LEMMA CallsKept ==
    ASSUME SearchInv, TypeOK', UNCHANGED <<embedded, generation, known, made, pc, call>>,
           \A p \in Processes : missing'[p] \cap embedded \subseteq missing[p],
           rankings' \subseteq rankings
    PROVE  SearchInv'
<1>1. MadeGrows /\ MadeOK'
  BY MadeSame
<1>2. MissesOK'
  BY MissesKept
<1>3. CachedOK'
  BY <1>1, CachedKept
<1>4. ASSUME NEW d \in Clients PROVE ChoosesOK(d)' /\ CollectsOK(d)' /\ ReadsOK(d)'
  BY <1>1, ClientKept
<1>. QED  BY <1>1, <1>2, <1>3, <1>4 DEF SearchInv

LEMMA ExpireStep == ASSUME SearchInv, Expire PROVE SearchInv'
<1>1. /\ TypeOK /\ rankings' \subseteq rankings /\ UNCHANGED workload
      /\ UNCHANGED <<current, database, missing, known, snapshots, clientVars, indexerVars>>
  BY DEF SearchInv, Expire, Count
<1>2. TypeOK'
  BY <1>1 DEF TypeOK, database, clientVars, indexerVars
<1>. QED  BY <1>1, <1>2, CallsKept DEF database, clientVars

LEMMA ForgetStep == ASSUME SearchInv, NEW p \in Processes, Forget(p) PROVE SearchInv'
<1>1. /\ TypeOK /\ UNCHANGED workload
      /\ UNCHANGED <<current, database, known, snapshots, rankings, clientVars, indexerVars>>
  BY DEF SearchInv, Forget, Count
<1>2. PICK k \in missing[p] : missing' = [missing EXCEPT ![p] = @ \ {k}]
  BY DEF Forget
<1>3. /\ missing' \in [Processes -> SUBSET STRING]
      /\ \A o \in Processes : missing'[o] \cap embedded \subseteq missing[o]
  BY <1>1, <1>2 DEF TypeOK
<1>4. TypeOK'
  BY <1>1, <1>3 DEF TypeOK, database, clientVars, indexerVars
<1>. QED  BY <1>1, <1>3, <1>4, CallsKept DEF database, clientVars

LEMMA ChangeStep == ASSUME SearchInv, Change PROVE SearchInv'
<1>1. /\ TypeOK /\ current' \in Revisions /\ UNCHANGED workload
      /\ UNCHANGED <<database, caches, clientVars, indexerVars>>
  BY DEF SearchInv, Change, Count
<1>2. TypeOK'
  BY <1>1 DEF TypeOK, database, caches, clientVars, indexerVars
<1>. QED  BY <1>1, <1>2, CallsKept DEF database, caches, clientVars

\* What a restart keeps: the clients that were between two calls, and the database.
LEMMA RestartStep == ASSUME SearchInv, Restart PROVE SearchInv'
<1>0. /\ TypeOK /\ MissesOK
      /\ missing' = [missing EXCEPT !["server"] = {}]
      /\ known' = [known EXCEPT !["server"] = NoRevision]
      /\ snapshots' = {} /\ rankings' = {} /\ UNCHANGED workload
      /\ UNCHANGED <<current, database, made, indexerVars>>
  BY DEF SearchInv, Restart, Count
<1>1. /\ call' \in [Clients -> Calls] /\ pc' \in [Clients -> Phases]
      /\ \A d \in Clients : \/ pc'[d] = "idle" /\ call'[d] = NoCall
                            \/ /\ pc'[d] = pc[d] /\ call'[d] = call[d]
                               /\ pc[d] \in {"idle", "more", "done"}
  <2>. DEFINE broken == {c \in Clients : pc[c] \notin {"idle", "more", "done"}}
  <2>1. /\ pc' = [c \in Clients |-> IF c \in broken THEN "idle" ELSE pc[c]]
        /\ call' = [c \in Clients |-> IF c \in broken THEN NoCall ELSE call[c]]
    BY DEF Restart
  <2>2. NoCall \in Calls
    BY EmptySeq DEF NoCall, Calls, MaybeRevision
  <2>. HIDE DEF NoCall
  <2>. QED  BY <1>0, <2>1, <2>2 DEF TypeOK, Phases
<1>2. /\ known'["server"] = NoRevision /\ known'["indexer"] = known["indexer"]
      /\ missing'["server"] = {} /\ missing'["indexer"] = missing["indexer"]
      /\ known' \in [Processes -> Nat \cup {NoRevision}]
      /\ missing' \in [Processes -> SUBSET STRING]
  BY <1>0 DEF TypeOK, Processes
<1>3. TypeOK'
  BY <1>0, <1>1, <1>2 DEF TypeOK, database, indexerVars
<1>4. MadeGrows /\ MadeOK'
  BY <1>0, MadeSame
<1>5. NoCall.since = {} /\ NoCall.snapshot = 0 /\ NoCall.seen = <<>>
  BY DEF NoCall
<1>6. MissesOK'
  <2>1. ASSUME NEW p \in Processes, known'[p] # NoRevision
        PROVE  /\ known'[p] <= generation
               /\ known'[p] = generation => missing'[p] \cap embedded = {}
    BY <1>0, <1>2, <2>1 DEF MissesOK, Processes
  <2>2. \A d \in Clients : call'[d].since \subseteq embedded
    BY <1>0, <1>1, <1>5 DEF MissesOK
  <2>. QED  BY <1>0, <1>2, <2>1, <2>2 DEF MissesOK, database
<1>7. CachedOK'
  BY <1>0, <1>4, CachedKept DEF database
<1>8. ASSUME NEW d \in Clients PROVE ChoosesOK(d)' /\ CollectsOK(d)' /\ ReadsOK(d)'
  <2>1. CASE pc'[d] = "idle" /\ call'[d] = NoCall
    BY <1>5, <2>1 DEF ChoosesOK, CollectsOK, ReadsOK, Waiting
  <2>2. CASE pc'[d] = pc[d] /\ call'[d] = call[d] /\ pc[d] \in {"idle", "more", "done"}
    BY <1>0, <1>4, <2>2, ClientKept DEF database
  <2>. QED  BY <1>1, <2>1, <2>2
<1>. QED  BY <1>3, <1>4, <1>6, <1>7, <1>8 DEF SearchInv

-----------------------------------------------------------------------------
(* Then the steps of the indexer. *)

LEMMA SafeUnits ==
    ASSUME NEW r \in Revisions, NEW kind \in {"text", "image"}
    PROVE  /\ \A id \in Safe(r, kind) : Corpus[r][id].content \in STRING
           /\ Lacking(r, kind) \subseteq STRING
<1>1. \A id \in Safe(r, kind) : Corpus[r][id].content \in STRING
  BY SemanticUnits DEF Safe
<1>2. Lacking(r, kind) \subseteq STRING
  BY <1>1 DEF Lacking, ContentsOf
<1>. QED  BY <1>1, <1>2

LEMMA BeginRoundStep == ASSUME SearchInv, BeginRound PROVE SearchInv'
<1>1. /\ TypeOK /\ round' = [NoRound EXCEPT !.pc = "synchronize", !.first = current]
      /\ UNCHANGED <<current, database, caches, clientVars, settled, bounds>>
  BY DEF SearchInv, BeginRound
<1>2. round' \in Rounds /\ round'.pc = "synchronize"
  BY <1>1 DEF NoRound, Rounds, MaybeRevision, TypeOK
<1>3. TypeOK'
  BY <1>1, <1>2 DEF TypeOK, database, caches, clientVars, bounds
<1>. QED  BY <1>1, <1>3, CallsKept DEF database, caches, clientVars

LEMMA RebuildStep == ASSUME SearchInv, Rebuild PROVE SearchInv'
<1>0. /\ TypeOK /\ MissesOK /\ Refresh("indexer") /\ tables' = current
      /\ round' = [round EXCEPT !.pc = "lookup", !.revision = current]
      /\ UNCHANGED <<current, embedded, generation, pages, snapshots, clientVars, settled, bounds>>
  BY DEF SearchInv, Rebuild
<1>1. /\ known' = [known EXCEPT !["indexer"] = generation]
      /\ missing' = [missing EXCEPT !["indexer"] =
                        IF generation = known["indexer"] THEN @ ELSE {}]
      /\ rankings' = rankings
  BY <1>0 DEF Refresh
<1>2. /\ known'["indexer"] = generation /\ known'["server"] = known["server"]
      /\ missing'["indexer"] = IF generation = known["indexer"] THEN missing["indexer"] ELSE {}
      /\ missing'["server"] = missing["server"]
      /\ known' \in [Processes -> Nat \cup {NoRevision}]
      /\ missing' \in [Processes -> SUBSET STRING]
      /\ generation \in Nat /\ generation # NoRevision
  BY <1>0, <1>1, IndexAssumption DEF TypeOK, Processes
<1>3. round' \in Rounds /\ round'.pc = "lookup" /\ round'.revision \in Revisions
  BY <1>0 DEF Rounds, MaybeRevision, TypeOK
<1>4. TypeOK'
  BY <1>0, <1>1, <1>2, <1>3 DEF TypeOK, MaybeRevision, clientVars, bounds
<1>5. MadeGrows /\ MadeOK'
  BY <1>0, MadeSame DEF clientVars
<1>6. MissesOK'
  <2>1. ASSUME NEW p \in Processes, known'[p] # NoRevision
        PROVE  /\ known'[p] <= generation
               /\ known'[p] = generation => missing'[p] \cap embedded = {}
    BY <1>0, <1>2, <2>1 DEF MissesOK, Processes
  <2>. QED  BY <1>0, <1>2, <2>1 DEF MissesOK, clientVars
<1>7. CachedOK'
  BY <1>0, <1>1, <1>5, CachedKept
<1>8. ASSUME NEW d \in Clients PROVE ChoosesOK(d)' /\ CollectsOK(d)' /\ ReadsOK(d)'
  BY <1>0, <1>1, <1>2, <1>5, ClientKept DEF clientVars
<1>. QED  BY <1>4, <1>5, <1>6, <1>7, <1>8 DEF SearchInv

LEMMA LookUpStep == ASSUME SearchInv, LookUp PROVE SearchInv'
<1>. DEFINE r == round.revision
<1>0. /\ TypeOK /\ round.pc \in {"lookup", "text"} /\ round \in Rounds /\ r \in Revisions
      /\ UNCHANGED <<current, database, known, snapshots, rankings, clientVars, settled, bounds>>
  BY DEF SearchInv, LookUp, TypeOK
<1>1. PICK kind \in {"text", "image"} :
          /\ round' = [round EXCEPT !.pc = kind, !.left = Lacking(r, kind)]
          /\ Remember("indexer", r, Safe(r, kind))
  BY DEF LookUp
<1>2. /\ Lacking(r, kind) \subseteq STRING
      /\ \A id \in Safe(r, kind) : Corpus[r][id].content \in STRING
  BY <1>0, SafeUnits
<1>3. round' \in Rounds /\ round'.revision = r
  BY <1>0, <1>1, <1>2 DEF Rounds
<1>4. /\ missing' \in [Processes -> SUBSET STRING]
      /\ \A o \in Processes : missing'[o] \cap embedded \subseteq missing[o]
  <2>1. "indexer" \in Processes
    BY DEF Processes
  <2>. QED  BY <1>0, <1>1, <1>2, <2>1, Remembered
<1>5. TypeOK'
  BY <1>0, <1>3, <1>4 DEF TypeOK, database, clientVars, bounds
<1>. QED  BY <1>0, <1>4, <1>5, CallsKept DEF database, clientVars

LEMMA EndRoundStep == ASSUME SearchInv, EndRound PROVE SearchInv'
<1>. DEFINE r == round.revision
            safe == Safe(r, "text") \cup Safe(r, "image")
<1>0. /\ TypeOK /\ r \in Revisions /\ settled' \in MaybeRevision /\ round' = NoRound
      /\ Remember("indexer", r, safe)
      /\ UNCHANGED <<current, database, known, snapshots, rankings, clientVars, bounds>>
  BY DEF SearchInv, EndRound, TypeOK, Rounds
<1>1. \A id \in safe : Corpus[r][id].content \in STRING
  BY <1>0, SafeUnits
<1>2. NoRound \in Rounds /\ NoRound.pc = "idle"
  BY DEF NoRound, Rounds, MaybeRevision
<1>3. /\ missing' \in [Processes -> SUBSET STRING]
      /\ \A o \in Processes : missing'[o] \cap embedded \subseteq missing[o]
  <2>1. "indexer" \in Processes
    BY DEF Processes
  <2>. HIDE DEF safe
  <2>. QED  BY <1>0, <1>1, <2>1, Remembered
<1>4. TypeOK'
  <2>. HIDE DEF NoRound
  <2>. QED  BY <1>0, <1>2, <1>3 DEF TypeOK, database, clientVars, bounds
<1>. QED  BY <1>0, <1>3, <1>4, CallsKept DEF database, clientVars

\* Vectors are stored: every cache is of an older generation then.
LEMMA BatchStored ==
    ASSUME SearchInv, NEW batch, batch \subseteq STRING, StoreBatch(batch), round' \in Rounds,
           round'.pc = round.pc, round'.revision = round.revision
    PROVE  SearchInv'
<1>0. /\ TypeOK /\ MissesOK /\ CachedOK
      /\ embedded' = embedded \cup batch /\ generation' = generation + 1
      /\ missing' = [missing EXCEPT !["indexer"] = @ \ batch]
      /\ UNCHANGED <<current, tables, pages, known, snapshots, rankings, clientVars, settled,
                     bounds>>
  BY DEF SearchInv, StoreBatch
<1>1. /\ missing' \in [Processes -> SUBSET STRING] /\ missing'["server"] = missing["server"]
      /\ generation \in Nat /\ generation' \in Nat /\ generation < generation'
      /\ NoRevision \notin Nat
  BY <1>0, IndexAssumption DEF TypeOK, Processes
<1>2. TypeOK'
  BY <1>0, <1>1 DEF TypeOK, clientVars, bounds
<1>3. MadeGrows /\ MadeOK'
  BY <1>0, MadeSame DEF clientVars
<1>4. MissesOK'
  <2>1. ASSUME NEW p \in Processes, known[p] # NoRevision
        PROVE  known[p] <= generation' /\ known[p] # generation'
    <3>1. known[p] \in Nat /\ known[p] <= generation
      BY <1>0, <2>1 DEF TypeOK, MissesOK
    <3>. QED  BY <1>1, <3>1
  <2>2. \A d \in Clients : call[d].since \subseteq embedded'
    BY <1>0 DEF MissesOK
  <2>. QED  BY <1>0, <1>1, <2>1, <2>2 DEF MissesOK, clientVars
<1>5. CachedOK'
  <2>1. \A x \in rankings : x.key[3] \in Nat /\ x.key[3] <= generation
    BY <1>0 DEF TypeOK, Keys, CachedOK
  <2>2. \A x \in rankings : x.key[3] <= generation' /\ x.key[3] # generation'
    BY <1>1, <2>1
  <2>. QED  BY <1>0, <2>2 DEF CachedOK, Worthy, Complementary, clientVars
<1>6. ASSUME NEW d \in Clients PROVE ChoosesOK(d)' /\ CollectsOK(d)' /\ ReadsOK(d)'
  BY <1>0, <1>3, ClientKept DEF clientVars
<1>. QED  BY <1>2, <1>3, <1>4, <1>5, <1>6 DEF SearchInv

LEMMA EmbedBatchStep == ASSUME SearchInv, EmbedBatch PROVE SearchInv'
<1>1. PICK batch \in Batches :
          StoreBatch(batch) /\ round' = [round EXCEPT !.left = @ \ batch]
  BY DEF EmbedBatch
<1>2. round \in Rounds /\ batch \subseteq round.left
  BY DEF SearchInv, TypeOK, Batches
<1>3. /\ batch \subseteq STRING /\ round' \in Rounds
      /\ round'.pc = round.pc /\ round'.revision = round.revision
  BY <1>1, <1>2 DEF Rounds
<1>. QED  BY <1>1, <1>3, BatchStored

LEMMA EmbedSingleStep == ASSUME SearchInv, EmbedSingle PROVE SearchInv'
<1>1. PICK k \in round.single :
          StoreBatch({k}) /\ round' = [round EXCEPT !.single = @ \ {k}]
  BY DEF EmbedSingle
<1>2. round \in Rounds
  BY DEF SearchInv, TypeOK
<1>3. /\ {k} \subseteq STRING /\ round' \in Rounds
      /\ round'.pc = round.pc /\ round'.revision = round.revision
  BY <1>1, <1>2 DEF Rounds
<1>. QED  BY <1>1, <1>3, BatchStored

\* A failure changes what is left of the round alone.
LEMMA FailureStep == ASSUME SearchInv, FailBatch \/ FailSingle PROVE SearchInv'
<1>0. /\ TypeOK /\ round \in Rounds /\ UNCHANGED workload
      /\ UNCHANGED <<current, database, caches, clientVars, settled>>
  BY DEF SearchInv, TypeOK, FailBatch, FailSingle, Count
<1>1. /\ round' \in Rounds /\ round'.pc = round.pc /\ round'.revision = round.revision
  <2>1. CASE FailBatch
    <3>1. PICK batch \in Batches, single \in SUBSET round.left :
              round' = [round EXCEPT !.left = @ \ batch, !.single = single]
      BY <2>1 DEF FailBatch, Batches
    <3>. QED  BY <1>0, <3>1 DEF Rounds
  <2>2. CASE FailSingle
    <3>1. PICK k \in round.single : round' = [round EXCEPT !.single = @ \ {k}]
      BY <2>2 DEF FailSingle
    <3>. QED  BY <1>0, <3>1 DEF Rounds
  <2>. QED  BY <2>1, <2>2
<1>2. TypeOK'
  BY <1>0, <1>1 DEF TypeOK, database, caches, clientVars
<1>. QED  BY <1>0, <1>2, CallsKept DEF database, caches, clientVars

-----------------------------------------------------------------------------
(***************************************************************************)
(* Part 5: the invariant, and what searches promise.                       *)
(***************************************************************************)

LEMMA InitInv == Init => SearchInv
<1>. SUFFICES ASSUME Init PROVE SearchInv
  OBVIOUS
<1>1. /\ NoCall \in Calls /\ NoCall.snapshot = 0 /\ NoCall.seen = <<>> /\ NoCall.since = {}
  BY EmptySeq DEF NoCall, Calls, MaybeRevision
<1>2. NoRound \in Rounds /\ NoRound.pc = "idle"
  BY DEF NoRound, Rounds, MaybeRevision
<1>3. /\ workload \in Workloads /\ current = workload.first
      /\ tables = NoRevision /\ embedded = {} /\ generation = 0 /\ pages = {}
      /\ missing = [p \in Processes |-> {}] /\ known = [p \in Processes |-> NoRevision]
      /\ snapshots = {} /\ rankings = {} /\ made = <<>>
      /\ pc = [c \in Clients |-> "idle"] /\ call = [c \in Clients |-> NoCall]
      /\ round = NoRound /\ settled = NoRevision
  BY DEF Init
<1>4. current \in Revisions
  BY <1>3, IndexAssumption
<1>. HIDE DEF NoCall, NoRound
<1>5. TypeOK
  BY <1>1, <1>2, <1>3, <1>4, EmptySeq DEF TypeOK, MaybeRevision, Phases
<1>6. Len(made) = 0
  BY <1>3, EmptySeq
<1>7. MadeOK
  BY <1>6 DEF MadeOK
<1>8. MissesOK /\ CachedOK
  BY <1>1, <1>3 DEF MissesOK, CachedOK
<1>9. ASSUME NEW c \in Clients PROVE ChoosesOK(c) /\ CollectsOK(c) /\ ReadsOK(c)
  BY <1>1, <1>3 DEF ChoosesOK, CollectsOK, ReadsOK, Waiting
<1>. QED  BY <1>5, <1>7, <1>8, <1>9 DEF SearchInv

LEMMA SearchingStep ==
    ASSUME SearchInv, NEW c \in Clients, Arrive(c) \/ Searching(c)
    PROVE  SearchInv'
<1>1. CASE Arrive(c)       BY <1>1, ArriveStep
<1>2. CASE Begin(c)        BY <1>2, BeginStep
<1>3. CASE Continue(c)     BY <1>3, ContinueStep
<1>4. CASE FromCache(c)    BY <1>4, FromCacheStep
<1>5. CASE Candidates(c)   BY <1>5, CandidatesStep
<1>6. CASE AnswerText(c)   BY <1>6, AnswerTextStep
<1>7. CASE AnswerImage(c)  BY <1>7, AnswerImageStep
<1>8. CASE Store(c)        BY <1>8, StoreStep
<1>. QED  BY <1>1, <1>2, <1>3, <1>4, <1>5, <1>6, <1>7, <1>8 DEF Searching

LEMMA IndexingStep == ASSUME SearchInv, Indexing PROVE SearchInv'
<1>1. CASE BeginRound              BY <1>1, BeginRoundStep
<1>2. CASE Rebuild                 BY <1>2, RebuildStep
<1>3. CASE LookUp                  BY <1>3, LookUpStep
<1>4. CASE EmbedBatch              BY <1>4, EmbedBatchStep
<1>5. CASE EmbedSingle             BY <1>5, EmbedSingleStep
<1>6. CASE FailBatch \/ FailSingle  BY <1>6, FailureStep
<1>7. CASE EndRound                BY <1>7, EndRoundStep
<1>. QED  BY <1>1, <1>2, <1>3, <1>4, <1>5, <1>6, <1>7 DEF Indexing

LEMMA NextStep == ASSUME SearchInv, [Next]_vars PROVE SearchInv'
<1>1. CASE \E c \in Clients : Arrive(c) \/ Searching(c)
  BY <1>1, SearchingStep
<1>2. CASE Indexing
  BY <1>2, IndexingStep
<1>3. CASE Change
  BY <1>3, ChangeStep
<1>4. CASE Expire
  BY <1>4, ExpireStep
<1>5. CASE Restart
  BY <1>5, RestartStep
<1>6. CASE \E p \in Processes : Forget(p)
  BY <1>6, ForgetStep
<1>7. CASE UNCHANGED vars
  <2>1. UNCHANGED <<current, database, caches, clientVars, indexerVars, bounds>>
    BY <1>7 DEF vars
  <2>2. TypeOK'
    BY <2>1 DEF SearchInv, TypeOK, database, caches, clientVars, indexerVars, bounds
  <2>. QED  BY <2>1, <2>2, CallsKept DEF database, caches, clientVars
<1>. QED  BY <1>1, <1>2, <1>3, <1>4, <1>5, <1>6, <1>7 DEF Next

\* Every ranking in memory, in the database and in the cache is what a search of its
\* revision should have found; every cached miss is one still, or its process will
\* look again (retrieval/index.ts: search, refreshVectorCache, rememberVector).
THEOREM SearchInvariant == Spec => []SearchInv
<1>1. Init => SearchInv
  BY InitInv
<1>2. SearchInv /\ [Next]_vars => SearchInv'
  BY NextStep
<1>. QED  BY <1>1, <1>2, PTL DEF Spec

\* A client that is done has read one whole ranking.
LEMMA WholeRanking ==
    ASSUME SearchInv, NEW c \in Clients, Ended(c)
    PROVE  LET m == made[call[c].snapshot]
               x == call[c]
           IN  /\ x.request \in Requests /\ x.revision \in Revisions
               /\ x.seen = m.hits /\ IsInjective(m.hits) /\ m.revision = x.revision
               /\ Worthy(m, x.request) /\ Complementary(m, x.request, x.since) /\ ~m.failed
<1>. DEFINE id == call[c].snapshot
            m == made[id]
<1>1. /\ TypeOK /\ MadeOK /\ ReadsOK(c) /\ pc[c] = "done" /\ call[c] \in Calls /\ ~m.failed
  BY DEF SearchInv, TypeOK, Ended
<1>2. /\ call[c].request \in Requests /\ call[c].revision \in Revisions
      /\ id # 0 /\ id <= Len(made) /\ call[c].offset = Len(m.hits)
      /\ call[c].revision = m.revision /\ call[c].seen = SubSeq(m.hits, 1, call[c].offset)
      /\ Worthy(m, call[c].request) /\ Complementary(m, call[c].request, call[c].since)
  BY <1>1 DEF ReadsOK
<1>3. id \in 1..Len(made) /\ m \in Rankings
  <2>1. id \in Nat /\ Len(made) \in Nat
    BY <1>1, LenProperties DEF Calls, TypeOK
  <2>2. id \in 1..Len(made)
    BY <1>2, <2>1
  <2>. QED  BY <1>1, <2>2, LenProperties DEF TypeOK
<1>4. IsInjective(m.hits)
  BY <1>1, <1>3 DEF MadeOK
<1>5. call[c].seen = m.hits
  <2>1. m.hits \in Seq(Ids)
    BY <1>3 DEF Rankings
  <2>. HIDE DEF m
  <2>. QED  BY <1>2, <2>1, SubSeqFull
<1>. QED  BY <1>1, <1>2, <1>4, <1>5

\* Whatever changes, failures, restarts and other searches come between its pages, a
\* search that is followed to its end gives every hit of one ranking once, and every
\* visible text with its words unless the tables were replaced under it (search, page).
THEOREM EverythingIsCollectedOnce == Spec => []CollectedOnce
<1>1. SearchInv => CollectedOnce
  <2>. SUFFICES ASSUME SearchInv, NEW c \in Clients, Ended(c)
                PROVE  LET r == call[c].revision
                           q == call[c].request
                       IN  /\ IsInjective(call[c].seen)
                           /\ Range(call[c].seen) = Range(made[call[c].snapshot].hits)
                           /\ ~made[call[c].snapshot].torn =>
                                 {id \in Visible[r][q] : Corpus[r][id].kind = "text"
                                     /\ Corpus[r][id].content \in q.terms}
                                   \subseteq Range(call[c].seen)
    BY DEF CollectedOnce
  <2>. QED  BY WholeRanking DEF Worthy, Worded
<1>. QED  BY <1>1, SearchInvariant, PTL

\* No vector that was stored when a search began is hidden from it, by a cached miss, by
\* a cached ranking or by a batch that is stored meanwhile (refreshVectorCache, rankingKey).
THEOREM NoVectorIsHidden == Spec => []VectorsCount
<1>1. SearchInv => VectorsCount
  <2>. SUFFICES ASSUME SearchInv, NEW c \in Clients, Ended(c), NEW kind \in {"text", "image"},
                       NEW id \in Semantic(c, kind), id \in Similar(c, {id}),
                       Corpus[call[c].revision][id].content \in call[c].since
                PROVE  id \in Range(call[c].seen)
    BY DEF VectorsCount
  <2>. DEFINE m == made[call[c].snapshot]
  <2>1. /\ call[c].seen = m.hits /\ m.revision = call[c].revision /\ ~m.failed
        /\ Complementary(m, call[c].request, call[c].since)
    BY WholeRanking
  <2>2. id \in Alike(call[c].revision, call[c].request, kind, call[c].since)
    BY DEF Alike, Semantic, Similar
  <2>. HIDE DEF m
  <2>. QED  BY <2>1, <2>2 DEF Complementary
<1>. QED  BY <1>1, SearchInvariant, PTL
=============================================================================
