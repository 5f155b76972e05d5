------------------------------ MODULE Retrieval ------------------------------
(***************************************************************************)
(* One retrieval: the scope of the caller, the dense search, the listing   *)
(* of the corpus for the lexical one, their fusion, the reranking, and     *)
(* what of it is cited.  Qdrant changes between any two of its calls, each *)
(* call may fail, and the caller may leave.  A text is a stretch of its    *)
(* document, so that one contains another or not; a similarity, a lexical  *)
(* and a rerank score are small numbers.                                   *)
(***************************************************************************)
EXTENDS Orders, SequencesExt

CONSTANTS
    Points,       \* points in Qdrant, numbers in the order in which a scroll returns them
    Generations,  \* the generations they are of
    TopK, RerankTopK, Bm25TopK, CorpusLimit, PageSize, RrfK,   \* the service's options
    LongText,     \* length from which one text may stand for another it contains
    Threshold,    \* lineageMinScore: the least score of an anchor and of its companion
    MaxChanges    \* bound: changes of a point's visibility during one retrieval

ASSUME RetrievalAssumption ==
    /\ Points \subseteq Nat /\ IsFiniteSet(Points)
    /\ {TopK, RerankTopK, Bm25TopK, CorpusLimit, PageSize} \subseteq Nat \ {0}
    /\ RrfK \in Nat /\ LongText \in Nat /\ Threshold \in Int /\ MaxChanges \in Nat

VARIABLES
    payload,      \* what is stored with a point
    visible,      \* points whose lifecycle_visibility is active
    changes,      \* number of changes of it so far
    wanted,       \* what the request asks for: its options and the record types
    phase,        \* the call the service waits for, or how the retrieval ended
    gone,         \* whether the caller has aborted
    scope,        \* the generations the caller may see, as resolved at the start
    dense,        \* the hits of the dense search
    corpus, offset,  \* what the listing has returned, and the point it goes on with
    candidates,   \* the hits as they stand in rank
    degraded,     \* the stages that failed and were left out
    answer,       \* the hits cited, in order
    witnessed     \* points visible at some moment of the retrieval

requestVars == <<payload, wanted, gone>>
qdrantVars == <<visible, changes, witnessed>>
resultVars == <<dense, corpus, offset, candidates, degraded, answer>>
retrievalVars == <<requestVars, qdrantVars, phase, scope, resultVars>>

Kinds == {"chunk", "section", "document", "table", "table_summary", "figure"}

\* acl "unset": names the caller among its principals but has no acl_scope.
Payload == [doc : Nat, gen : Generations, acl : {"workspace", "mine", "others", "unset"}, kind : Kinds,
            from : Nat, to : Nat, well : BOOLEAN, figure : Nat, nodes : SUBSET Nat,
            near : 0 .. 2, words : 0 .. 2]

Hit == [id : Points, dense : -1 .. 2, rank : -1 .. 2]

RetrievalInit ==
    /\ changes = 0 /\ witnessed = visible /\ phase = "resolving" /\ gone = FALSE /\ scope = {}
    /\ dense = <<>> /\ corpus = <<>> /\ offset = 0 /\ candidates = <<>> /\ degraded = {} /\ answer = <<>>

-----------------------------------------------------------------------------
(* Scores and ranks                                                          *)

IdsOf(hits) == {hits[i].id : i \in DOMAIN hits}
Place(hits, p) == CHOOSE i \in DOMAIN hits : hits[i].id = p

DenseK == CHOOSE k \in {TopK, RerankTopK, Bm25TopK} : \A j \in {TopK, RerankTopK, Bm25TopK} : j <= k

DenseHit(p) == [id |-> p, dense |-> payload[p].near, rank |-> -1]
LexicalHit(p) == [id |-> p, dense |-> -1, rank |-> -1]

\* Bm25Index.search: the listed points with a word of the query, best first.
LexicalHits(listed) ==
    LET worded == Picked(listed, {i \in DOMAIN listed : payload[listed[i]].words > 0})
        best == Prefix(Sorted(worded, Higher([i \in DOMAIN worded |-> payload[worded[i]].words])), Bm25TopK)
    IN  [i \in DOMAIN best |-> LexicalHit(best[i])]

\* The sum of 1 / (k + rank) over the lists a hit is in, as a fraction.
Contribution(d, l, p) ==
    LET InDense == p \in IdsOf(d)
        InLexical == p \in IdsOf(l)
        a == RrfK + Place(d, p)
        b == RrfK + Place(l, p)
    IN  CASE InDense /\ InLexical -> <<a + b, a * b>>
          [] InDense /\ ~InLexical -> <<1, a>>
          [] OTHER -> <<1, b>>

Fused(d, l) ==
    LET all == d \o Picked(l, {i \in DOMAIN l : l[i].id \notin IdsOf(d)})
        Sum(i) == Contribution(d, l, all[i].id)
        above == {pair \in (DOMAIN all) \X (DOMAIN all) :
                     Sum(pair[1])[1] * Sum(pair[2])[2] > Sum(pair[2])[1] * Sum(pair[1])[2]}
    IN  Prefix(Sorted(all, above), DenseK)

\* Fusion rank is not semantic relevance; a lexical hit has no dense score.
EvidenceScore(h) == IF h.rank >= 0 THEN h.rank ELSE h.dense

\* What the provider did not name is left out (a mutant).
MutantReranked(hits, rank) ==
    LET given == [i \in DOMAIN hits |-> [hits[i] EXCEPT !.rank = rank[i]]]
        named == Picked(given, {i \in DOMAIN given : rank[i] >= 0})
    IN  Sorted(named, Higher([i \in DOMAIN named |-> named[i].rank]))

\* The ranked hits first, best first and else in their order, then the others.
Reranked(hits, rank) ==
    LET given == [i \in DOMAIN hits |-> [hits[i] EXCEPT !.rank = rank[i]]]
        named == Picked(given, {i \in DOMAIN given : rank[i] >= 0})
    IN  Sorted(named, Higher([i \in DOMAIN named |-> named[i].rank]))
            \o Picked(given, {i \in DOMAIN given : rank[i] < 0})

-----------------------------------------------------------------------------
(* What is cited                                                             *)

Length(p) == payload[p].to - payload[p].from
Covers(p, q) == payload[p].from <= payload[q].from /\ payload[q].to <= payload[p].to

Overlapping(p, q) ==
    /\ payload[p].doc = payload[q].doc
    /\ Length(p) >= LongText /\ Length(q) >= LongText
    /\ Covers(p, q) \/ Covers(q, p)

RecordSpecificity(kind) ==
    CASE kind \in {"figure", "table"} -> 3
      [] kind \in {"chunk", "table_summary"} -> 2
      [] kind = "section" -> 1
      [] OTHER -> 0

MoreSpecific(p, q) == RecordSpecificity(payload[p].kind) > RecordSpecificity(payload[q].kind)

\* The first hit that overlaps stands for both, or gives its place to a more specific one.
Keep(kept, h) ==
    LET Twins == {i \in DOMAIN kept : Overlapping(kept[i].id, h.id)}
        first == CHOOSE i \in Twins : \A j \in Twins : i <= j
    IN  IF Twins = {} THEN Append(kept, h)
        ELSE IF MoreSpecific(h.id, kept[first].id) THEN [kept EXCEPT ![first] = h] ELSE kept

Deduplicated(hits) ==
    LET kept[n \in 0 .. Len(hits)] == IF n = 0 THEN <<>> ELSE Keep(kept[n - 1], hits[n])
    IN  kept[Len(hits)]

\* The anchor's text is about this very figure.
DirectFigure(anchor, p) == payload[p].figure # 0 /\ payload[p].figure = payload[anchor].figure

\* A figure of the same document and generation: the anchor's, or one built from a node
\* that the anchor's text is built from too.
IsCompanion(anchor, p) ==
    /\ payload[p].kind = "figure"
    /\ DirectFigure(anchor, p) \/ payload[p].nodes \cap payload[anchor].nodes # {}
    /\ payload[p].doc = payload[anchor].doc /\ payload[p].gen = payload[anchor].gen

\* The first anchor among the selected that has none of its figures beside it gets
\* the best one of the pool, its direct figure first of all, right behind it and within
\* the same cap.
RetainCompanion(pool) ==
    LET selected == Prefix(pool, TopK)
        Eligible(a) == {i \in DOMAIN pool :
            /\ pool[i].id \notin IdsOf(selected)
            /\ IsCompanion(selected[a].id, pool[i].id)
            /\ EvidenceScore(pool[i]) >= Threshold}
        Preferred(a) == {i \in Eligible(a) : DirectFigure(selected[a].id, pool[i].id)}
        Companions(a) == IF Preferred(a) = {} THEN Eligible(a) ELSE Preferred(a)
        Anchors == {a \in DOMAIN selected :
            /\ a < TopK
            /\ payload[selected[a].id].kind = "chunk"
            /\ EvidenceScore(selected[a]) >= Threshold
            /\ ~\E p \in IdsOf(selected) : IsCompanion(selected[a].id, p)
            /\ Eligible(a) # {}}
        a == CHOOSE x \in Anchors : \A y \in Anchors : x <= y
        c == CHOOSE x \in Companions(a) : \A y \in Companions(a) : x <= y
    IN  IF ~wanted.lineage \/ TopK < 2 \/ Anchors = {} THEN selected
        ELSE Prefix(SubSeq(selected, 1, a) \o <<pool[c]>> \o SubSeq(selected, a + 1, Len(selected)), TopK)

-----------------------------------------------------------------------------
(* The service's steps                                                       *)

\* The filter of every call to Qdrant, ...
Matching(p) ==
    /\ payload[p].gen \in scope
    /\ payload[p].acl # "others"
    /\ p \in visible
    /\ payload[p].kind \in wanted.kinds

\* ... and the check of every answer of it, on what can be parsed.
Authorized(ps) == \A p \in ps : payload[p].gen \in scope /\ payload[p].acl \in {"workspace", "mine"}

Ends(how) == phase' = how /\ UNCHANGED <<requestVars, qdrantVars, scope, resultVars>>

\* resolveAuthorizedRetrievalScope: no such library, or the generations in it.
Resolve ==
    /\ phase = "resolving"
    /\ \/ Ends("not_found")
       \/ /\ scope' \in SUBSET Generations
          /\ phase' = "embedding" /\ UNCHANGED <<requestVars, qdrantVars, resultVars>>

Embed ==
    /\ phase = "embedding"
    /\ \/ ~gone /\ Ends("searching")
       \/ Ends(IF gone THEN "aborted" ELSE "failed")

\* throwIfAborted, then the reranking if there is anything to rank, or the end.
Ranks(hits) ==
    /\ candidates' = hits
    /\ IF gone THEN phase' = "aborted" /\ UNCHANGED answer
       ELSE IF wanted.rerank /\ Len(hits) > 1 THEN phase' = "reranking" /\ UNCHANGED answer
       ELSE phase' = "answered" /\ answer' = RetainCompanion(Deduplicated(hits))
    /\ UNCHANGED <<requestVars, qdrantVars, scope>>

Search ==
    /\ phase = "searching"
    /\ LET matching == InOrder({p \in Points : Matching(p)})
           found == Prefix(Sorted(matching, Higher([i \in DOMAIN matching |-> payload[matching[i]].near])), DenseK)
           hits == Picked(found, {i \in DOMAIN found : payload[found[i]].well})
       IN  \/ /\ Authorized(ToSet(hits))
              /\ dense' = [i \in DOMAIN hits |-> DenseHit(hits[i])]
              /\ UNCHANGED <<corpus, offset, degraded>>
              /\ IF wanted.hybrid
                 THEN phase' = "listing" /\ UNCHANGED <<requestVars, qdrantVars, scope, candidates, answer>>
                 ELSE Ranks(dense')
           \/ ~Authorized(ToSet(hits)) /\ Ends("failed")

SearchFails == phase = "searching" /\ Ends("failed")

\* The corpus is complete: its lexical hits join the dense ones.
Lexical(listed) ==
    LET lexical == LexicalHits(listed)
    IN  Ranks(IF lexical = <<>> THEN dense ELSE Fused(dense, lexical))

\* One page of the scroll, from the offset on.
ListPage ==
    /\ phase = "listing"
    /\ LET rest == InOrder({p \in Points : p >= offset /\ Matching(p)})
           most == IF PageSize < CorpusLimit - Len(corpus) THEN PageSize ELSE CorpusLimit - Len(corpus)
           page == Prefix(rest, most)
           listed == corpus \o Picked(page, {i \in DOMAIN page : payload[page[i]].well})
       IN  /\ corpus' = listed /\ UNCHANGED dense
           /\ IF Len(rest) > most /\ Len(listed) < CorpusLimit
              THEN /\ offset' = rest[most + 1]
                   /\ UNCHANGED <<requestVars, qdrantVars, phase, scope, candidates, degraded, answer>>
              ELSE /\ UNCHANGED offset
                   /\ IF Authorized(ToSet(listed)) THEN Lexical(listed) /\ UNCHANGED degraded
                      ELSE Ranks(dense) /\ degraded' = degraded \cup {"hybrid"}

\* A failure of the lexical side leaves the dense hits.
ListFails ==
    /\ phase = "listing"
    /\ Ranks(dense) /\ degraded' = degraded \cup {"hybrid"}
    /\ UNCHANGED <<dense, corpus, offset>>

\* A valid answer scores some of the candidates, each once; any other is a failure.
Rerank ==
    /\ phase = "reranking"
    /\ UNCHANGED <<requestVars, qdrantVars, scope, dense, corpus, offset>>
    /\ IF gone THEN phase' = "aborted" /\ UNCHANGED <<candidates, degraded, answer>>
       ELSE /\ phase' = "answered"
            /\ \/ \E rank \in [DOMAIN candidates -> {-1, 0, 2}] :
                      /\ \E i \in DOMAIN rank : rank[i] >= 0
                      /\ candidates' = Reranked(candidates, rank) /\ UNCHANGED degraded
               \/ UNCHANGED candidates /\ degraded' = degraded \cup {"rerank"}
            /\ answer' = RetainCompanion(Deduplicated(candidates'))

RetrievalActive == phase \in {"resolving", "embedding", "searching", "listing", "reranking"}

Leave ==
    /\ RetrievalActive /\ ~gone /\ gone' = TRUE
    /\ UNCHANGED <<payload, wanted, qdrantVars, phase, scope, resultVars>>

\* External: a worker activates, hides or erases the points of a generation.
Change ==
    /\ RetrievalActive /\ changes < MaxChanges /\ changes' = changes + 1
    /\ \E p \in Points : visible' = IF p \in visible THEN visible \ {p} ELSE visible \cup {p}
    /\ witnessed' = witnessed \cup visible'
    /\ UNCHANGED <<requestVars, phase, scope, resultVars>>

RetrievalNext ==
    Resolve \/ Embed \/ Search \/ SearchFails \/ ListPage \/ ListFails \/ Rerank \/ Leave \/ Change

\* Whatever is stored and visible, and whatever is asked for.
AnyRequest ==
    /\ payload \in [Points -> Payload] /\ visible \subseteq Points
    /\ wanted \in [hybrid : BOOLEAN, rerank : BOOLEAN, lineage : BOOLEAN, kinds : SUBSET Kinds]

RetrievalSpec == AnyRequest /\ RetrievalInit /\ [][RetrievalNext]_retrievalVars

-----------------------------------------------------------------------------
(* Properties                                                                *)

RetrievalTypeOK ==
    /\ payload \in [Points -> Payload]
    /\ visible \subseteq Points /\ scope \subseteq Generations
    /\ \A s \in {dense, candidates, answer} : \A i \in DOMAIN s : s[i] \in Hit

\* Everything cited is cited once, was visible while the retrieval ran, and is of a
\* generation and an ACL of the caller, whatever Qdrant did between its calls.
CitesWithinScope ==
    /\ Len(answer) <= TopK /\ Cardinality(IdsOf(answer)) = Len(answer)
    /\ \A p \in IdsOf(answer) :
           /\ p \in witnessed /\ payload[p].gen \in scope
           /\ payload[p].acl \in {"workspace", "mine"} /\ payload[p].kind \in wanted.kinds

\* A hit that is ahead of another in each list that has the other stands above it, and
\* the fusion has nothing that is in neither list.
FusionIsMonotone ==
    LET lexical == LexicalHits(corpus)
        fused == Fused(dense, lexical)
        Ahead(list, p, q) == q \in IdsOf(list) => p \in IdsOf(list) /\ Place(list, p) < Place(list, q)
    IN  phase \in {"reranking", "answered"} /\ wanted.hybrid =>
            /\ IdsOf(fused) \subseteq IdsOf(dense) \cup IdsOf(lexical)
            /\ \A p, q \in IdsOf(fused) :
                   p # q /\ Ahead(dense, p, q) /\ Ahead(lexical, p, q) => Place(fused, p) < Place(fused, q)

\* The candidates are what both searches found, or the dense one alone where the other
\* failed, however they are ranked; one is left out of the answer only for one that
\* repeats it, or because the answer is full.
NothingDropped ==
    phase = "answered" =>
        /\ IdsOf(candidates) = IF wanted.hybrid /\ "hybrid" \notin degraded
                             THEN IdsOf(Fused(dense, LexicalHits(corpus))) ELSE IdsOf(dense)
        /\ \A p \in IdsOf(candidates) \ IdsOf(answer) :
               Len(answer) = TopK \/ \E q \in IdsOf(candidates) \ {p} : Overlapping(p, q)

\* The best candidate opens the answer, or a more specific record of its document that
\* has taken its place, perhaps from one that had taken it before.
BestComesFirst ==
    phase = "answered" /\ candidates # <<>> =>
        /\ answer # <<>>
        /\ \/ answer[1].id = candidates[1].id
           \/ /\ payload[answer[1].id].doc = payload[candidates[1].id].doc
              /\ MoreSpecific(answer[1].id, candidates[1].id)

\* What a retrieval answers, whatever fails, changes or is left out on the way.
RetrievalHolds == RetrievalTypeOK /\ CitesWithinScope /\ FusionIsMonotone /\ NothingDropped /\ BestComesFirst
=============================================================================
