-------------------------------- MODULE Search --------------------------------
(***************************************************************************)
(* GET /memories?q=..., read page after page by one client while others    *)
(* write.  The server keeps nothing between pages: each request reads the  *)
(* nearest memories, then the matching ones, fuses the two rankings and    *)
(* cuts its page from the result (MemoryService.hybridSearch,              *)
(* autoHybridSearch).  Without an embedder only the second read is made    *)
(* (ftsOnlySearch, keywordOnlySearch).  Without a query, GET /memories     *)
(* lists the memories, newest first: one statement counts them, another    *)
(* reads the page (MemoryRepo.List).                                       *)
(*                                                                         *)
(* What the database ranks by is kept as two functions.  near is how close *)
(* a memory is to the query; matching is its full-text score, or, where    *)
(* LIKE or no query at all selects, the second of its updated_at.  Zero is *)
(* a memory that the read leaves out.  Writes change both.  Memories of    *)
(* equal rank are ordinary (BulkCreate stamps a batch with one second) and *)
(* no ORDER BY has a tie-breaker: each statement may return them in        *)
(* another order.                                                          *)
(*                                                                         *)
(* Some definitions are preceded by a variant of themselves with one slip  *)
(* in it.  No action uses them: they show that the properties notice.      *)
(***************************************************************************)
EXTENDS Integers, Sequences, SequencesExt, FiniteSets

CONSTANTS Ids,              \* memories
          MaxRank,          \* bound: how many ranks are told apart
          Nearest, Matches, \* the initial ranks of either read
          Pinnings,         \* which sets of memories may be the pinned ones
          Limit,            \* the page size the client asks for
          MaxWrites         \* bound: writes of other clients

ASSUME SearchAssumption == /\ IsFiniteSet(Ids) /\ Pinnings \subseteq SUBSET Ids
                           /\ Nearest \cup Matches \subseteq [Ids -> 0 .. MaxRank]
                           /\ MaxRank \in Nat
                           /\ Limit \in Nat \ {0} /\ MaxWrites \in Nat

VARIABLES near, matching,   \* the table: what the two reads rank each memory by
          version,          \* how often each memory was written
          writes,           \* how often any was
          pinned,           \* the memories of type pinned
          query,            \* the client asks for something, not for the list
          hybrid,           \* the service has an embedder (or the database embeds)
          fts,              \* the full-text index answers; otherwise LIKE does
          pc,               \* the request: "vectors", "words", "merge", or "count", "list";
                            \* "idle" when answered
          vecResults, kwResults, merged,   \* its locals
          pages, total,     \* what the client was answered, page by page
          eligible,         \* memories that were near or matching since the request began
          excused           \* memories that the pages of a list may have lost

table == <<near, matching, version, writes>>
service == <<pinned, query, hybrid, fts>>
noted == <<eligible, excused>>
vars == <<near, matching, version, writes, pinned, query, hybrid, fts, pc, vecResults,
          kwResults, merged, pages, total, eligible, excused>>

fetchLimit == 3 * Limit
offset == Limit * Len(pages)

(* What a statement finds, and the orders it may return it in.             *)
FoundBy(ranks) == {id \in Ids : ranks[id] > 0}
Orders(ranks) ==
    {order \in SetToSeqs(FoundBy(ranks)) :
        \A i, j \in DOMAIN order : i < j => ranks[order[i]] >= ranks[order[j]]}

(* A row as a read returns it: the copy of the memory, and what its Score  *)
(* field holds.                                                            *)
Row(id, score) == [id |-> id, version |-> version[id], score |-> score]
Rows(order, score) ==
    [i \in 1 .. Min({Len(order), fetchLimit}) |-> Row(order[i], score)]
IdsOf(rows) == {rows[i].id : i \in DOMAIN rows}

-----------------------------------------------------------------------------
(* rrfMerge and applyTypeWeights: 1/(60+rank) from each ranking, times 1.5 *)
(* for a pinned memory.  A score is a fraction of two naturals; both type  *)
(* weights are doubled.                                                    *)
rrfK == 60

ShareUnfelt(rank) == [num |-> 1, den |-> rrfK]
Share(rank) == [num |-> 1, den |-> rrfK + rank]
Plus(x, y) == [num |-> x.num * y.den + y.num * x.den, den |-> x.den * y.den]
AtLeast(x, y) == x.num * y.den >= y.num * x.den

(* Where a read ranks a memory; what it does not find comes after the rest. *)
Rank(rows, id) == IF id \in IdsOf(rows) THEN CHOOSE i \in DOMAIN rows : rows[i].id = id
                  ELSE fetchLimit + 1
InBoth(kw, vec, id) == id \in IdsOf(kw) /\ id \in IdsOf(vec)

FusedByBetter(kw, vec, id) == Share(Min({Rank(kw, id), Rank(vec, id)}))
Fused(kw, vec, id) ==
    CASE InBoth(kw, vec, id) -> Plus(Share(Rank(kw, id)), Share(Rank(vec, id)))
      [] id \notin IdsOf(vec) -> Share(Rank(kw, id))
      [] id \notin IdsOf(kw)  -> Share(Rank(vec, id))

Weight(id) == IF id \in pinned THEN 3 ELSE 2
Score(kw, vec, id) == [Fused(kw, vec, id) EXCEPT !.num = Weight(id) * @]

(* sortByScore: the map is walked in any order and the sort is not stable, *)
(* so memories of equal score come in any order.                           *)
Sorted(kw, vec) ==
    {order \in SetToSeqs(IdsOf(kw) \cup IdsOf(vec)) :
        \A i, j \in DOMAIN order :
            i < j => AtLeast(Score(kw, vec, order[i]), Score(kw, vec, order[j]))}

(* collectMems: of two copies of a memory, the keyword read's.             *)
CollectFirstRead(id) ==
    CHOOSE row \in Range(kwResults) \cup Range(vecResults) :
        row.id = id /\ (id \in IdsOf(vecResults) => row \in Range(vecResults))
Collect(id) ==
    CHOOSE row \in Range(kwResults) \cup Range(vecResults) :
        row.id = id /\ (id \in IdsOf(kwResults) => row \in Range(kwResults))

(* paginate.                                                               *)
PageAfterNext(rows) == SubSeq(rows, offset + 2, Min({offset + Limit + 1, Len(rows)}))
Page(rows) == SubSeq(rows, offset + 1, Min({offset + Limit, Len(rows)}))

(* setScores: a Score the read has set stays.                              *)
Shown(row) == IF row.score = "none" THEN [row EXCEPT !.score = "fused"] ELSE row

-----------------------------------------------------------------------------
Init == /\ near \in Nearest
        /\ matching \in Matches
        /\ version = [id \in Ids |-> 0] /\ writes = 0
        /\ pinned \in Pinnings
        /\ query \in BOOLEAN
        /\ hybrid \in BOOLEAN /\ (hybrid => query) /\ (~hybrid => near = [id \in Ids |-> 0])
        /\ fts \in BOOLEAN /\ (fts => query)
        /\ pc = "idle"
        /\ vecResults = <<>> /\ kwResults = <<>> /\ merged = <<>>
        /\ pages = <<>> /\ total = 0
        /\ eligible = {} /\ excused = {}

(* MemoryService.Search: which read comes first.                           *)
Begin == CASE ~query -> "count"
           [] hybrid -> "vectors"
           [] OTHER  -> "words"

(* listMemories: the client asks for the next page until one comes empty.  *)
AskForPageOnce ==
    /\ pc \in {"idle", "failed"} /\ (pages # <<>> => Last(pages) # <<>>)
    /\ pc' = IF pages # <<>> /\ query THEN "merge" ELSE Begin
    /\ eligible' = FoundBy(near) \cup FoundBy(matching)
    /\ UNCHANGED <<table, service, vecResults, kwResults, merged, pages, total, excused>>
AskForPage ==
    /\ pc \in {"idle", "failed"} /\ (pages # <<>> => Last(pages) # <<>>)
    /\ pc' = Begin
    /\ vecResults' = <<>> /\ kwResults' = <<>>
    /\ eligible' = FoundBy(near) \cup FoundBy(matching)
    /\ UNCHANGED <<table, service, merged, pages, total, excused>>

ReadVectors ==
    /\ pc = "vectors"
    /\ \E order \in Orders(near) : vecResults' = Rows(order, "cosine")
    /\ pc' = "words"
    /\ UNCHANGED <<table, service, kwResults, merged, pages, total, noted>>

(* FTSSearch sets Score, KeywordSearch leaves it nil.                      *)
ReadWords ==
    /\ pc = "words"
    /\ \E order \in Orders(matching) :
          kwResults' = Rows(order, IF fts THEN "bm25" ELSE "none")
    /\ pc' = "merge"
    /\ UNCHANGED <<table, service, vecResults, merged, pages, total, noted>>

Answer(rows) == /\ merged' = rows
                /\ pages' = Append(pages, Page(rows))
                /\ total' = Len(rows)
                /\ pc' = "idle"
                /\ UNCHANGED <<table, service, vecResults, kwResults, noted>>

AnswerHybrid ==
    /\ pc = "merge" /\ hybrid
    /\ \E order \in Sorted(kwResults, vecResults) :
          Answer([i \in DOMAIN order |-> Shown(Collect(order[i]))])

(* One ranking is answered as it was read: no fusing, no type weight, no   *)
(* setScores.                                                              *)
AnswerWords == pc = "merge" /\ ~hybrid /\ Answer(kwResults)

(* MemoryRepo.List: the total is one statement, the page the next.         *)
CountAll ==
    /\ pc = "count"
    /\ total' = Cardinality(FoundBy(matching))
    /\ pc' = "list"
    /\ UNCHANGED <<table, service, vecResults, kwResults, merged, pages, noted>>

ReadPage ==
    /\ pc = "list"
    /\ \E order \in Orders(matching) :
          pages' = Append(pages, Page([i \in DOMAIN order |-> Row(order[i], "none")]))
    /\ excused' = excused \cup {id \in Ids : \E other \in FoundBy(matching) \ {id} :
                                               matching[other] = matching[id]}
    /\ pc' = "idle"
    /\ UNCHANGED <<table, service, vecResults, kwResults, merged, total, eligible>>

(* The embedder or a statement fails: the request does, whatever the other *)
(* read found, and the client asks for the same page again.                *)
Fails == /\ pc \in {"vectors", "words", "count", "list"}
         /\ pc' = "failed"
         /\ UNCHANGED <<table, service, vecResults, kwResults, merged, pages, total, noted>>

(* Another client stores, rewrites, archives or deletes a memory.  In a    *)
(* list a row's second never goes back; a row not listed yet may come with *)
(* any, as a long batch commits after younger writes.                      *)
RelistedAnywhere(id) == 0 .. MaxRank
Relisted(id) == {0} \cup matching[id] .. MaxRank

(* What stands behind a row that leaves the list.                          *)
MovedUp(other, id, rank) == rank = 0 /\ matching[other] < matching[id]

Write(id) ==
    /\ writes < MaxWrites
    /\ writes' = writes + 1
    /\ \E rank \in IF hybrid THEN 0 .. MaxRank ELSE {0} :
          near' = [near EXCEPT ![id] = rank]
    /\ \E rank \in IF query THEN 0 .. MaxRank ELSE Relisted(id) :
          matching' = [matching EXCEPT ![id] = rank]
    /\ version' = [version EXCEPT ![id] = @ + 1]
    /\ eligible' = eligible \cup FoundBy(near') \cup FoundBy(matching')
    /\ excused' = excused \cup
          {other \in Ids : ~query /\ (other = id \/ MovedUp(other, id, matching'[id]))}
    /\ UNCHANGED <<service, pc, vecResults, kwResults, merged, pages, total>>

Next == \/ AskForPage \/ ReadVectors \/ ReadWords \/ AnswerHybrid \/ AnswerWords
        \/ CountAll \/ ReadPage \/ Fails
        \/ \E id \in Ids : Write(id)

Spec == Init /\ [][Next]_vars

-----------------------------------------------------------------------------
(* The variables have their types, and no read returns more than it asked  *)
(* for.                                                                    *)
RowType == [id : Ids, version : 0 .. MaxWrites, score : {"cosine", "bm25", "none", "fused"}]
IsRead(rows) == Range(rows) \subseteq RowType /\ Len(rows) <= fetchLimit

TypeOK ==
    /\ near \in [Ids -> 0 .. MaxRank] /\ matching \in [Ids -> 0 .. MaxRank]
    /\ pinned \cup eligible \cup excused \subseteq Ids
    /\ version \in [Ids -> 0 .. MaxWrites] /\ writes \in 0 .. MaxWrites
    /\ query \in BOOLEAN /\ hybrid \in BOOLEAN /\ fts \in BOOLEAN
    /\ pc \in {"idle", "vectors", "words", "merge", "count", "list", "failed"}
    /\ IsRead(vecResults) /\ IsRead(kwResults)
    /\ Range(merged) \subseteq RowType
    /\ \A p \in Range(pages) : Range(p) \subseteq RowType /\ Len(p) <= Limit
    /\ total \in Nat /\ (query => total <= 2 * fetchLimit)

Answered == pc = "idle" /\ pages # <<>>

(* What is answered first, however long the reads are.  With 60 and 1.5, a *)
(* memory that both reads have among their first 21 comes before any that  *)
(* only one read found; among the first 61, before any such of no heavier  *)
(* type; and a pinned memory among the first 31 of the reads that find it  *)
(* comes before every insight that is found no more often.                 *)
Within(id, n) == \A rows \in {kwResults, vecResults} :
                    id \in IdsOf(rows) => Rank(rows, id) <= n
FoundTwice(id) == InBoth(kwResults, vecResults, id)
Outranks(a, b) ==
    \/ FoundTwice(a) /\ ~FoundTwice(b)
         /\ (Within(a, 21) \/ (Within(a, 61) /\ (b \in pinned => a \in pinned)))
    \/ (FoundTwice(b) => FoundTwice(a))
         /\ Within(a, 31) /\ a \in pinned /\ b \notin pinned

TiersHold ==
    Answered /\ hybrid =>
        \A i, j \in DOMAIN merged : Outranks(merged[i].id, merged[j].id) => i < j

(* A memory that both reads rank at least as high as another comes before  *)
(* it, unless the other is pinned and it is not.                           *)
BetterRankedFirst ==
    Answered /\ hybrid =>
        \A i, j \in DOMAIN merged :
            LET a == merged[i].id  b == merged[j].id IN
            /\ Rank(kwResults, a) <= Rank(kwResults, b)
            /\ Rank(vecResults, a) <= Rank(vecResults, b)
            /\ b \in pinned => a \in pinned
            /\ a # b
            => i < j

(* When nothing is written and nothing ties, neither in a read nor in the  *)
(* fused score, the pages a client reads one by one repeat nothing, and    *)
(* together are everything the two reads find, or the whole list.          *)
Untied(ranks) == \A a, b \in FoundBy(ranks) : ranks[a] = ranks[b] => a = b
Found == IF query THEN IdsOf(kwResults) \cup IdsOf(vecResults) ELSE FoundBy(matching)
Seen == UNION {IdsOf(page) : page \in Range(pages)}
Distinct(kw, vec) ==
    \A a, b \in IdsOf(kw) \cup IdsOf(vec) :
        AtLeast(Score(kw, vec, a), Score(kw, vec, b))
          /\ AtLeast(Score(kw, vec, b), Score(kw, vec, a)) => a = b
PagesPartition ==
    Answered /\ writes = 0 /\ Untied(near) /\ Untied(matching)
      /\ (hybrid => Distinct(kwResults, vecResults)) =>
        /\ \A p, q \in DOMAIN pages :
             \A i \in DOMAIN pages[p], j \in DOMAIN pages[q] :
                pages[p][i].id = pages[q][j].id => p = q /\ i = j
        /\ Last(pages) = <<>> => Seen = Found

(* A list read to its end page by page has shown every memory that nobody  *)
(* wrote, that shared its second with no other when a page was read, and   *)
(* before which none was deleted: what others create and rewrite pushes it *)
(* down or leaves it, so it may be shown twice, never lost.                *)
ListSkipsNone ==
    Answered /\ ~query /\ Last(pages) = <<>> => FoundBy(matching) \ excused \subseteq Seen

(* Without the exception for memories of one second: refuted, a list loses *)
(* some of them even if nobody writes.                                     *)
QuietListIsWhole ==
    Answered /\ ~query /\ Last(pages) = <<>> /\ writes = 0 => FoundBy(matching) \subseteq Seen

(* A memory the two reads saw in different versions is answered in the     *)
(* newer one.                                                              *)
NewestShown ==
    Answered => \A row \in Range(Last(pages)) :
        \A read \in Range(kwResults) \cup (IF hybrid THEN Range(vecResults) ELSE {}) :
            read.id = row.id => read.version <= row.version

(* A page holds only memories that were near or matching at some moment    *)
(* of its own request, however long ago the page before it was read.       *)
NothingStale == Answered => IdsOf(Last(pages)) \subseteq eligible

(* The comment on setScores: a memory that the vector read found is shown  *)
(* with the cosine similarity it found.                                    *)
SimilarityShown ==
    Answered /\ hybrid => \A row \in Range(Last(pages)) :
        row.id \in IdsOf(vecResults) => row.score = "cosine"
=============================================================================
