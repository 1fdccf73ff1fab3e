---------------------------- MODULE Search_proofs ----------------------------
(***************************************************************************)
(* The answers of Search, for every set of memories, every page size and   *)
(* any number of writes between the reads.                                 *)
(*                                                                         *)
(* All of it rests on TypeInv.  What a page shows (Fresh, ReadsOrdered)    *)
(* follows from the order of the reads.  The order of a fused answer       *)
(* (SortedNow) is that of the scores of the rows it was sorted by, which   *)
(* are still there when it is answered; the rest is arithmetic on          *)
(* fractions whose denominators are 60 + rank.  ListKept holds while       *)
(* others write, of every memory that is not excused: the memories above   *)
(* it become more, never fewer, and without a tie it comes right after     *)
(* them in whatever order a statement returns.  InPlace holds while nobody *)
(* writes, and gives each memory of an untied answer one place, the number *)
(* of better ones plus one.                                                *)
(***************************************************************************)
EXTENDS Search, SequenceTheorems, FiniteSetTheorems, TLAPS

-----------------------------------------------------------------------------
(* Sequences                                                               *)

LEMMA MinOfTwo ==
  ASSUME NEW a \in Int, NEW b \in Int
  PROVE  Min({a, b}) = IF a <= b THEN a ELSE b
<1>1. \E x \in {a, b} : \A y \in {a, b} : x <= y
      OBVIOUS
<1> DEFINE m == CHOOSE x \in {a, b} : \A y \in {a, b} : x <= y
<1>2. m \in {a, b} /\ \A y \in {a, b} : m <= y
      BY <1>1
<1> QED  BY <1>2 DEF Min

LEMMA Entries ==
  ASSUME NEW S, NEW s \in Seq(S)
  PROVE  /\ DOMAIN s = 1 .. Len(s)
         /\ Range(s) \subseteq S
         /\ \A x \in Range(s) : \E i \in 1 .. Len(s) : s[i] = x
         /\ \A i \in 1 .. Len(s) : s[i] \in Range(s)
<1>1. DOMAIN s = 1 .. Len(s)
      OBVIOUS
<1>2. \A i \in 1 .. Len(s) : s[i] \in S
      OBVIOUS
<1> QED  BY <1>1, <1>2 DEF Range

-----------------------------------------------------------------------------
(* Types                                                                   *)

Ranks == [Ids -> 0 .. MaxRank]
Read(rows) == rows \in Seq(RowType) /\ Len(rows) <= fetchLimit

\* TypeOK, with what the reads rely on: a list is neither searched nor a search
\* listed.
TypeInv ==
    /\ near \in Ranks /\ matching \in Ranks
    /\ version \in [Ids -> Nat] /\ writes \in 0 .. MaxWrites
    /\ \A id \in Ids : version[id] <= writes
    /\ pinned \subseteq Ids /\ eligible \subseteq Ids /\ excused \subseteq Ids
    /\ query \in BOOLEAN /\ hybrid \in BOOLEAN /\ fts \in BOOLEAN
    /\ hybrid => query
    /\ pc \in {"idle", "vectors", "words", "merge", "count", "list", "failed"}
    /\ query => pc \notin {"count", "list"}
    /\ ~query => pc \notin {"vectors", "words", "merge"}
    /\ Read(vecResults) /\ Read(kwResults) /\ merged \in Seq(RowType)
    /\ pages \in Seq(Seq(RowType))
    /\ \A p \in 1 .. Len(pages) : Len(pages[p]) <= Limit
    /\ total \in Nat /\ (query => total <= 2 * fetchLimit)

LEMMA LimitNat == Limit \in Nat /\ Limit > 0 /\ fetchLimit \in Nat /\ MaxWrites \in Nat
  BY SearchAssumption DEF fetchLimit

LEMMA EntriesOfRows ==
  ASSUME NEW rows \in Seq(RowType)
  PROVE  /\ IdsOf(rows) = {rows[i].id : i \in 1 .. Len(rows)}
         /\ IdsOf(rows) \subseteq Ids
         /\ \A i \in 1 .. Len(rows) : rows[i] \in RowType /\ rows[i].id \in IdsOf(rows)
<1>1. DOMAIN rows = 1 .. Len(rows)
      OBVIOUS
<1>2. \A i \in 1 .. Len(rows) : rows[i] \in RowType
      OBVIOUS
<1>3. \A i \in 1 .. Len(rows) : rows[i].id \in Ids
      BY <1>2 DEF RowType
<1> QED  BY <1>1, <1>2, <1>3 DEF IdsOf

\* Whatever order a statement returns its rows in, each memory it finds is there
\* once, and none comes before one of a higher rank.
LEMMA Returned ==
  ASSUME NEW f \in Ranks, NEW order \in Orders(f)
  PROVE  /\ order \in Seq(Ids) /\ IsInjective(order)
         /\ Range(order) = FoundBy(f)
         /\ Len(order) = Cardinality(FoundBy(f))
         /\ \A i \in 1 .. Len(order) : order[i] \in FoundBy(f)
         /\ \A x \in FoundBy(f) : \E i \in 1 .. Len(order) : order[i] = x
         /\ \A i, j \in 1 .. Len(order) : order[i] = order[j] => i = j
         /\ \A i, j \in 1 .. Len(order) : i < j => f[order[i]] >= f[order[j]]
<1> DEFINE F == FoundBy(f)
           n == Cardinality(F)
<1>1. F \subseteq Ids
      BY DEF FoundBy
<1>2. IsFiniteSet(F) /\ n \in Nat
      BY <1>1, SearchAssumption, FS_Subset, FS_CardinalityType
<1>3. /\ order \in [1 .. n -> F]
      /\ \A i, j \in 1 .. n : i # j => order[i] # order[j]
      /\ \A i, j \in DOMAIN order : i < j => f[order[i]] >= f[order[j]]
      BY Zenon DEF Orders, SetToSeqs
<1> HIDE DEF F, n
<1>4. order \in Seq(F) /\ Len(order) = n /\ order \in Seq(Ids) /\ DOMAIN order = 1 .. n
      BY <1>1, <1>2, <1>3
<1>5. IsInjective(order) /\ order \in Injection(1 .. n, F)
      BY <1>3 DEF Injection, IsInjective
<1>6. order \in Surjection(1 .. n, F)
  <2>1. Cardinality(1 .. n) = n
        BY <1>2, FS_Interval
  <2> QED  BY <1>2, <1>5, <2>1, FS_Injection DEF n
<1>7. Range(order) = F
      BY <1>3, <1>6 DEF Surjection, Range
<1>8. /\ \A i \in 1 .. n : order[i] \in F
      /\ \A x \in F : \E i \in 1 .. n : order[i] = x
      BY <1>3, <1>6 DEF Surjection
<1>9. \A i, j \in 1 .. n : order[i] = order[j] => i = j
      BY <1>3
<1> QED  BY <1>3, <1>4, <1>5, <1>7, <1>8, <1>9 DEF F, n

\* A read holds the first memories of an order as they are, each once.
LEMMA RowsRead ==
  ASSUME TypeInv, NEW r \in Seq(Ids), IsInjective(r),
         NEW score \in {"cosine", "bm25", "none"}
  PROVE  /\ Read(Rows(r, score))
         /\ \A i \in 1 .. Len(Rows(r, score)) :
              i \in 1 .. Len(r) /\ Rows(r, score)[i] = Row(r[i], score)
         /\ Len(Rows(r, score)) =
              IF Len(r) <= fetchLimit THEN Len(r) ELSE fetchLimit
<1> DEFINE n == IF Len(r) <= fetchLimit THEN Len(r) ELSE fetchLimit
<1>1. /\ Len(r) \in Nat /\ fetchLimit \in Nat /\ n \in Nat /\ n <= fetchLimit
      /\ n <= Len(r)
      BY LimitNat
<1>2. Min({Len(r), fetchLimit}) = n
      BY <1>1, MinOfTwo
<1> HIDE DEF n
<1>3. \A i \in 1 .. n : i \in 1 .. Len(r) /\ r[i] \in Ids
      BY <1>1
<1>4. \A i \in 1 .. n : Row(r[i], score) \in RowType
      BY <1>3, LimitNat DEF Row, RowType, TypeInv
<1>5. Rows(r, score) = [i \in 1 .. n |-> Row(r[i], score)]
      BY <1>2 DEF Rows
<1>6. Rows(r, score) \in Seq(RowType) /\ Len(Rows(r, score)) = n
      BY <1>1, <1>4, <1>5
<1> QED  BY <1>1, <1>3, <1>5, <1>6 DEF Read, n

\* A page is the part of a result from one place on.
Cut(rows, o) == SubSeq(rows, o + 1, Min({o + Limit, Len(rows)}))
IsCut(page, rows, o) ==
    /\ page \in Seq(RowType) /\ Len(page) <= Limit
    /\ \A i \in 1 .. Len(page) : o + i \in 1 .. Len(rows) /\ page[i] = rows[o + i]
    /\ \A k \in 1 .. Len(rows) : k > o /\ k <= o + Limit =>
         k - o \in 1 .. Len(page) /\ page[k - o] = rows[k]

LEMMA CutPage ==
  ASSUME NEW rows \in Seq(RowType), NEW o \in Nat
  PROVE  IsCut(Cut(rows, o), rows, o)
<1> DEFINE page == Cut(rows, o)
           n == IF o + Limit <= Len(rows) THEN o + Limit ELSE Len(rows)
<1>1. /\ Limit \in Nat /\ Limit > 0 /\ Len(rows) \in Nat /\ n \in Nat
      /\ n <= o + Limit /\ n <= Len(rows)
      BY LimitNat
<1>2. page = SubSeq(rows, o + 1, n)
  <2>1. Min({o + Limit, Len(rows)}) = n
        BY <1>1, MinOfTwo
  <2> QED  BY <2>1, Zenon DEF Cut
<1>n. \A k \in 1 .. Len(rows) : k <= o + Limit => k <= n
      BY <1>1
<1> HIDE DEF n, page
<1>3. \A i \in o + 1 .. n : rows[i] \in RowType
      BY <1>1
<1>4. /\ page \in Seq(RowType)
      /\ Len(page) = IF o + 1 <= n THEN n - (o + 1) + 1 ELSE 0
      /\ \A i \in 1 .. n - (o + 1) + 1 : page[i] = rows[o + 1 + i - 1]
  <2>1. o + 1 \in Int /\ n \in Int
        BY <1>1
  <2>2. /\ SubSeq(rows, o + 1, n) \in Seq(RowType)
        /\ Len(SubSeq(rows, o + 1, n)) = IF o + 1 <= n THEN n - (o + 1) + 1 ELSE 0
        /\ \A i \in 1 .. n - (o + 1) + 1 :
             SubSeq(rows, o + 1, n)[i] = rows[o + 1 + i - 1]
        BY <1>3, <2>1, SubSeqProperties
  <2> QED  BY <1>2, <2>2, Zenon
<1>5. Len(page) <= Limit
      BY <1>1, <1>4
<1>6. ASSUME NEW i \in 1 .. Len(page)
      PROVE  o + i \in 1 .. Len(rows) /\ page[i] = rows[o + i]
  <2>1. o + 1 <= n /\ i \in 1 .. n - (o + 1) + 1 /\ o + 1 + i - 1 = o + i
        BY <1>1, <1>4
  <2> QED  BY <1>1, <1>4, <2>1
<1>7. ASSUME NEW k \in 1 .. Len(rows), k > o, k <= o + Limit
      PROVE  k - o \in 1 .. Len(page) /\ page[k - o] = rows[k]
  <2>1. k <= n /\ o + 1 <= n
        BY <1>1, <1>7, <1>n
  <2>2. k - o \in 1 .. n - (o + 1) + 1 /\ o + 1 + (k - o) - 1 = k
        BY <1>1, <1>7, <2>1
  <2>3. page[k - o] = rows[k]
        BY <1>4, <2>2
  <2> QED  BY <1>1, <1>4, <2>1, <2>2, <2>3
<1> QED  BY <1>4, <1>5, <1>6, <1>7 DEF IsCut, page

\* Where a row of an answer comes from.
LEMMA CollectRow ==
  ASSUME TypeInv, NEW id \in IdsOf(kwResults) \cup IdsOf(vecResults)
  PROVE  /\ Collect(id) \in Range(kwResults) \cup Range(vecResults)
         /\ Collect(id).id = id /\ Collect(id) \in RowType
         /\ id \in IdsOf(kwResults) => Collect(id) \in Range(kwResults)
<1>1. /\ kwResults \in Seq(RowType) /\ vecResults \in Seq(RowType)
      BY DEF TypeInv, Read
<1>2. /\ Range(kwResults) \subseteq RowType /\ Range(vecResults) \subseteq RowType
      /\ \A i \in 1 .. Len(kwResults) : kwResults[i] \in Range(kwResults)
      /\ \A i \in 1 .. Len(vecResults) : vecResults[i] \in Range(vecResults)
      BY <1>1, Entries
<1>3. \E row \in Range(kwResults) \cup Range(vecResults) :
        row.id = id /\ (id \in IdsOf(kwResults) => row \in Range(kwResults))
  <2>1. CASE id \in IdsOf(kwResults)
    <3>1. PICK i \in 1 .. Len(kwResults) : kwResults[i].id = id
          BY <1>1, <2>1, EntriesOfRows
    <3> QED  BY <1>2, <3>1
  <2>2. CASE id \notin IdsOf(kwResults)
    <3>1. PICK i \in 1 .. Len(vecResults) : vecResults[i].id = id
          BY <1>1, <2>2, EntriesOfRows
    <3> QED  BY <1>2, <2>2, <3>1
  <2> QED  BY <2>1, <2>2
<1>4. /\ Collect(id) \in Range(kwResults) \cup Range(vecResults)
      /\ Collect(id).id = id
      /\ id \in IdsOf(kwResults) => Collect(id) \in Range(kwResults)
      BY <1>3, Zenon DEF Collect
<1> QED  BY <1>2, <1>4

LEMMA FoundFinite ==
  ASSUME NEW rows \in Seq(RowType)
  PROVE  IsFiniteSet(IdsOf(rows)) /\ Cardinality(IdsOf(rows)) <= Len(rows)
<1> DEFINE f == [i \in 1 .. Len(rows) |-> rows[i].id]
<1>1. f \in Surjection(1 .. Len(rows), IdsOf(rows))
      BY EntriesOfRows DEF Surjection
<1>2. /\ IsFiniteSet(1 .. Len(rows))
      /\ Cardinality(1 .. Len(rows)) = Len(rows)
  <2>1. Len(rows) \in Nat /\ Len(rows) \in Int /\ 1 \in Int
        OBVIOUS
  <2> QED  BY <2>1, FS_Interval
<1> HIDE DEF f
<1> QED  BY <1>1, <1>2, FS_Surjection

\* The merged ranking holds every memory that was found, once.
LEMMA OrderFacts ==
  ASSUME TypeInv, NEW order \in Sorted(kwResults, vecResults)
  PROVE  /\ order \in Seq(Ids) /\ IsInjective(order)
         /\ Range(order) = IdsOf(kwResults) \cup IdsOf(vecResults)
         /\ Len(order) = Cardinality(IdsOf(kwResults) \cup IdsOf(vecResults))
         /\ Len(order) <= 2 * fetchLimit
         /\ \A i, j \in 1 .. Len(order) : i < j =>
              AtLeast(Score(kwResults, vecResults, order[i]),
                      Score(kwResults, vecResults, order[j]))
<1> DEFINE K == IdsOf(kwResults)
           V == IdsOf(vecResults)
           n == Cardinality(K \cup V)
<1>1. /\ kwResults \in Seq(RowType) /\ vecResults \in Seq(RowType)
      /\ Len(kwResults) <= fetchLimit /\ Len(vecResults) <= fetchLimit
      /\ Len(kwResults) \in Nat /\ Len(vecResults) \in Nat /\ fetchLimit \in Nat
      BY LimitNat DEF TypeInv, Read
<1>2. K \subseteq Ids /\ V \subseteq Ids
      BY <1>1, EntriesOfRows
<1>3. /\ IsFiniteSet(K) /\ Cardinality(K) <= fetchLimit /\ Cardinality(K) \in Nat
      /\ IsFiniteSet(V) /\ Cardinality(V) <= fetchLimit /\ Cardinality(V) \in Nat
  <2>1. /\ IsFiniteSet(K) /\ Cardinality(K) <= Len(kwResults)
        /\ IsFiniteSet(V) /\ Cardinality(V) <= Len(vecResults)
        BY <1>1, FoundFinite
  <2>2. Cardinality(K) \in Nat /\ Cardinality(V) \in Nat
        BY <2>1, FS_CardinalityType
  <2> QED  BY <1>1, <2>1, <2>2
<1>4. IsFiniteSet(K \cup V) /\ n \in Nat /\ n <= 2 * fetchLimit
  <2>1. IsFiniteSet(K \cup V) /\ n = Cardinality(K) + Cardinality(V) - Cardinality(K \cap V)
        BY <1>3, FS_Union
  <2>2. IsFiniteSet(K \cap V)
        BY <1>3, FS_Subset
  <2>3. Cardinality(K \cap V) \in Nat /\ n \in Nat
        BY <2>1, <2>2, FS_CardinalityType
  <2> QED  BY <1>1, <1>3, <2>1, <2>3
<1>5. /\ order \in [1 .. n -> K \cup V]
      /\ \A i, j \in 1 .. n : i # j => order[i] # order[j]
      /\ \A i, j \in DOMAIN order : i < j =>
           AtLeast(Score(kwResults, vecResults, order[i]),
                   Score(kwResults, vecResults, order[j]))
      BY Zenon DEF Sorted, SetToSeqs
<1> HIDE DEF K, V, n
<1>6. order \in Seq(K \cup V) /\ Len(order) = n /\ order \in Seq(Ids)
      BY <1>2, <1>4, <1>5
<1>7. IsInjective(order) /\ order \in Injection(1 .. n, K \cup V)
      BY <1>5 DEF Injection, IsInjective
<1>8. order \in Surjection(1 .. n, K \cup V)
  <2>1. Cardinality(1 .. n) = n
        BY <1>4, FS_Interval
  <2> QED  BY <1>4, <1>7, <2>1, FS_Injection DEF n
<1>9. Range(order) = K \cup V
      BY <1>5, <1>8 DEF Surjection, Range
<1> QED  BY <1>4, <1>5, <1>6, <1>7, <1>9 DEF K, V, n

Ordered(order) == [i \in DOMAIN order |-> Shown(Collect(order[i]))]

LEMMA ShownRow ==
  ASSUME NEW row \in RowType
  PROVE  /\ Shown(row) \in RowType /\ Shown(row).id = row.id
         /\ Shown(row).version = row.version
  BY DEF Shown, RowType

LEMMA OrderedRows ==
  ASSUME TypeInv, NEW order \in Sorted(kwResults, vecResults)
  PROVE  /\ Ordered(order) \in Seq(RowType)
         /\ Len(Ordered(order)) = Len(order)
         /\ \A i \in 1 .. Len(order) :
              /\ Ordered(order)[i].id = order[i]
              /\ Ordered(order)[i].version = Collect(order[i]).version
<1>1. /\ DOMAIN order = 1 .. Len(order) /\ Len(order) \in Nat
      /\ \A i \in 1 .. Len(order) : order[i] \in IdsOf(kwResults) \cup IdsOf(vecResults)
  <2>1. order \in Seq(Ids) /\ Range(order) = IdsOf(kwResults) \cup IdsOf(vecResults)
        BY OrderFacts
  <2> QED  BY <2>1, Entries
<1>2. ASSUME NEW i \in 1 .. Len(order)
      PROVE  /\ Shown(Collect(order[i])) \in RowType
             /\ Shown(Collect(order[i])).id = order[i]
             /\ Shown(Collect(order[i])).version = Collect(order[i]).version
  <2>1. Collect(order[i]) \in RowType /\ Collect(order[i]).id = order[i]
        BY <1>1, CollectRow
  <2> QED  BY <2>1, ShownRow
<1>3. Ordered(order) = [i \in 1 .. Len(order) |-> Shown(Collect(order[i]))]
      BY <1>1 DEF Ordered
<1> QED  BY <1>1, <1>2, <1>3

LEMMA WriteType == ASSUME TypeInv, NEW id \in Ids, Write(id) PROVE TypeInv'
<1>1. near' \in Ranks /\ matching' \in Ranks
  <2>1. /\ near \in Ranks /\ matching \in Ranks /\ MaxRank \in Nat
        BY SearchAssumption DEF TypeInv
  <2>2. PICK a \in 0 .. MaxRank : near' = [near EXCEPT ![id] = a]
    <3>1. 0 \in 0 .. MaxRank
          BY <2>1
    <3> QED  BY <3>1 DEF Write
  <2>3. PICK b \in 0 .. MaxRank : matching' = [matching EXCEPT ![id] = b]
    <3>1. Relisted(id) \subseteq 0 .. MaxRank
      <4>1. matching[id] \in 0 .. MaxRank
            BY <2>1 DEF Ranks
      <4> QED  BY <2>1, <4>1 DEF Relisted
    <3> QED  BY <3>1 DEF Write
  <2> QED  BY <2>1, <2>2, <2>3 DEF Ranks
<1>2. /\ version' \in [Ids -> Nat] /\ writes' \in 0 .. MaxWrites
      /\ \A x \in Ids : version'[x] <= writes'
  <2>1. writes \in Nat /\ version \in [Ids -> Nat] /\ \A x \in Ids : version[x] <= writes
        BY LimitNat DEF TypeInv
  <2>2. writes < MaxWrites /\ writes' = writes + 1 /\ MaxWrites \in Nat
        BY LimitNat DEF Write
  <2>3. /\ version' = [version EXCEPT ![id] = @ + 1]
        BY DEF Write
  <2>4. version' \in [Ids -> Nat]
        BY <2>1, <2>3
  <2>5. ASSUME NEW x \in Ids PROVE version'[x] <= writes'
    <3>1. version'[x] = version[x] \/ version'[x] = version[x] + 1
          BY <2>1, <2>3
    <3>2. version[x] \in Nat /\ version[x] <= writes
          BY <2>1
    <3> QED  BY <2>1, <2>2, <3>1, <3>2
  <2> QED  BY <2>1, <2>2, <2>4, <2>5
<1>3. eligible' \subseteq Ids /\ excused' \subseteq Ids
      BY DEF Write, TypeInv, FoundBy
<1>4. UNCHANGED <<service, pc, vecResults, kwResults, merged, pages, total>>
      BY DEF Write
<1> QED  BY <1>1, <1>2, <1>3, <1>4 DEF TypeInv, service

LEMMA NoRows == <<>> \in Seq(RowType) /\ Len(<<>>) = 0 /\ Read(<<>>)
  BY LimitNat DEF Read

LEMMA AppendPage ==
  ASSUME pages \in Seq(Seq(RowType)), NEW page \in Seq(RowType),
         \A p \in 1 .. Len(pages) : Len(pages[p]) <= Limit, Len(page) <= Limit,
         NEW more, more = Append(pages, page)
  PROVE  /\ more \in Seq(Seq(RowType)) /\ Len(more) = Len(pages) + 1
         /\ \A p \in 1 .. Len(pages) : more[p] = pages[p]
         /\ more[Len(pages) + 1] = page
         /\ more # <<>> /\ Last(more) = page
         /\ \A p \in 1 .. Len(more) : Len(more[p]) <= Limit
  BY DEF Last

LEMMA OffsetNat == ASSUME TypeInv PROVE offset \in Nat
<1>1. Len(pages) \in Nat
      BY DEF TypeInv
<1> QED  BY <1>1, LimitNat DEF offset

\* What answering a result does.
LEMMA AnswerEffect ==
  ASSUME TypeInv, NEW rows \in Seq(RowType)
  PROVE  IsCut(Page(rows), rows, offset)
<1>1. Page(rows) = Cut(rows, offset)
      BY Zenon DEF Page, Cut
<1>2. IsCut(Cut(rows, offset), rows, offset)
      BY OffsetNat, CutPage
<1> QED  BY <1>1, <1>2, Zenon

LEMMA AnswerType ==
  ASSUME TypeInv, NEW rows \in Seq(RowType), Len(rows) <= 2 * fetchLimit,
         query, Answer(rows)
  PROVE  TypeInv'
<1>1. Page(rows) \in Seq(RowType) /\ Len(Page(rows)) <= Limit
      BY AnswerEffect DEF IsCut
<1>2. /\ pages \in Seq(Seq(RowType))
      /\ \A p \in 1 .. Len(pages) : Len(pages[p]) <= Limit
      /\ pages' = Append(pages, Page(rows))
      BY DEF TypeInv, Answer
<1>3. /\ pages' \in Seq(Seq(RowType))
      /\ \A p \in 1 .. Len(pages') : Len(pages'[p]) <= Limit
      BY <1>1, <1>2, AppendPage
<1>4. /\ merged' = rows /\ total' = Len(rows) /\ pc' = "idle"
      /\ UNCHANGED <<table, service, vecResults, kwResults, noted>>
      BY DEF Answer
<1>5. Len(rows) \in Nat
      OBVIOUS
<1> QED  BY <1>3, <1>4, <1>5 DEF TypeInv, table, service, noted

LEMMA HybridAnswer ==
  ASSUME TypeInv, NEW order \in Sorted(kwResults, vecResults)
  PROVE  Ordered(order) \in Seq(RowType) /\ Len(Ordered(order)) <= 2 * fetchLimit
  BY OrderFacts, OrderedRows

\* What the list reads.
Listed(order) == [i \in DOMAIN order |-> Row(order[i], "none")]

LEMMA ListedRows ==
  ASSUME TypeInv, NEW order \in Orders(matching)
  PROVE  /\ Listed(order) \in Seq(RowType) /\ Len(Listed(order)) = Len(order)
         /\ \A i \in 1 .. Len(order) : Listed(order)[i].id = order[i]
<1>1. /\ DOMAIN order = 1 .. Len(order) /\ Len(order) \in Nat
      /\ \A i \in 1 .. Len(order) : order[i] \in Ids
  <2>1. order \in Seq(Ids)
        BY Returned DEF TypeInv
  <2> QED  BY <2>1
<1>2. \A i \in 1 .. Len(order) : Row(order[i], "none") \in RowType
      BY <1>1, LimitNat DEF Row, RowType, TypeInv
<1>3. Listed(order) = [i \in 1 .. Len(order) |-> Row(order[i], "none")]
      BY <1>1 DEF Listed
<1> QED  BY <1>1, <1>2, <1>3 DEF Row

\* Memories of one second.
Tied == {id \in Ids : \E other \in FoundBy(matching) \ {id} :
                           matching[other] = matching[id]}

LEMMA ReadPageEffect ==
  ASSUME TypeInv, ReadPage
  PROVE  /\ \E order \in Orders(matching) : pages' = Append(pages, Page(Listed(order)))
         /\ pc' = "idle" /\ eligible' = eligible /\ excused' = excused \cup Tied
         /\ UNCHANGED <<table, service, vecResults, kwResults, merged, total>>
  BY DEF ReadPage, Listed, Tied

LEMMA InitTypes == Init => TypeInv
<1> SUFFICES ASSUME Init PROVE TypeInv
    OBVIOUS
<1>1. near \in Ranks /\ matching \in Ranks
      BY SearchAssumption DEF Init, Ranks
<1>3. pinned \subseteq Ids
      BY SearchAssumption DEF Init
<1>4. /\ pages \in Seq(Seq(RowType)) /\ Len(pages) = 0 /\ merged \in Seq(RowType)
      /\ Read(vecResults) /\ Read(kwResults)
      BY NoRows DEF Init
<1>5. version \in [Ids -> Nat] /\ writes \in 0 .. MaxWrites
        /\ \A id \in Ids : version[id] <= writes
      BY LimitNat DEF Init
<1> QED  BY <1>1, <1>3, <1>4, <1>5, LimitNat DEF Init, TypeInv

LEMMA StepTypes == TypeInv /\ [Next]_vars => TypeInv'
<1> SUFFICES ASSUME TypeInv, [Next]_vars PROVE TypeInv'
    OBVIOUS
<1>1. CASE AskForPage
  <2>1. /\ pc' = Begin /\ vecResults' = <<>> /\ kwResults' = <<>>
        /\ eligible' = FoundBy(near) \cup FoundBy(matching)
        /\ UNCHANGED <<table, service, merged, pages, total, excused>>
        BY <1>1 DEF AskForPage
  <2>2. FoundBy(near) \subseteq Ids /\ FoundBy(matching) \subseteq Ids
        BY DEF FoundBy
  <2>3. /\ Begin \in {"vectors", "words", "count"}
        /\ query => Begin # "count"
        /\ ~query => Begin = "count"
        BY DEF Begin, TypeInv
  <2> QED  BY <2>1, <2>2, <2>3, NoRows DEF TypeInv, table, service
<1>2. CASE ReadVectors
  <2>1. PICK order \in Orders(near) : vecResults' = Rows(order, "cosine")
        BY <1>2 DEF ReadVectors
  <2>2. order \in Seq(Ids) /\ IsInjective(order)
        BY Returned DEF TypeInv
  <2>3. Read(Rows(order, "cosine"))
        BY <2>2, RowsRead
  <2> QED  BY <1>2, <2>1, <2>3 DEF ReadVectors, TypeInv, table, service, noted
<1>3. CASE ReadWords
  <2> DEFINE score == IF fts THEN "bm25" ELSE "none"
  <2>1. PICK order \in Orders(matching) : kwResults' = Rows(order, score)
        BY <1>3 DEF ReadWords
  <2>2. order \in Seq(Ids) /\ IsInjective(order)
        BY Returned DEF TypeInv
  <2>3. Read(Rows(order, score))
        BY <2>2, RowsRead
  <2> HIDE DEF score
  <2> QED  BY <1>3, <2>1, <2>3 DEF ReadWords, TypeInv, table, service, noted
<1>4. CASE AnswerHybrid
  <2>1. PICK order \in Sorted(kwResults, vecResults) : Answer(Ordered(order))
        BY <1>4 DEF AnswerHybrid, Ordered
  <2>2. query
        BY <1>4 DEF AnswerHybrid, TypeInv
  <2> QED  BY <2>1, <2>2, HybridAnswer, AnswerType
<1>5. CASE AnswerWords
  <2>1. /\ query /\ kwResults \in Seq(RowType) /\ Len(kwResults) \in Nat
        /\ Len(kwResults) <= fetchLimit /\ Answer(kwResults)
        BY <1>5 DEF AnswerWords, TypeInv, Read
  <2>2. Len(kwResults) <= 2 * fetchLimit
        BY <2>1, LimitNat
  <2> QED  BY <2>1, <2>2, AnswerType
<1>6. CASE CountAll
  <2>1. FoundBy(matching) \subseteq Ids
        BY DEF FoundBy
  <2>2. Cardinality(FoundBy(matching)) \in Nat
        BY <2>1, SearchAssumption, FS_Subset, FS_CardinalityType
  <2>3. ~query
        BY <1>6 DEF CountAll, TypeInv
  <2> QED  BY <1>6, <2>2, <2>3 DEF CountAll, TypeInv, table, service, noted
<1>7. CASE ReadPage
  <2>1. PICK order \in Orders(matching) : pages' = Append(pages, Page(Listed(order)))
        BY <1>7, ReadPageEffect
  <2>2. /\ Page(Listed(order)) \in Seq(RowType) /\ Len(Page(Listed(order))) <= Limit
        BY ListedRows, AnswerEffect DEF IsCut
  <2>3. /\ pages \in Seq(Seq(RowType))
        /\ \A p \in 1 .. Len(pages) : Len(pages[p]) <= Limit
        BY DEF TypeInv
  <2>4. /\ pages' \in Seq(Seq(RowType))
        /\ \A p \in 1 .. Len(pages') : Len(pages'[p]) <= Limit
        BY <2>1, <2>2, <2>3, AppendPage
  <2>5. /\ pc' = "idle" /\ eligible' = eligible /\ excused' = excused \cup Tied
        /\ UNCHANGED <<table, service, vecResults, kwResults, merged, total>>
        BY <1>7, ReadPageEffect
  <2> QED  BY <2>4, <2>5 DEF TypeInv, table, service, Tied
<1>8. CASE Fails
      BY <1>8 DEF Fails, TypeInv, table, service, noted
<1>9. CASE \E id \in Ids : Write(id)
      BY <1>9, WriteType
<1>10. CASE UNCHANGED vars
      BY <1>10 DEF vars, TypeInv
<1> QED  BY <1>1, <1>2, <1>3, <1>4, <1>5, <1>6, <1>7, <1>8, <1>9, <1>10 DEF Next

LEMMA TypesAlways == Spec => []TypeInv
<1>1. TypeInv /\ [Next]_vars => TypeInv'
      BY StepTypes
<1> QED  BY <1>1, InitTypes, PTL DEF Spec

\* Every variable keeps its type: no read returns more than it asked for, no
\* page is longer than the client asked for, and a search counts no more than
\* its reads can find, whatever their overlap.
THEOREM SearchTypes == Spec => []TypeOK
<1>1. TypeInv => TypeOK
  <2> SUFFICES ASSUME TypeInv PROVE TypeOK
      OBVIOUS
  <2>1. near \in [Ids -> 0 .. MaxRank] /\ matching \in [Ids -> 0 .. MaxRank]
        BY DEF TypeInv, Ranks
  <2>2. version \in [Ids -> 0 .. MaxWrites]
        BY LimitNat DEF TypeInv
  <2>3. IsRead(vecResults) /\ IsRead(kwResults) /\ Range(merged) \subseteq RowType
        BY Entries DEF TypeInv, Read, IsRead
  <2>4. ASSUME NEW page \in Range(pages)
        PROVE  Range(page) \subseteq RowType /\ Len(page) <= Limit
    <3>1. PICK p \in 1 .. Len(pages) : page = pages[p]
          BY Entries DEF TypeInv
    <3>2. page \in Seq(RowType)
          BY <3>1 DEF TypeInv
    <3> QED  BY <3>1, <3>2, Entries DEF TypeInv
  <2> QED  BY <2>1, <2>2, <2>3, <2>4 DEF TypeInv, TypeOK
<1> QED  BY <1>1, TypesAlways, PTL

-----------------------------------------------------------------------------
(* What a page shows                                                       *)

\* The rows of a page are rows of the result it is cut from.
LEMMA PageRows ==
  ASSUME NEW rows \in Seq(RowType), NEW o \in Nat, NEW page, IsCut(page, rows, o)
  PROVE  Range(page) \subseteq Range(rows) /\ IdsOf(page) \subseteq IdsOf(rows)
<1>1. /\ page \in Seq(RowType)
      /\ \A i \in 1 .. Len(page) : o + i \in 1 .. Len(rows) /\ page[i] = rows[o + i]
      BY DEF IsCut
<1>2. ASSUME NEW row \in Range(page) PROVE row \in Range(rows)
  <2>1. PICK i \in 1 .. Len(page) : page[i] = row
        BY <1>1, Entries
  <2> QED  BY <1>1, <2>1, Entries
<1>3. ASSUME NEW id \in IdsOf(page) PROVE id \in IdsOf(rows)
  <2>1. PICK i \in 1 .. Len(page) : page[i].id = id
        BY <1>1, EntriesOfRows
  <2> QED  BY <1>1, <2>1, EntriesOfRows
<1> QED  BY <1>2, <1>3

LEMMA RowIds ==
  ASSUME NEW rows \in Seq(RowType)
  PROVE  /\ \A row \in Range(rows) : row.id \in IdsOf(rows) /\ row \in RowType
         /\ \A id \in IdsOf(rows) : \E row \in Range(rows) : row.id = id
<1>1. ASSUME NEW row \in Range(rows) PROVE row.id \in IdsOf(rows) /\ row \in RowType
  <2>1. PICK i \in 1 .. Len(rows) : rows[i] = row
        BY Entries
  <2> QED  BY <2>1, EntriesOfRows
<1>2. ASSUME NEW id \in IdsOf(rows) PROVE \E row \in Range(rows) : row.id = id
  <2>1. PICK i \in 1 .. Len(rows) : rows[i].id = id
        BY EntriesOfRows
  <2> QED  BY <2>1, Entries
<1> QED  BY <1>1, <1>2

\* The rows of a read are what the ranking holds now.
LEMMA ReadRows ==
  ASSUME TypeInv, NEW r \in Seq(Ids), IsInjective(r),
         NEW score \in {"cosine", "bm25", "none"}
  PROVE  \A row \in Range(Rows(r, score)) :
            row.id \in Range(r) /\ row.id \in Ids /\ row.version = version[row.id]
<1> SUFFICES ASSUME NEW row \in Range(Rows(r, score))
             PROVE  row.id \in Range(r) /\ row.id \in Ids
                      /\ row.version = version[row.id]
    OBVIOUS
<1>1. Rows(r, score) \in Seq(RowType)
      BY RowsRead DEF Read
<1>2. PICK i \in 1 .. Len(Rows(r, score)) : Rows(r, score)[i] = row
      BY <1>1, Entries
<1>3. i \in 1 .. Len(r) /\ row = Row(r[i], score)
      BY <1>2, RowsRead
<1> QED  BY <1>3, Entries DEF Row

\* While a request is under way, what it may answer is eligible.
Fresh ==
    /\ pc \notin {"idle", "failed"} =>
         /\ FoundBy(near) \cup FoundBy(matching) \subseteq eligible
         /\ IdsOf(vecResults) \cup IdsOf(kwResults) \subseteq eligible
    /\ NothingStale

LEMMA NothingFound == IdsOf(<<>>) = {} /\ Range(<<>>) = {}
  BY DEF IdsOf, Range

LEMMA ReadIds ==
  ASSUME TypeInv, NEW r \in Seq(Ids), IsInjective(r),
         NEW score \in {"cosine", "bm25", "none"}
  PROVE  IdsOf(Rows(r, score)) \subseteq Range(r)
<1>1. Rows(r, score) \in Seq(RowType)
      BY RowsRead DEF Read
<1> QED  BY <1>1, ReadRows, RowIds

\* What a statement read of the table, whatever the order.
LEMMA StatementRead ==
  ASSUME TypeInv, NEW f \in Ranks, NEW order \in Orders(f),
         NEW score \in {"cosine", "bm25", "none"}
  PROVE  /\ Read(Rows(order, score)) /\ IdsOf(Rows(order, score)) \subseteq FoundBy(f)
         /\ \A row \in Range(Rows(order, score)) :
               row.id \in Ids /\ row.version = version[row.id]
<1>1. order \in Seq(Ids) /\ IsInjective(order) /\ Range(order) = FoundBy(f)
      BY Returned
<1>2. Read(Rows(order, score))
      BY <1>1, RowsRead
<1>3. IdsOf(Rows(order, score)) \subseteq Range(order)
      BY <1>1, ReadIds
<1>4. \A row \in Range(Rows(order, score)) :
               row.id \in Ids /\ row.version = version[row.id]
      BY <1>1, ReadRows
<1> QED  BY <1>1, <1>2, <1>3, <1>4

LEMMA VectorsRead ==
  ASSUME TypeInv, ReadVectors
  PROVE  /\ Read(vecResults') /\ IdsOf(vecResults') \subseteq FoundBy(near)
         /\ \A row \in Range(vecResults') : row.id \in Ids /\ row.version = version[row.id]
<1>1. PICK order \in Orders(near) : vecResults' = Rows(order, "cosine")
      BY DEF ReadVectors
<1>2. near \in Ranks
      BY DEF TypeInv
<1> DEFINE rows == Rows(order, "cosine")
<1>3. /\ Read(rows) /\ IdsOf(rows) \subseteq FoundBy(near)
      /\ \A row \in Range(rows) : row.id \in Ids /\ row.version = version[row.id]
      BY <1>2, StatementRead
<1>4. vecResults' = rows
      BY <1>1
<1> HIDE DEF rows
<1> QED  BY <1>3, <1>4 DEF Read, IdsOf

LEMMA WordsRead ==
  ASSUME TypeInv, ReadWords
  PROVE  /\ Read(kwResults') /\ IdsOf(kwResults') \subseteq FoundBy(matching)
         /\ \A row \in Range(kwResults') : row.id \in Ids /\ row.version = version[row.id]
<1> DEFINE score == IF fts THEN "bm25" ELSE "none"
<1>1. PICK order \in Orders(matching) : kwResults' = Rows(order, score)
      BY DEF ReadWords
<1>2. matching \in Ranks /\ score \in {"cosine", "bm25", "none"}
      BY DEF TypeInv
<1> HIDE DEF score
<1> DEFINE rows == Rows(order, score)
<1>3. /\ Read(rows) /\ IdsOf(rows) \subseteq FoundBy(matching)
      /\ \A row \in Range(rows) : row.id \in Ids /\ row.version = version[row.id]
      BY <1>2, StatementRead
<1>4. kwResults' = rows
      BY <1>1
<1> HIDE DEF rows
<1> QED  BY <1>3, <1>4 DEF Read, IdsOf

LEMMA AnswerShows ==
  ASSUME TypeInv, NEW rows \in Seq(RowType), pages' = Append(pages, Page(rows))
  PROVE  /\ Last(pages') = Page(rows) /\ pages' # <<>>
         /\ Range(Last(pages')) \subseteq Range(rows)
         /\ IdsOf(Last(pages')) \subseteq IdsOf(rows)
<1>1. IsCut(Page(rows), rows, offset) /\ Page(rows) \in Seq(RowType)
        /\ Len(Page(rows)) <= Limit
      BY AnswerEffect DEF IsCut
<1>2. Last(pages') = Page(rows) /\ pages' # <<>>
      BY <1>1, AppendPage DEF TypeInv
<1>3. Range(Page(rows)) \subseteq Range(rows) /\ IdsOf(Page(rows)) \subseteq IdsOf(rows)
      BY <1>1, OffsetNat, PageRows
<1> QED  BY <1>2, <1>3

LEMMA FreshStep == TypeInv /\ Fresh /\ [Next]_vars => Fresh'
<1> SUFFICES ASSUME TypeInv, Fresh, [Next]_vars PROVE Fresh'
    OBVIOUS
<1>1. CASE AskForPage
  <2>1. /\ pc' = Begin /\ vecResults' = <<>> /\ kwResults' = <<>>
        /\ eligible' = FoundBy(near) \cup FoundBy(matching)
        /\ UNCHANGED <<table, service, merged, pages, total>>
        BY <1>1 DEF AskForPage
  <2>2. Begin # "idle"
        BY DEF Begin, TypeInv
  <2> QED  BY <2>1, <2>2, NothingFound DEF Fresh, NothingStale, Answered, table
<1>2. CASE ReadVectors
  <2>1. IdsOf(vecResults') \subseteq FoundBy(near)
        BY <1>2, VectorsRead
  <2> QED  BY <1>2, <2>1 DEF ReadVectors, Fresh, NothingStale, Answered, table, noted
<1>3. CASE ReadWords
  <2>1. IdsOf(kwResults') \subseteq FoundBy(matching)
        BY <1>3, WordsRead
  <2> QED  BY <1>3, <2>1 DEF ReadWords, Fresh, NothingStale, Answered, table, noted
<1>4. ASSUME NEW rows \in Seq(RowType), pages' = Append(pages, Page(rows)),
             IdsOf(rows) \subseteq eligible, eligible' = eligible, pc' = "idle"
      PROVE  Fresh'
  <2>1. IdsOf(Last(pages')) \subseteq IdsOf(rows)
        BY <1>4, AnswerShows
  <2> QED  BY <1>4, <2>1 DEF Fresh, NothingStale
<1>5. CASE AnswerHybrid
  <2>1. PICK order \in Sorted(kwResults, vecResults) : Answer(Ordered(order))
        BY <1>5 DEF AnswerHybrid, Ordered
  <2>2. Ordered(order) \in Seq(RowType)
        BY OrderedRows
  <2>3. ASSUME NEW id \in IdsOf(Ordered(order))
        PROVE  id \in IdsOf(kwResults) \cup IdsOf(vecResults)
    <3>1. PICK i \in 1 .. Len(order) : order[i] = id
          BY <2>2, EntriesOfRows, OrderedRows
    <3> QED  BY <3>1, OrderFacts, Entries
  <2>4. IdsOf(kwResults) \cup IdsOf(vecResults) \subseteq eligible
        BY <1>5 DEF AnswerHybrid, Fresh
  <2> QED  BY <1>4, <2>1, <2>2, <2>3, <2>4 DEF Answer, noted
<1>6. CASE AnswerWords
      BY <1>4, <1>6 DEF AnswerWords, Answer, Fresh, TypeInv, Read, noted
<1>7. CASE ReadPage
  <2>1. PICK order \in Orders(matching) : pages' = Append(pages, Page(Listed(order)))
        BY <1>7, ReadPageEffect
  <2> DEFINE rows == Listed(order)
  <2>2. /\ rows \in Seq(RowType)
        /\ \A i \in 1 .. Len(rows) : rows[i].id \in FoundBy(matching)
        BY ListedRows, Returned DEF TypeInv
  <2> HIDE DEF rows
  <2>3. IdsOf(rows) \subseteq FoundBy(matching)
        BY <2>2, EntriesOfRows
  <2>4. FoundBy(matching) \subseteq eligible
        BY <1>7 DEF ReadPage, Fresh
  <2>5. pages' = Append(pages, Page(rows)) /\ eligible' = eligible /\ pc' = "idle"
        BY <1>7, <2>1, ReadPageEffect DEF rows
  <2> QED  BY <1>4, <2>2, <2>3, <2>4, <2>5
<1>8. CASE CountAll \/ Fails
      BY <1>8 DEF CountAll, Fails, Fresh, NothingStale, Answered, table, noted
<1>9. ASSUME NEW id \in Ids, Write(id) PROVE Fresh'
      BY <1>9 DEF Write, Fresh, NothingStale, Answered
<1>10. CASE UNCHANGED vars
      BY <1>10 DEF vars, Fresh, NothingStale, Answered
<1> QED  BY <1>1, <1>2, <1>3, <1>5, <1>6, <1>7, <1>8, <1>9, <1>10 DEF Next

\* A page holds only memories that were near or matching at some moment of its
\* own request: nothing is carried over from the request before it.
THEOREM PageIsFresh == Spec => []NothingStale
<1>1. Init => Fresh
      BY DEF Init, Fresh, NothingStale, Answered
<1>2. TypeInv /\ Fresh /\ [Next]_vars => Fresh'
      BY FreshStep
<1>3. Fresh => NothingStale
      BY DEF Fresh
<1> QED  BY <1>1, <1>2, <1>3, TypesAlways, PTL DEF Spec

\* No read is ahead of the table, one read has each memory in one version, and
\* the words are read after the vectors.
OneVersion(rows) ==
    \A a, b \in Range(rows) : a.id = b.id => a.version = b.version
ReadsOrdered ==
    /\ \A row \in Range(vecResults) \cup Range(kwResults) :
          row.version <= version[row.id]
    /\ OneVersion(kwResults) /\ OneVersion(vecResults)
    /\ \A a \in Range(kwResults), b \in Range(vecResults) :
          a.id = b.id => b.version <= a.version
    /\ pc \in {"vectors", "words"} => kwResults = <<>>
    /\ ~query => kwResults = <<>>

LEMMA RowsInOrder ==
  ASSUME TypeInv
  PROVE  /\ vecResults \in Seq(RowType) /\ kwResults \in Seq(RowType)
         /\ \A row \in Range(vecResults) \cup Range(kwResults) :
              row.id \in Ids /\ row.version \in Nat
<1>1. vecResults \in Seq(RowType) /\ kwResults \in Seq(RowType)
      BY DEF TypeInv, Read
<1>2. \A row \in RowType : row.id \in Ids /\ row.version \in Nat
      BY LimitNat DEF RowType
<1> QED  BY <1>1, <1>2, RowIds

LEMMA ReadsOrderedStep ==
  TypeInv /\ ReadsOrdered /\ [Next]_vars => ReadsOrdered'
<1> SUFFICES ASSUME TypeInv, ReadsOrdered, [Next]_vars PROVE ReadsOrdered'
    OBVIOUS
<1>t. /\ vecResults \in Seq(RowType) /\ kwResults \in Seq(RowType)
      /\ \A row \in Range(vecResults) \cup Range(kwResults) :
              row.id \in Ids /\ row.version \in Nat
      BY RowsInOrder
<1>v. version \in [Ids -> Nat]
      BY DEF TypeInv
<1>1. CASE AskForPage
  <2>1. /\ vecResults' = <<>> /\ kwResults' = <<>>
        BY <1>1 DEF AskForPage
  <2> QED  BY <2>1, NothingFound DEF ReadsOrdered, OneVersion
<1>2. CASE ReadVectors
  <2>1. /\ pc' = "words" /\ kwResults = <<>> /\ kwResults' = <<>>
        /\ UNCHANGED <<table, service>> /\ query
        BY <1>2 DEF ReadVectors, ReadsOrdered, TypeInv
  <2>2. \A row \in Range(vecResults') : row.id \in Ids /\ row.version = version[row.id]
        BY <1>2, VectorsRead
  <2>3. version' = version /\ query' = query
        BY <2>1 DEF table, service
  <2>4. \A row \in Range(vecResults') : row.version <= version[row.id]
        BY <1>v, <2>1, <2>2
  <2> QED  BY <2>1, <2>2, <2>3, <2>4, NothingFound DEF ReadsOrdered, OneVersion
<1>3. CASE ReadWords
  <2>1. /\ pc' = "merge" /\ UNCHANGED <<table, service, vecResults>> /\ query
        BY <1>3 DEF ReadWords, TypeInv
  <2>2. \A row \in Range(kwResults') : row.id \in Ids /\ row.version = version[row.id]
        BY <1>3, WordsRead
  <2>3. version' = version /\ query' = query
        BY <2>1 DEF table, service
  <2>4. \A row \in Range(kwResults') :
           row.version = version[row.id] /\ row.version <= version[row.id]
        BY <1>v, <2>1, <2>2
  <2>5. \A a \in Range(kwResults'), b \in Range(vecResults) :
           a.id = b.id => b.version <= a.version
        BY <2>4 DEF ReadsOrdered
  <2> QED  BY <2>1, <2>3, <2>4, <2>5 DEF ReadsOrdered, OneVersion
<1>4. ASSUME NEW id \in Ids, Write(id) PROVE ReadsOrdered'
  <2>1. /\ version' = [version EXCEPT ![id] = @ + 1]
        /\ UNCHANGED <<service, pc, vecResults, kwResults>>
        BY <1>4 DEF Write
  <2>2. \A x \in Ids : version[x] \in Nat /\ version[x] <= version'[x]
        BY <1>v, <2>1
  <2>3. ASSUME NEW row \in Range(vecResults) \cup Range(kwResults)
        PROVE  row.version <= version'[row.id]
    <3>1. row.version <= version[row.id] /\ row.version \in Nat /\ row.id \in Ids
          BY <1>t DEF ReadsOrdered
    <3>2. version[row.id] \in Nat /\ version[row.id] <= version'[row.id]
          BY <2>2, <3>1
    <3>3. version'[row.id] \in Nat
          BY <1>v, <2>1, <3>1
    <3> QED  BY <3>1, <3>2, <3>3
  <2> QED  BY <2>1, <2>3 DEF ReadsOrdered, OneVersion, service
<1>5. CASE UNCHANGED <<version, query, vecResults, kwResults>>
             /\ (pc' \notin {"vectors", "words"} \/ pc' = pc)
      BY <1>5 DEF ReadsOrdered, OneVersion
<1>6. CASE AnswerHybrid \/ AnswerWords \/ CountAll \/ ReadPage \/ Fails
      BY <1>5, <1>6 DEF AnswerHybrid, AnswerWords, Answer, CountAll, ReadPage, Fails,
                        table, service
<1>7. CASE UNCHANGED vars
      BY <1>5, <1>7 DEF vars
<1> QED  BY <1>1, <1>2, <1>3, <1>4, <1>6, <1>7 DEF Next

Newest == ReadsOrdered /\ NewestShown

LEMMA NewestStep == TypeInv /\ Newest /\ [Next]_vars => NewestShown'
<1> SUFFICES ASSUME TypeInv, Newest, [Next]_vars PROVE NewestShown'
    OBVIOUS
<1>t. /\ vecResults \in Seq(RowType) /\ kwResults \in Seq(RowType)
      /\ \A row \in Range(vecResults) \cup Range(kwResults) :
              row.id \in Ids /\ row.version \in Nat
      BY RowsInOrder
<1>1. CASE AnswerHybrid
  <2>1. PICK order \in Sorted(kwResults, vecResults) : Answer(Ordered(order))
        BY <1>1 DEF AnswerHybrid, Ordered
  <2>2. /\ pages' = Append(pages, Page(Ordered(order)))
        /\ UNCHANGED <<vecResults, kwResults, hybrid>>
        BY <2>1 DEF Answer, service
  <2>3. Ordered(order) \in Seq(RowType)
        BY OrderedRows
  <2>4. ASSUME NEW row \in Range(Ordered(order)),
               NEW read \in Range(kwResults) \cup Range(vecResults), read.id = row.id
        PROVE  read.version <= row.version
    <3>1. PICK i \in 1 .. Len(Ordered(order)) : Ordered(order)[i] = row
          BY <2>3, Entries
    <3>2. /\ row.id = order[i] /\ row.version = Collect(order[i]).version
          /\ order[i] \in IdsOf(kwResults) \cup IdsOf(vecResults)
      <4>1. i \in 1 .. Len(order)
            BY <3>1, OrderedRows
      <4>2. order \in Seq(Ids) /\ Range(order) = IdsOf(kwResults) \cup IdsOf(vecResults)
            BY OrderFacts
      <4> QED  BY <3>1, <4>1, <4>2, OrderedRows, Entries
    <3> DEFINE c == Collect(order[i])
    <3>3. /\ c \in Range(kwResults) \cup Range(vecResults) /\ c.id = read.id
          /\ order[i] \in IdsOf(kwResults) => c \in Range(kwResults)
          BY <2>4, <3>2, CollectRow
    <3>4. read \in Range(kwResults) => order[i] \in IdsOf(kwResults)
          BY <1>t, <2>4, <3>2, RowIds
    <3> HIDE DEF c
    <3>5. read.version <= c.version
      <4>1. CASE c \in Range(kwResults) /\ read \in Range(kwResults)
            BY <1>t, <3>3, <4>1 DEF Newest, ReadsOrdered, OneVersion
      <4>2. CASE c \in Range(kwResults) /\ read \in Range(vecResults)
            BY <3>3, <4>2 DEF Newest, ReadsOrdered
      <4>3. CASE c \in Range(vecResults) /\ read \in Range(vecResults)
            BY <1>t, <3>3, <4>3 DEF Newest, ReadsOrdered, OneVersion
      <4> QED  BY <3>3, <3>4, <4>1, <4>2, <4>3
    <3> QED  BY <3>2, <3>5 DEF c
  <2>5. Range(Last(pages')) \subseteq Range(Ordered(order))
        BY <2>2, <2>3, AnswerShows
  <2> QED  BY <2>2, <2>4, <2>5 DEF NewestShown
<1>2. CASE AnswerWords
  <2>1. /\ pages' = Append(pages, Page(kwResults)) /\ ~hybrid
        /\ UNCHANGED <<kwResults, hybrid>>
        BY <1>2 DEF AnswerWords, Answer, service
  <2>2. Range(Last(pages')) \subseteq Range(kwResults)
        BY <1>t, <2>1, AnswerShows
  <2>3. \A row, read \in Range(kwResults) : read.id = row.id => read.version <= row.version
        BY <1>t DEF Newest, ReadsOrdered, OneVersion
  <2> QED  BY <2>1, <2>2, <2>3 DEF NewestShown
<1>3. CASE ReadPage
  <2>1. kwResults' = <<>> /\ ~hybrid'
        BY <1>3 DEF ReadPage, Newest, ReadsOrdered, TypeInv, service
  <2> QED  BY <2>1, NothingFound DEF NewestShown
<1>4. CASE AskForPage
  <2>1. pc' = Begin /\ Begin # "idle"
        BY <1>4 DEF AskForPage, Begin, TypeInv
  <2> QED  BY <2>1 DEF NewestShown, Answered
<1>5. CASE ReadVectors \/ ReadWords \/ CountAll \/ Fails
      BY <1>5 DEF ReadVectors, ReadWords, CountAll, Fails, NewestShown, Answered
<1>6. CASE UNCHANGED <<pc, pages, kwResults, vecResults, hybrid>>
      BY <1>6 DEF Newest, NewestShown, Answered
<1>7. CASE \E id \in Ids : Write(id)
      BY <1>6, <1>7 DEF Write, service
<1>8. CASE UNCHANGED vars
      BY <1>6, <1>8 DEF vars
<1> QED  BY <1>1, <1>2, <1>3, <1>4, <1>5, <1>7, <1>8 DEF Next

\* A memory that the two reads saw in different versions is answered in the
\* newer one, whoever writes it between them: the words are read last, and
\* collectMems keeps their copy.
THEOREM NewestIsShown == Spec => []NewestShown
<1>1. Init => Newest
      BY NothingFound DEF Init, Newest, ReadsOrdered, OneVersion, NewestShown, Answered
<1>2. TypeInv /\ Newest /\ [Next]_vars => Newest'
      BY ReadsOrderedStep, NewestStep DEF Newest
<1>3. Newest => NewestShown
      BY DEF Newest
<1> QED  BY <1>1, <1>2, <1>3, TypesAlways, PTL DEF Spec


-----------------------------------------------------------------------------
(* The order of a fused answer                                             *)

\* Products: what comparing two fractions comes down to.
LEMMA TimesLess ==
  ASSUME NEW x \in Nat, NEW y \in Nat, NEW z \in Nat, x < y, z > 0
  PROVE  x * z < y * z /\ z * x < z * y /\ x * z \in Nat /\ y * z \in Nat
  OBVIOUS

LEMMA TimesAtMost ==
  ASSUME NEW x \in Nat, NEW y \in Nat, NEW z \in Nat, x <= y
  PROVE  x * z <= y * z /\ z * x <= z * y /\ x * z \in Nat /\ y * z \in Nat
  OBVIOUS

\* k, v, d, e stand for 60 + rank; w, u for weights.
LEMMA BothNearer ==
  ASSUME NEW k \in Nat, NEW v \in Nat, NEW d \in Nat, NEW e \in Nat,
         NEW w \in Nat, NEW u \in Nat,
         k > 0, v > 0, k < d, v < e, u > 0, u <= w
  PROVE  (w * (v + k)) * (d * e) > (u * (e + d)) * (k * v)
<1>1. (v + k) * (d * e) > (e + d) * (k * v)
  <2>1. k * e > k * v /\ d * v > k * v
        BY TimesLess
  <2>2. d * (k * e) > d * (k * v) /\ e * (d * v) > e * (k * v)
        BY <2>1, TimesLess
  <2> QED  BY <2>2
<1>2. w * ((v + k) * (d * e)) >= u * ((v + k) * (d * e))
      BY TimesAtMost
<1>3. u * ((v + k) * (d * e)) > u * ((e + d) * (k * v))
      BY <1>1, TimesLess
<1> QED  BY <1>2, <1>3

LEMMA OneNearer ==
  ASSUME NEW k \in Nat, NEW d \in Nat, NEW w \in Nat, NEW u \in Nat,
         k > 0, k < d, u > 0, u <= w
  PROVE  w * d > u * k
<1>1. w * d >= u * d /\ u * d > u * k
      BY TimesAtMost, TimesLess
<1> QED  BY <1>1

LEMMA BothAndNearer ==
  ASSUME NEW k \in Nat, NEW v \in Nat, NEW d \in Nat, NEW w \in Nat, NEW u \in Nat,
         k > 0, v > 0, k < d, u > 0, u <= w
  PROVE  (w * (v + k)) * d > u * (k * v)
<1>1. w * d > u * k
      BY OneNearer
<1>2. (w * d) * v > (u * k) * v
      BY <1>1, TimesLess
<1>3. (w * d) * k >= 0
      OBVIOUS
<1> QED  BY <1>2, <1>3

\* Twice among the first 21 is worth more than once at the top, whatever the
\* weights; among the first 61, for equal weights.
LEMMA BothWithin21 ==
  ASSUME NEW k \in Nat, NEW v \in Nat, NEW d \in Nat, NEW w \in Nat, NEW u \in Nat,
         k > 0, v > 0, k <= 81, v <= 81, d >= 61, w >= 2, u <= 3
  PROVE  (w * (v + k)) * d > u * (k * v)
<1>1. k * v <= 81 * v /\ k * v <= 81 * k /\ k * v \in Nat
      BY TimesAtMost
<1>2. (v + k) * d >= (v + k) * 61
      BY TimesAtMost
<1>3. w * ((v + k) * d) >= 2 * ((v + k) * d)
      BY TimesAtMost
<1>4. 3 * (k * v) >= u * (k * v)
      BY <1>1, TimesAtMost
<1>5. 2 * ((v + k) * d) > 3 * (k * v)
      BY <1>1, <1>2
<1> QED  BY <1>3, <1>4, <1>5

LEMMA BothWithin61 ==
  ASSUME NEW k \in Nat, NEW v \in Nat, NEW d \in Nat, NEW w \in Nat, NEW u \in Nat,
         k > 0, v > 0, k <= 121, v <= 121, d >= 61, u > 0, u <= w
  PROVE  (w * (v + k)) * d > u * (k * v)
<1>1. k * v <= 121 * v /\ k * v <= 121 * k /\ k * v \in Nat
      BY TimesAtMost
<1>2. (v + k) * d >= (v + k) * 61
      BY TimesAtMost
<1>3. (v + k) * d > k * v
      BY <1>1, <1>2
<1>4. w * ((v + k) * d) >= u * ((v + k) * d)
      BY TimesAtMost
<1>5. u * ((v + k) * d) > u * (k * v)
      BY <1>1, <1>3, TimesLess
<1> QED  BY <1>4, <1>5

\* Pinned and among the first 31 is worth more than the top of as many reads.
LEMMA PinnedWithin31 ==
  ASSUME NEW k \in Nat, NEW v \in Nat, NEW d \in Nat, NEW e \in Nat,
         k > 0, v > 0, k <= 91, v <= 91, d >= 61, e >= 61
  PROVE  (3 * (v + k)) * (d * e) > (2 * (e + d)) * (k * v)
<1> DEFINE P == v + k  Q == k * v  R == d * e  S == e + d
<1>1. P \in Nat /\ Q \in Nat /\ R \in Nat /\ S \in Nat /\ Q > 0 /\ S > 0
      OBVIOUS
<1>2. 91 * P >= 2 * Q
  <2>1. Q <= 91 * v /\ Q <= 91 * k
        BY TimesAtMost
  <2> QED  BY <2>1
<1>3. 2 * R >= 61 * S
  <2>1. R >= 61 * e /\ R >= d * 61
        BY TimesAtMost
  <2> QED  BY <2>1
<1> HIDE DEF P, Q, R, S
<1>4. (91 * P) * (2 * R) >= (2 * Q) * (61 * S)
  <2>1. (91 * P) * (2 * R) >= (91 * P) * (61 * S)
        BY <1>1, <1>3, TimesAtMost
  <2>2. (91 * P) * (61 * S) >= (2 * Q) * (61 * S)
        BY <1>1, <1>2, TimesAtMost
  <2>3. (91 * P) * (2 * R) \in Nat /\ (91 * P) * (61 * S) \in Nat
          /\ (2 * Q) * (61 * S) \in Nat
        BY <1>1
  <2> QED  BY <2>1, <2>2, <2>3
<1>5. 182 * (P * R) >= 122 * (S * Q) /\ P * R \in Nat /\ S * Q \in Nat /\ S * Q > 0
      BY <1>1, <1>4
<1>6. 3 * (P * R) > 2 * (S * Q)
      BY <1>5
<1>7. (3 * P) * R > (2 * S) * Q
      BY <1>1, <1>6
<1> QED  BY <1>7 DEF P, Q, R, S

LEMMA RankIs ==
  ASSUME NEW rows, Read(rows), NEW id
  PROVE  /\ Rank(rows, id) \in Nat /\ Rank(rows, id) > 0
         /\ id \in IdsOf(rows) => Rank(rows, id) <= fetchLimit
                                    /\ Rank(rows, id) \in 1 .. Len(rows)
                                    /\ rows[Rank(rows, id)].id = id
         /\ id \notin IdsOf(rows) => Rank(rows, id) = fetchLimit + 1
<1>1. rows \in Seq(RowType) /\ Len(rows) <= fetchLimit /\ fetchLimit \in Nat
        /\ Len(rows) \in Nat
      BY LimitNat DEF Read
<1>2. CASE id \in IdsOf(rows)
  <2> DEFINE r == CHOOSE i \in DOMAIN rows : rows[i].id = id
  <2>1. \E i \in DOMAIN rows : rows[i].id = id
        BY <1>2 DEF IdsOf
  <2>2. r \in DOMAIN rows /\ rows[r].id = id
        BY <2>1
  <2>3. Rank(rows, id) = r
        BY <1>2 DEF Rank
  <2> HIDE DEF r
  <2>4. r \in 1 .. Len(rows)
        BY <1>1, <2>2
  <2> QED  BY <1>1, <1>2, <2>2, <2>3, <2>4
<1>3. CASE id \notin IdsOf(rows)
      BY <1>1, <1>3 DEF Rank
<1> QED  BY <1>2, <1>3

\* What a read's rank counts for: the denominator of its share.
Depth(rows, id) == 60 + Rank(rows, id)

LEMMA DepthIs ==
  ASSUME TypeInv, NEW id
  PROVE  /\ Depth(kwResults, id) \in Nat /\ Depth(kwResults, id) >= 61
         /\ Depth(vecResults, id) \in Nat /\ Depth(vecResults, id) >= 61
         /\ Depth(kwResults, id) = rrfK + Rank(kwResults, id)
         /\ Depth(vecResults, id) = rrfK + Rank(vecResults, id)
  BY RankIs DEF TypeInv, Depth, rrfK

LEMMA WeightIs ==
  ASSUME NEW id
  PROVE  /\ Weight(id) \in Nat /\ Weight(id) >= 2 /\ Weight(id) <= 3 /\ Weight(id) > 0
         /\ id \in pinned => Weight(id) = 3
         /\ id \notin pinned => Weight(id) = 2
  BY DEF Weight

LEMMA ScoreOfBoth ==
  ASSUME TypeInv, NEW id, InBoth(kwResults, vecResults, id)
  PROVE  /\ Score(kwResults, vecResults, id).num =
              Weight(id) * (Depth(vecResults, id) + Depth(kwResults, id))
         /\ Score(kwResults, vecResults, id).den =
              Depth(kwResults, id) * Depth(vecResults, id)
<1> DEFINE k == Depth(kwResults, id)  v == Depth(vecResults, id)
<1>1. k \in Nat /\ v \in Nat
      BY DepthIs
<1>2. Share(Rank(kwResults, id)) = [num |-> 1, den |-> k]
      BY DepthIs DEF Share
<1>3. Share(Rank(vecResults, id)) = [num |-> 1, den |-> v]
      BY DepthIs DEF Share
<1> HIDE DEF k, v
<1>4. Fused(kwResults, vecResults, id) =
         Plus(Share(Rank(kwResults, id)), Share(Rank(vecResults, id)))
      BY DEF Fused, InBoth
<1>5. Fused(kwResults, vecResults, id) = [num |-> v + k, den |-> k * v]
      BY <1>1, <1>2, <1>3, <1>4 DEF Plus
<1> QED  BY <1>5 DEF Score, k, v

LEMMA ScoreOfOne ==
  ASSUME TypeInv, NEW id \in IdsOf(kwResults) \cup IdsOf(vecResults)
  PROVE  /\ id \notin IdsOf(vecResults) =>
              /\ Score(kwResults, vecResults, id).num = Weight(id)
              /\ Score(kwResults, vecResults, id).den = Depth(kwResults, id)
         /\ id \notin IdsOf(kwResults) =>
              /\ Score(kwResults, vecResults, id).num = Weight(id)
              /\ Score(kwResults, vecResults, id).den = Depth(vecResults, id)
<1> DEFINE k == Depth(kwResults, id)  v == Depth(vecResults, id)
<1>1. Share(Rank(kwResults, id)) = [num |-> 1, den |-> k]
      BY DepthIs DEF Share
<1>2. Share(Rank(vecResults, id)) = [num |-> 1, den |-> v]
      BY DepthIs DEF Share
<1> HIDE DEF k, v
<1>3. Weight(id) * 1 = Weight(id)
      BY WeightIs
<1>4. ASSUME id \notin IdsOf(vecResults)
      PROVE  /\ Score(kwResults, vecResults, id).num = Weight(id)
             /\ Score(kwResults, vecResults, id).den = k
  <2>1. Fused(kwResults, vecResults, id) = [num |-> 1, den |-> k]
        BY <1>1, <1>4 DEF Fused, InBoth
  <2> QED  BY <1>3, <2>1 DEF Score
<1>5. ASSUME id \notin IdsOf(kwResults)
      PROVE  /\ Score(kwResults, vecResults, id).num = Weight(id)
             /\ Score(kwResults, vecResults, id).den = v
  <2>1. Fused(kwResults, vecResults, id) = [num |-> 1, den |-> v]
        BY <1>2, <1>5 DEF Fused, InBoth
  <2> QED  BY <1>3, <2>1 DEF Score
<1> QED  BY <1>4, <1>5 DEF k, v

Ahead(a, b) == ~ AtLeast(Score(kwResults, vecResults, b), Score(kwResults, vecResults, a))

\* The depth of a memory that only one read found.
OnlyDepth(id, d) ==
    \/ id \notin IdsOf(vecResults) /\ d = Depth(kwResults, id)
    \/ id \notin IdsOf(kwResults) /\ d = Depth(vecResults, id)

LEMMA OneScore ==
  ASSUME TypeInv, NEW id \in IdsOf(kwResults) \cup IdsOf(vecResults), NEW d,
         OnlyDepth(id, d)
  PROVE  /\ Score(kwResults, vecResults, id).num = Weight(id)
         /\ Score(kwResults, vecResults, id).den = d
         /\ d \in Nat /\ d >= 61
  BY ScoreOfOne, DepthIs DEF OnlyDepth

LEMMA BothAheadOfBoth ==
  ASSUME TypeInv, NEW a, NEW b,
         InBoth(kwResults, vecResults, a), InBoth(kwResults, vecResults, b),
         (Weight(a) * (Depth(vecResults, a) + Depth(kwResults, a)))
           * (Depth(kwResults, b) * Depth(vecResults, b))
         > (Weight(b) * (Depth(vecResults, b) + Depth(kwResults, b)))
             * (Depth(kwResults, a) * Depth(vecResults, a))
  PROVE  Ahead(a, b)
<1> DEFINE x == (Weight(a) * (Depth(vecResults, a) + Depth(kwResults, a)))
                  * (Depth(kwResults, b) * Depth(vecResults, b))
           y == (Weight(b) * (Depth(vecResults, b) + Depth(kwResults, b)))
                  * (Depth(kwResults, a) * Depth(vecResults, a))
<1>1. AtLeast(Score(kwResults, vecResults, b), Score(kwResults, vecResults, a))
         = (y >= x)
      BY ScoreOfBoth, Zenon DEF AtLeast
<1>2. x \in Nat /\ y \in Nat /\ x > y
      BY DepthIs, WeightIs
<1> HIDE DEF x, y
<1>3. ~ (y >= x)
      BY <1>2
<1> QED  BY <1>1, <1>3 DEF Ahead

LEMMA BothAheadOfOne ==
  ASSUME TypeInv, NEW a, NEW b \in IdsOf(kwResults) \cup IdsOf(vecResults),
         InBoth(kwResults, vecResults, a), NEW d, OnlyDepth(b, d),
         (Weight(a) * (Depth(vecResults, a) + Depth(kwResults, a))) * d
         > Weight(b) * (Depth(kwResults, a) * Depth(vecResults, a))
  PROVE  Ahead(a, b)
<1> DEFINE x == (Weight(a) * (Depth(vecResults, a) + Depth(kwResults, a))) * d
           y == Weight(b) * (Depth(kwResults, a) * Depth(vecResults, a))
<1>1. AtLeast(Score(kwResults, vecResults, b), Score(kwResults, vecResults, a))
         = (y >= x)
      BY ScoreOfBoth, OneScore, Zenon DEF AtLeast
<1>2. x \in Nat /\ y \in Nat /\ x > y
      BY DepthIs, WeightIs, OneScore
<1> HIDE DEF x, y
<1>3. ~ (y >= x)
      BY <1>2
<1> QED  BY <1>1, <1>3 DEF Ahead

LEMMA OneAheadOfOne ==
  ASSUME TypeInv,
         NEW a \in IdsOf(kwResults) \cup IdsOf(vecResults),
         NEW b \in IdsOf(kwResults) \cup IdsOf(vecResults),
         NEW c, OnlyDepth(a, c), NEW d, OnlyDepth(b, d),
         Weight(a) * d > Weight(b) * c
  PROVE  Ahead(a, b)
<1> DEFINE x == Weight(a) * d  y == Weight(b) * c
<1>1. AtLeast(Score(kwResults, vecResults, b), Score(kwResults, vecResults, a))
         = (y >= x)
      BY OneScore, Zenon DEF AtLeast
<1>2. x \in Nat /\ y \in Nat /\ x > y
      BY WeightIs, OneScore
<1> HIDE DEF x, y
<1>3. ~ (y >= x)
      BY <1>2
<1> QED  BY <1>1, <1>3 DEF Ahead

\* Ranked no lower by either read, and not lighter: strictly higher scored.
LEMMA BetterIsAhead ==
  ASSUME TypeInv,
         NEW a \in IdsOf(kwResults) \cup IdsOf(vecResults),
         NEW b \in IdsOf(kwResults) \cup IdsOf(vecResults),
         Rank(kwResults, a) <= Rank(kwResults, b),
         Rank(vecResults, a) <= Rank(vecResults, b),
         b \in pinned => a \in pinned, a # b
  PROVE  Ahead(a, b)
<1>1. Read(kwResults) /\ Read(vecResults)
      BY DEF TypeInv
<1>2. ASSUME NEW rows, Read(rows), b \in IdsOf(rows), Rank(rows, a) <= Rank(rows, b)
      PROVE  a \in IdsOf(rows) /\ Depth(rows, a) < Depth(rows, b)
  <2>1. /\ Rank(rows, a) \in Nat /\ Rank(rows, b) \in Nat /\ fetchLimit \in Nat
        /\ Rank(rows, b) <= fetchLimit /\ rows[Rank(rows, b)].id = b
        /\ a \in IdsOf(rows) => rows[Rank(rows, a)].id = a
        /\ a \notin IdsOf(rows) => Rank(rows, a) = fetchLimit + 1
        BY <1>2, RankIs, LimitNat
  <2>2. a \in IdsOf(rows)
        BY <1>2, <2>1
  <2>3. Rank(rows, a) # Rank(rows, b)
        BY <2>1, <2>2
  <2> QED  BY <1>2, <2>1, <2>2, <2>3 DEF Depth
<1>3. Weight(b) <= Weight(a) /\ Weight(b) > 0 /\ Weight(a) \in Nat /\ Weight(b) \in Nat
      BY WeightIs
<1> DEFINE k == Depth(kwResults, a)  v == Depth(vecResults, a)
           d == Depth(kwResults, b)  e == Depth(vecResults, b)
<1>4. /\ k \in Nat /\ v \in Nat /\ d \in Nat /\ e \in Nat /\ k > 0 /\ v > 0
      BY DepthIs
<1>5. CASE b \in IdsOf(kwResults) /\ b \in IdsOf(vecResults)
  <2>1. a \in IdsOf(kwResults) /\ a \in IdsOf(vecResults) /\ k < d /\ v < e
        BY <1>1, <1>2, <1>5
  <2>2. (Weight(a) * (v + k)) * (d * e) > (Weight(b) * (e + d)) * (k * v)
        BY <1>3, <1>4, <2>1, BothNearer
  <2> QED  BY <1>5, <2>1, <2>2, BothAheadOfBoth DEF InBoth
<1>6. CASE b \notin IdsOf(vecResults)
  <2>1. a \in IdsOf(kwResults) /\ k < d /\ OnlyDepth(b, d)
        BY <1>1, <1>2, <1>6 DEF OnlyDepth
  <2>2. CASE a \in IdsOf(vecResults)
    <3>1. (Weight(a) * (v + k)) * d > Weight(b) * (k * v)
          BY <1>3, <1>4, <2>1, BothAndNearer
    <3> QED  BY <2>1, <2>2, <3>1, BothAheadOfOne DEF InBoth
  <2>3. CASE a \notin IdsOf(vecResults)
    <3>1. Weight(a) * d > Weight(b) * k /\ OnlyDepth(a, k)
          BY <1>3, <1>4, <2>1, <2>3, OneNearer DEF OnlyDepth
    <3> QED  BY <2>1, <3>1, OneAheadOfOne
  <2> QED  BY <2>2, <2>3
<1>7. CASE b \notin IdsOf(kwResults)
  <2>1. a \in IdsOf(vecResults) /\ v < e /\ OnlyDepth(b, e)
        BY <1>1, <1>2, <1>7 DEF OnlyDepth
  <2>2. CASE a \in IdsOf(kwResults)
    <3>1. (Weight(a) * (k + v)) * e > Weight(b) * (v * k)
          BY <1>3, <1>4, <2>1, BothAndNearer
    <3>2. k + v = v + k /\ v * k = k * v
          BY <1>4
    <3>3. (Weight(a) * (v + k)) * e > Weight(b) * (k * v)
          BY <3>1, <3>2, Zenon
    <3> QED  BY <2>1, <2>2, <3>3, BothAheadOfOne DEF InBoth
  <2>3. CASE a \notin IdsOf(kwResults)
    <3>1. Weight(a) * e > Weight(b) * v /\ OnlyDepth(a, v)
          BY <1>3, <1>4, <2>1, <2>3, OneNearer DEF OnlyDepth
    <3> QED  BY <2>1, <3>1, OneAheadOfOne
  <2> QED  BY <2>2, <2>3
<1> QED  BY <1>5, <1>6, <1>7

LEMMA DepthWithin ==
  ASSUME TypeInv, NEW id, NEW n \in Nat, Within(id, n)
  PROVE  /\ id \in IdsOf(kwResults) => Depth(kwResults, id) <= 60 + n
         /\ id \in IdsOf(vecResults) => Depth(vecResults, id) <= 60 + n
  BY RankIs DEF TypeInv, Within, Depth

\* Of a higher tier: strictly higher scored.
LEMMA OutranksIsAhead ==
  ASSUME TypeInv,
         NEW a \in IdsOf(kwResults) \cup IdsOf(vecResults),
         NEW b \in IdsOf(kwResults) \cup IdsOf(vecResults), Outranks(a, b)
  PROVE  Ahead(a, b)
<1> DEFINE k == Depth(kwResults, a)  v == Depth(vecResults, a)
           d == Depth(kwResults, b)  e == Depth(vecResults, b)
<1>1. /\ k \in Nat /\ v \in Nat /\ d \in Nat /\ e \in Nat /\ k > 0 /\ v > 0
      /\ k >= 61 /\ v >= 61 /\ d >= 61 /\ e >= 61
      BY DepthIs
<1>2. /\ Weight(a) \in Nat /\ Weight(b) \in Nat /\ Weight(a) >= 2 /\ Weight(b) <= 3
      /\ Weight(b) > 0
      BY WeightIs
<1>3. ~FoundTwice(b) => \E x \in {d, e} : OnlyDepth(b, x)
      BY DEF FoundTwice, InBoth, OnlyDepth
<1>4. CASE FoundTwice(a) /\ ~FoundTwice(b)
             /\ (Within(a, 21) \/ (Within(a, 61) /\ (b \in pinned => a \in pinned)))
  <2>1. PICK x \in {d, e} : OnlyDepth(b, x)
        BY <1>3, <1>4
  <2>2. (Weight(a) * (v + k)) * x > Weight(b) * (k * v)
    <3>1. CASE Within(a, 21)
      <4>1. k <= 81 /\ v <= 81
            BY <1>4, <3>1, DepthWithin DEF FoundTwice, InBoth
      <4> QED  BY <1>1, <1>2, <4>1, BothWithin21
    <3>2. CASE Within(a, 61) /\ (b \in pinned => a \in pinned)
      <4>1. k <= 121 /\ v <= 121
            BY <1>4, <3>2, DepthWithin DEF FoundTwice, InBoth
      <4>2. Weight(b) <= Weight(a)
            BY <3>2, WeightIs
      <4> QED  BY <1>1, <1>2, <4>1, <4>2, BothWithin61
    <3> QED  BY <1>4, <3>1, <3>2
  <2> QED  BY <1>4, <2>1, <2>2, BothAheadOfOne DEF FoundTwice
<1>5. CASE (FoundTwice(b) => FoundTwice(a)) /\ Within(a, 31)
             /\ a \in pinned /\ b \notin pinned
  <2>1. Weight(a) = 3 /\ Weight(b) = 2
        BY <1>5, WeightIs
  <2>2. /\ a \in IdsOf(kwResults) => k <= 91
        /\ a \in IdsOf(vecResults) => v <= 91
        BY <1>5, DepthWithin
  <2>3. CASE FoundTwice(a) /\ FoundTwice(b)
    <3>1. k <= 91 /\ v <= 91
          BY <2>2, <2>3 DEF FoundTwice, InBoth
    <3>2. (3 * (v + k)) * (d * e) > (2 * (e + d)) * (k * v)
          BY <1>1, <3>1, PinnedWithin31
    <3>3. (Weight(a) * (v + k)) * (d * e) > (Weight(b) * (e + d)) * (k * v)
          BY <2>1, <3>2, Zenon
    <3> QED  BY <2>3, <3>3, BothAheadOfBoth DEF FoundTwice
  <2>4. CASE FoundTwice(a) /\ ~FoundTwice(b)
    <3>1. PICK x \in {d, e} : OnlyDepth(b, x)
          BY <1>3, <2>4
    <3>2. k <= 121 /\ v <= 121
      <4>1. k <= 91 /\ v <= 91
            BY <2>2, <2>4 DEF FoundTwice, InBoth
      <4> QED  BY <1>1, <4>1
    <3>3. x \in Nat /\ x >= 61 /\ Weight(b) <= Weight(a)
          BY <1>1, <2>1
    <3>4. (Weight(a) * (v + k)) * x > Weight(b) * (k * v)
          BY <1>1, <1>2, <3>2, <3>3, BothWithin61
    <3> QED  BY <2>4, <3>1, <3>4, BothAheadOfOne DEF FoundTwice
  <2>5. CASE ~FoundTwice(a)
    <3>1. PICK x \in {d, e} : OnlyDepth(b, x)
          BY <1>3, <1>5, <2>5
    <3>2. PICK c \in {k, v} : OnlyDepth(a, c) /\ c <= 91
          BY <2>2, <2>5 DEF FoundTwice, InBoth, OnlyDepth
    <3>3. 3 * x > 2 * c
          BY <1>1, <3>1, <3>2
    <3>4. Weight(a) * x > Weight(b) * c
          BY <2>1, <3>3, Zenon
    <3> QED  BY <3>1, <3>2, <3>4, OneAheadOfOne
  <2> QED  BY <1>5, <2>3, <2>4, <2>5
<1> QED  BY <1>4, <1>5 DEF Outranks

\* The answer as it was sorted: by the scores of the rows it still holds.
SortedNow ==
    Answered /\ hybrid =>
        /\ \A i \in 1 .. Len(merged) :
              merged[i].id \in IdsOf(kwResults) \cup IdsOf(vecResults)
        /\ \A i, j \in 1 .. Len(merged) : i < j =>
              /\ merged[i].id # merged[j].id
              /\ AtLeast(Score(kwResults, vecResults, merged[i].id),
                         Score(kwResults, vecResults, merged[j].id))

LEMMA AnswerSorted == ASSUME TypeInv, AnswerHybrid PROVE SortedNow'
<1>1. PICK order \in Sorted(kwResults, vecResults) : Answer(Ordered(order))
      BY DEF AnswerHybrid, Ordered
<1>2. /\ merged' = Ordered(order) /\ kwResults' = kwResults /\ vecResults' = vecResults
      /\ pinned' = pinned
      BY <1>1 DEF Answer, service
<1>3. /\ Len(merged') = Len(order)
      /\ \A i \in 1 .. Len(order) : merged'[i].id = order[i]
      BY <1>2, OrderedRows
<1>4. /\ \A i \in 1 .. Len(order) : order[i] \in IdsOf(kwResults) \cup IdsOf(vecResults)
      /\ \A i, j \in 1 .. Len(order) : i < j => order[i] # order[j]
      /\ \A i, j \in 1 .. Len(order) : i < j =>
           AtLeast(Score(kwResults, vecResults, order[i]),
                   Score(kwResults, vecResults, order[j]))
  <2>1. order \in Seq(Ids) /\ IsInjective(order)
        /\ Range(order) = IdsOf(kwResults) \cup IdsOf(vecResults)
        BY OrderFacts
  <2>2. \A i, j \in 1 .. Len(order) : order[i] = order[j] => i = j
        BY <2>1, Entries DEF IsInjective
  <2>3. \A i, j \in 1 .. Len(order) : i < j => order[i] # order[j]
        BY <2>2
  <2> QED  BY <2>1, <2>3, Entries, OrderFacts
<1>5. \A id \in IdsOf(kwResults) \cup IdsOf(vecResults) :
         Score(kwResults, vecResults, id)' = Score(kwResults, vecResults, id)
      BY <1>2 DEF Score, Fused, InBoth, Rank, IdsOf, Weight, Share, Plus, fetchLimit
<1> QED  BY <1>2, <1>3, <1>4, <1>5 DEF SortedNow, IdsOf

LEMMA SortedKept ==
  ASSUME SortedNow, UNCHANGED <<pc, pages, hybrid, kwResults, vecResults, merged, pinned>>
  PROVE  SortedNow'
  BY DEF SortedNow, Answered, Score, Fused, InBoth, Rank, IdsOf, Weight, Share, Plus,
         AtLeast, fetchLimit

LEMMA SortedStep == TypeInv /\ SortedNow /\ [Next]_vars => SortedNow'
<1> SUFFICES ASSUME TypeInv, SortedNow, [Next]_vars PROVE SortedNow'
    OBVIOUS
<1>1. CASE AnswerHybrid
      BY <1>1, AnswerSorted
<1>2. CASE AskForPage
  <2>1. pc' = Begin /\ Begin # "idle"
        BY <1>2 DEF AskForPage, Begin, TypeInv
  <2> QED  BY <2>1 DEF SortedNow, Answered
<1>3. CASE ReadVectors \/ ReadWords \/ CountAll \/ Fails
      BY <1>3 DEF ReadVectors, ReadWords, CountAll, Fails, SortedNow, Answered
<1>4. CASE AnswerWords \/ ReadPage
  <2>1. ~hybrid'
        BY <1>4 DEF AnswerWords, Answer, ReadPage, TypeInv, service
  <2> QED  BY <2>1 DEF SortedNow
<1>5. CASE \E id \in Ids : Write(id)
      BY <1>5, SortedKept DEF Write, service
<1>6. CASE UNCHANGED vars
      BY <1>6, SortedKept DEF vars
<1> QED  BY <1>1, <1>2, <1>3, <1>4, <1>5, <1>6 DEF Next

LEMMA SortedAlways == Spec => []SortedNow
<1>1. Init => SortedNow
      BY DEF Init, SortedNow, Answered
<1> QED  BY <1>1, SortedStep, TypesAlways, PTL DEF Spec

\* What scores strictly higher is answered first.
LEMMA AheadIsFirst ==
  ASSUME TypeInv, SortedNow, Answered, hybrid,
         NEW i \in DOMAIN merged, NEW j \in DOMAIN merged,
         Ahead(merged[i].id, merged[j].id), merged[i].id # merged[j].id
  PROVE  i < j
<1>1. i \in 1 .. Len(merged) /\ j \in 1 .. Len(merged) /\ Len(merged) \in Nat
      BY DEF TypeInv
<1>2. i # j
      OBVIOUS
<1>3. ~ (j < i)
      BY <1>1 DEF SortedNow, Ahead
<1> QED  BY <1>1, <1>2, <1>3

\* A memory that both reads rank at least as high as another, and that is not
\* the lighter of the two, is answered before it, in answers of any length.
THEOREM BetterIsFirst == Spec => []BetterRankedFirst
<1>1. TypeInv /\ SortedNow => BetterRankedFirst
  <2> SUFFICES ASSUME TypeInv, SortedNow, Answered, hybrid,
                      NEW i \in DOMAIN merged, NEW j \in DOMAIN merged,
                      Rank(kwResults, merged[i].id) <= Rank(kwResults, merged[j].id),
                      Rank(vecResults, merged[i].id) <= Rank(vecResults, merged[j].id),
                      merged[j].id \in pinned => merged[i].id \in pinned,
                      merged[i].id # merged[j].id
               PROVE  i < j
      BY DEF BetterRankedFirst
  <2>1. /\ merged[i].id \in IdsOf(kwResults) \cup IdsOf(vecResults)
        /\ merged[j].id \in IdsOf(kwResults) \cup IdsOf(vecResults)
        BY DEF SortedNow, TypeInv
  <2>2. Ahead(merged[i].id, merged[j].id)
        BY <2>1, BetterIsAhead
  <2> QED  BY <2>2, AheadIsFirst
<1> QED  BY <1>1, TypesAlways, SortedAlways, PTL

\* Found twice goes before found once, and pinned before not pinned, wherever
\* 1/(60+rank) and the weight 1.5 promise it.
THEOREM TiersAreKept == Spec => []TiersHold
<1>1. TypeInv /\ SortedNow => TiersHold
  <2> SUFFICES ASSUME TypeInv, SortedNow, Answered, hybrid,
                      NEW i \in DOMAIN merged, NEW j \in DOMAIN merged,
                      Outranks(merged[i].id, merged[j].id)
               PROVE  i < j
      BY DEF TiersHold
  <2>1. /\ merged[i].id \in IdsOf(kwResults) \cup IdsOf(vecResults)
        /\ merged[j].id \in IdsOf(kwResults) \cup IdsOf(vecResults)
        BY DEF SortedNow, TypeInv
  <2>2. Ahead(merged[i].id, merged[j].id)
        BY <2>1, OutranksIsAhead
  <2>3. merged[i].id # merged[j].id
        BY DEF Outranks
  <2> QED  BY <2>2, <2>3, AheadIsFirst
<1> QED  BY <1>1, TypesAlways, SortedAlways, PTL

-----------------------------------------------------------------------------
(* Page after page                                                         *)

LEMMA SeenGrows ==
  ASSUME TypeInv, NEW page \in Seq(RowType), pages' = Append(pages, page)
  PROVE  /\ Seen' = Seen \cup IdsOf(page)
         /\ offset' = offset + Limit
<1>1. /\ pages \in Seq(Seq(RowType)) /\ Len(pages) \in Nat /\ page \in Seq(RowType)
      /\ Len(pages') = Len(pages) + 1
      /\ \A p \in 1 .. Len(pages) : pages'[p] = pages[p]
      /\ pages'[Len(pages) + 1] = page
      /\ DOMAIN pages = 1 .. Len(pages) /\ DOMAIN pages' = 1 .. Len(pages) + 1
      BY DEF TypeInv
<1>2. Range(pages') = Range(pages) \cup {page}
      BY <1>1 DEF Range
<1>3. Seen' = Seen \cup IdsOf(page)
      BY <1>2 DEF Seen, IdsOf
<1>4. Limit * (Len(pages) + 1) = Limit * Len(pages) + Limit
      BY <1>1, LimitNat
<1> QED  BY <1>1, <1>3, <1>4 DEF offset

LEMMA SameSeen ==
  ASSUME pages' = pages
  PROVE  Seen' = Seen /\ offset' = offset
  BY DEF Seen, offset, IdsOf

\* The client has nothing left to ask for.
AllShown == pages # <<>> /\ Last(pages) = <<>>

\* The memories listed before another, whatever the order of equals.
Above(id) == {x \in Ids : matching[x] > matching[id]}

\* What is not excused and stands above the next page was shown: writes push it
\* down, never up.
ListKept ==
    ~query =>
        \A id \in FoundBy(matching) \ excused :
            Cardinality(Above(id)) < offset \/ AllShown => id \in Seen

LEMMA AboveCounted ==
  ASSUME NEW id
  PROVE  IsFiniteSet(Above(id)) /\ Cardinality(Above(id)) \in Nat
<1>1. Above(id) \subseteq Ids
      BY DEF Above
<1> QED  BY <1>1, SearchAssumption, FS_Subset, FS_CardinalityType

\* In every order, as many stand before a memory without its like as are above.
LEMMA PlaceInOrder ==
  ASSUME NEW f \in Ranks, NEW order \in Orders(f), NEW i \in 1 .. Len(order),
         \A x \in FoundBy(f) : f[x] = f[order[i]] => x = order[i]
  PROVE  Cardinality({x \in Ids : f[x] > f[order[i]]}) = i - 1
<1>1. /\ order \in Seq(Ids) /\ Len(order) \in Nat
      /\ \A k \in 1 .. Len(order) : order[k] \in FoundBy(f)
      /\ \A x \in FoundBy(f) : \E k \in 1 .. Len(order) : order[k] = x
      /\ \A k, l \in 1 .. Len(order) : order[k] = order[l] => k = l
      /\ \A k, l \in 1 .. Len(order) : k < l => f[order[k]] >= f[order[l]]
      BY Returned
<1>2. \A x \in Ids : f[x] \in Nat
      BY SearchAssumption DEF Ranks
<1>3. \A x \in FoundBy(f) : x \in Ids /\ f[x] > 0
      BY DEF FoundBy
<1> DEFINE g == [k \in 1 .. i - 1 |-> order[k]]
           A == {x \in Ids : f[x] > f[order[i]]}
<1>4. ASSUME NEW k \in 1 .. i - 1 PROVE order[k] \in A
  <2>1. k \in 1 .. Len(order) /\ k < i /\ k # i
        BY <1>1
  <2>2. /\ order[k] \in FoundBy(f) /\ f[order[k]] >= f[order[i]]
        /\ order[k] # order[i]
        BY <1>1, <2>1
  <2>3. f[order[k]] # f[order[i]]
        BY <2>2
  <2>4. f[order[k]] > f[order[i]] /\ order[k] \in Ids
        BY <1>1, <1>2, <1>3, <2>2, <2>3
  <2> QED  BY <2>4
<1>5. ASSUME NEW x \in A PROVE \E k \in 1 .. i - 1 : order[k] = x
  <2>1. x \in Ids /\ f[x] > f[order[i]] /\ order[i] \in FoundBy(f)
        BY <1>1
  <2>2. f[x] > 0 /\ order[i] \in Ids /\ f[order[i]] > 0
        BY <1>2, <1>3, <2>1
  <2>3. x \in FoundBy(f)
        BY <2>1, <2>2 DEF FoundBy
  <2>4. PICK k \in 1 .. Len(order) : order[k] = x
        BY <1>1, <2>3
  <2>5. ~ (i < k) /\ k # i
    <3>1. f[x] \in Nat /\ f[order[i]] \in Nat
          BY <1>2, <2>1, <2>2
    <3>2. i < k => f[order[i]] >= f[x]
          BY <1>1, <2>4
    <3> QED  BY <2>1, <2>4, <3>1, <3>2
  <2>6. k \in 1 .. i - 1
        BY <1>1, <2>5
  <2> QED  BY <2>4, <2>6
<1> HIDE DEF A
<1>6. g \in Bijection(1 .. i - 1, A)
  <2>1. g \in [1 .. i - 1 -> A]
        BY <1>4
  <2>2. \A k, l \in 1 .. i - 1 : g[k] = g[l] => k = l
        BY <1>1
  <2>3. \A x \in A : \E k \in 1 .. i - 1 : g[k] = x
        BY <1>5
  <2> QED  BY <2>1, <2>2, <2>3 DEF Bijection, Injection, Surjection, IsInjective
<1>7. i - 1 \in Nat
      BY <1>1
<1>8. ExistsBijection(1 .. i - 1, A)
      BY <1>6, Zenon DEF ExistsBijection
<1> QED  BY <1>7, <1>8, FS_CountingElements DEF A

LEMMA ListKeptWrite ==
  ASSUME TypeInv, ListKept, NEW w \in Ids, Write(w)
  PROVE  ListKept'
<1>0. /\ matching \in Ranks /\ MaxRank \in Nat /\ matching' \in Ranks
      BY WriteType, SearchAssumption DEF TypeInv
<1>1. /\ query' = query /\ pages' = pages
      /\ ~query => \E rank \in Relisted(w) : matching' = [matching EXCEPT ![w] = rank]
      /\ ~query => excused' = excused \cup
                     {x \in Ids : x = w \/ MovedUp(x, w, matching'[w])}
      BY DEF Write, service
<1> SUFFICES ASSUME ~query
             PROVE  \A id \in FoundBy(matching') \ excused' :
                       Cardinality(Above(id)') < offset' \/ AllShown' => id \in Seen'
    BY <1>1 DEF ListKept, Above
<1>2. PICK rank \in Relisted(w) : matching' = [matching EXCEPT ![w] = rank]
      BY <1>1
<1>3. /\ \A x \in Ids : matching[x] \in Nat /\ matching'[x] \in Nat
      /\ \A x \in Ids : x # w => matching'[x] = matching[x]
      /\ matching'[w] = 0 \/ matching'[w] >= matching[w]
      BY <1>0, <1>2 DEF Ranks, Relisted
<1>4. Seen' = Seen /\ offset' = offset /\ AllShown' = AllShown /\ offset \in Nat
      BY <1>1, SameSeen, OffsetNat DEF AllShown
<1> TAKE id \in FoundBy(matching') \ excused'
<1>5. /\ id \in Ids /\ id # w /\ id \notin excused /\ ~MovedUp(id, w, matching'[w])
      /\ id \in FoundBy(matching)
      BY <1>1, <1>3 DEF FoundBy
<1>6. ASSUME NEW x \in Above(id) PROVE x \in Above(id)'
  <2>1. x \in Ids /\ matching[x] > matching[id] /\ matching'[id] = matching[id]
        BY <1>3, <1>5 DEF Above
  <2>2. CASE x = w
    <3>1. matching'[w] # 0
          BY <1>5, <2>1, <2>2 DEF MovedUp
    <3>2. matching'[x] > matching'[id]
          BY <1>3, <1>5, <2>1, <2>2, <3>1
    <3> QED  BY <2>1, <3>2 DEF Above
  <2>3. CASE x # w
    <3>1. matching'[x] > matching'[id]
          BY <1>3, <2>1, <2>3
    <3> QED  BY <2>1, <3>1 DEF Above
  <2> QED  BY <2>2, <2>3
<1>7. Cardinality(Above(id)) <= Cardinality(Above(id)')
  <2>1. Above(id)' \subseteq Ids
        BY DEF Above
  <2>2. IsFiniteSet(Above(id)') /\ Above(id) \subseteq Above(id)'
        BY <1>6, <2>1, SearchAssumption, FS_Subset
  <2> QED  BY <2>2, FS_Subset
<1>8. Cardinality(Above(id)) \in Nat /\ Cardinality(Above(id)') \in Nat
  <2>1. Above(id)' \subseteq Ids
        BY DEF Above
  <2> QED  BY <2>1, AboveCounted, SearchAssumption, FS_Subset, FS_CardinalityType
<1>9. ASSUME Cardinality(Above(id)') < offset' \/ AllShown' PROVE id \in Seen'
  <2>1. Cardinality(Above(id)) < offset \/ AllShown
        BY <1>4, <1>7, <1>8, <1>9
  <2>2. id \in Seen
        BY <1>5, <2>1 DEF ListKept
  <2> QED  BY <1>4, <2>2, Zenon
<1> QED  BY <1>9

\* A page shows the memories that follow the pages before it; an empty one,
\* that none follow.
LEMMA PageShows ==
  ASSUME TypeInv, NEW rows \in Seq(RowType), pages' = Append(pages, Page(rows)),
         NEW i \in 1 .. Len(rows),
         i <= offset' \/ AllShown'
  PROVE  i <= offset \/ rows[i].id \in IdsOf(Page(rows))
<1>1. /\ IsCut(Page(rows), rows, offset) /\ Page(rows) \in Seq(RowType)
      /\ Len(Page(rows)) <= Limit
      BY AnswerEffect DEF IsCut
<1>2. offset \in Nat /\ offset' = offset + Limit /\ Limit \in Nat /\ Limit > 0
      BY <1>1, OffsetNat, SeenGrows, LimitNat
<1>3. Last(pages') = Page(rows)
      BY <1>1, AppendPage DEF TypeInv
<1>4. i <= offset + Limit \/ Len(Page(rows)) = 0
      BY <1>2, <1>3 DEF AllShown
<1>5. CASE i > offset /\ i <= offset + Limit
  <2>1. i - offset \in 1 .. Len(Page(rows)) /\ Page(rows)[i - offset] = rows[i]
        BY <1>1, <1>5 DEF IsCut
  <2> QED  BY <1>1, <2>1, EntriesOfRows
<1>6. CASE i > offset + Limit /\ Len(Page(rows)) = 0
  <2>1. offset + 1 \in 1 .. Len(rows) /\ offset + 1 > offset /\ offset + 1 <= offset + Limit
        BY <1>2, <1>6
  <2>2. (offset + 1) - offset \in 1 .. Len(Page(rows))
        BY <1>1, <2>1 DEF IsCut
  <2> QED  BY <1>2, <1>6, <2>2
<1> QED  BY <1>2, <1>4, <1>5, <1>6

LEMMA ListKeptStep == TypeInv /\ ListKept /\ [Next]_vars => ListKept'
<1> SUFFICES ASSUME TypeInv, ListKept, [Next]_vars PROVE ListKept'
    OBVIOUS
<1>1. CASE \E id \in Ids : Write(id)
      BY <1>1, ListKeptWrite
<1>2. CASE ReadPage
  <2>1. PICK order \in Orders(matching) : pages' = Append(pages, Page(Listed(order)))
        BY <1>2, ReadPageEffect
  <2>2. /\ matching' = matching /\ query' = query /\ excused' = excused \cup Tied
        BY <1>2, ReadPageEffect DEF table, service
  <2> SUFFICES ASSUME ~query, NEW id \in FoundBy(matching), id \notin excused, id \notin Tied,
                      Cardinality(Above(id)) < offset' \/ AllShown'
               PROVE  id \in Seen'
      BY <2>2 DEF ListKept, Above, FoundBy
  <2> DEFINE rows == Listed(order)
  <2>3. /\ rows \in Seq(RowType) /\ Len(rows) = Len(order) /\ Len(order) \in Nat
        /\ \A i \in 1 .. Len(order) : rows[i].id = order[i]
    <3>1. order \in Seq(Ids)
          BY Returned DEF TypeInv
    <3> QED  BY <3>1, ListedRows
  <2>4. pages' = Append(pages, Page(rows))
        BY <2>1
  <2> HIDE DEF rows
  <2>5. PICK i \in 1 .. Len(order) : order[i] = id
        BY Returned DEF TypeInv
  <2>6. Cardinality(Above(id)) = i - 1
    <3>1. \A x \in FoundBy(matching) : matching[x] = matching[id] => x = id
          BY DEF Tied, FoundBy
    <3>2. matching \in Ranks
          BY DEF TypeInv
    <3>3. Cardinality({x \in Ids : matching[x] > matching[order[i]]}) = i - 1
          BY <2>5, <3>1, <3>2, PlaceInOrder
    <3> QED  BY <2>5, <3>3 DEF Above
  <2>7. /\ Page(rows) \in Seq(RowType)
        /\ Seen' = Seen \cup IdsOf(Page(rows)) /\ offset' = offset + Limit
        BY <2>3, <2>4, AnswerEffect, SeenGrows DEF IsCut
  <2>8. offset \in Nat /\ Limit \in Nat
        BY OffsetNat, LimitNat
  <2>9. i <= offset' \/ AllShown'
        BY <2>3, <2>6, <2>7, <2>8
  <2>10. i <= offset \/ id \in IdsOf(Page(rows))
    <3>1. i \in 1 .. Len(rows) /\ rows[i].id = id
          BY <2>3, <2>5
    <3> QED  BY <2>3, <2>4, <2>9, <3>1, PageShows
  <2>11. i <= offset => id \in Seen
    <3>1. i <= offset => Cardinality(Above(id)) < offset
          BY <2>3, <2>6, <2>8
    <3> QED  BY <3>1 DEF ListKept
  <2> QED  BY <2>7, <2>10, <2>11
<1>3. CASE AnswerHybrid \/ AnswerWords
  <2>1. query'
        BY <1>3 DEF AnswerHybrid, AnswerWords, Answer, TypeInv, service
  <2> QED  BY <2>1 DEF ListKept
<1>4. CASE UNCHANGED <<query, matching, pages, excused>>
  <2>1. Seen' = Seen /\ offset' = offset /\ AllShown' = AllShown
        BY <1>4, SameSeen DEF AllShown
  <2> QED  BY <1>4, <2>1 DEF ListKept, Above, FoundBy
<1>5. CASE AskForPage \/ ReadVectors \/ ReadWords \/ CountAll \/ Fails
      BY <1>4, <1>5 DEF AskForPage, ReadVectors, ReadWords, CountAll, Fails, table, service,
                        noted
<1>6. CASE UNCHANGED vars
      BY <1>4, <1>6 DEF vars
<1> QED  BY <1>1, <1>2, <1>3, <1>5, <1>6 DEF Next

\* However others create and rewrite between the pages, a client that reads the
\* list to its end has seen every memory that nobody wrote, that shared its
\* second with no other when a page was read, and before which none was deleted.
THEOREM ListIsWhole == Spec => []ListSkipsNone
<1>1. Init => ListKept
  <2> SUFFICES ASSUME Init, NEW id, Cardinality(Above(id)) < offset \/ AllShown
               PROVE  FALSE
      BY DEF ListKept
  <2>1. Len(pages) = 0 /\ offset = 0 /\ ~AllShown
        BY LimitNat DEF Init, offset, AllShown
  <2>2. Cardinality(Above(id)) \in Nat
        BY AboveCounted
  <2> QED  BY <2>1, <2>2
<1>2. ListKept => ListSkipsNone
      BY DEF ListKept, ListSkipsNone, Answered, AllShown
<1> QED  BY <1>1, <1>2, ListKeptStep, TypesAlways, PTL DEF Spec

\* The order of an untied read, and what the two reads then find if the table is
\* read now.
Best(ranks) == CHOOSE order \in Orders(ranks) : TRUE
VectorsNow == Rows(Best(near), "cosine")
WordsNow == Rows(Best(matching), IF fts THEN "bm25" ELSE "none")
FoundNow == IdsOf(WordsNow) \cup IdsOf(VectorsNow)

\* No two memories tie.
Settled == Untied(near) /\ Untied(matching) /\ (hybrid => Distinct(WordsNow, VectorsNow))
Better(id) ==
    {x \in Ids : x \in FoundNow /\ x # id
                  /\ AtLeast(Score(WordsNow, VectorsNow, x), Score(WordsNow, VectorsNow, id))}

\* The memory has place n in the whole answer.
Place(id, n) ==
    \/ hybrid /\ id \in Ids \cap FoundNow /\ n = Cardinality(Better(id)) + 1
    \/ ~hybrid /\ id \in FoundBy(matching) /\ n = Cardinality(Above(id)) + 1
         /\ (query => n <= fetchLimit)

\* While nothing is written and nothing ties, every request reads the same.
ReadsNow ==
    /\ ~hybrid => vecResults = <<>> /\ pc # "vectors"
    /\ writes = 0 /\ Untied(near) /\ Untied(matching) =>
         /\ hybrid /\ pc \in {"words", "merge"} => vecResults = VectorsNow
         /\ pc = "merge" => kwResults = WordsNow /\ Orders(matching) # {}
         /\ Answered /\ query => kwResults = WordsNow /\ Orders(matching) # {}
         /\ Answered /\ hybrid => vecResults = VectorsNow

\* Every page shows the memories whose place is on it.
InPlace ==
    writes = 0 /\ Settled =>
        /\ \A p \in 1 .. Len(pages) : \A i \in 1 .. Len(pages[p]) :
              Place(pages[p][i].id, Limit * (p - 1) + i)
        /\ \A id \in Ids : \A n \in Nat :
              Place(id, n) /\ (n <= offset \/ AllShown) => id \in Seen

\* As many stand before a memory as rank higher, in every order of an untied read.
LEMMA PlaceUntied ==
  ASSUME NEW f \in Ranks, Untied(f), NEW order \in Orders(f), NEW i \in 1 .. Len(order)
  PROVE  Cardinality({x \in Ids : f[x] > f[order[i]]}) = i - 1
  BY Returned, PlaceInOrder DEF Untied

\* An untied read has one order.
LEMMA OneOrder ==
  ASSUME NEW f \in Ranks, Untied(f), NEW order \in Orders(f)
  PROVE  order = Best(f) /\ Best(f) \in Orders(f)
<1> DEFINE best == Best(f)
<1>1. best \in Orders(f)
      BY DEF Best
<1> HIDE DEF best
<1>2. /\ order \in Seq(Ids) /\ Len(order) = Cardinality(FoundBy(f))
      /\ best \in Seq(Ids) /\ Len(best) = Cardinality(FoundBy(f))
      /\ \A i \in 1 .. Len(order) : order[i] \in FoundBy(f)
      /\ \A x \in FoundBy(f) : \E i \in 1 .. Len(best) : best[i] = x
      BY <1>1, Returned
<1>3. ASSUME NEW i \in 1 .. Len(order) PROVE order[i] = best[i]
  <2>1. PICK j \in 1 .. Len(best) : best[j] = order[i]
        BY <1>2
  <2>2. /\ Cardinality({x \in Ids : f[x] > f[order[i]]}) = i - 1
        /\ Cardinality({x \in Ids : f[x] > f[best[j]]}) = j - 1
        BY <1>1, PlaceUntied
  <2>3. i - 1 = j - 1
        BY <2>1, <2>2, Zenon
  <2>4. i = j
        BY <1>2, <2>3
  <2> QED  BY <2>1, <2>4
<1>4. order = best
      BY <1>2, <1>3
<1> QED  BY <1>1, <1>4 DEF best

LEMMA SameTable ==
  ASSUME UNCHANGED <<near, matching, version>>, UNCHANGED service
  PROVE  /\ VectorsNow' = VectorsNow /\ WordsNow' = WordsNow
         /\ Untied(near)' = Untied(near) /\ Untied(matching)' = Untied(matching)
         /\ Settled' = Settled
         /\ \A id, n : Place(id, n)' = Place(id, n)
<1>0. /\ near' = near /\ matching' = matching /\ version' = version
      /\ pinned' = pinned /\ query' = query /\ hybrid' = hybrid /\ fts' = fts
      BY DEF service
<1>1. VectorsNow' = VectorsNow /\ WordsNow' = WordsNow
      BY <1>0 DEF VectorsNow, WordsNow, Rows, Row, fetchLimit, Best, Orders, FoundBy
<1>u. Untied(near)' = Untied(near) /\ Untied(matching)' = Untied(matching)
      BY <1>0 DEF Untied, FoundBy
<1>a. FoundBy(matching)' = FoundBy(matching) /\ \A id : Above(id)' = Above(id)
      BY <1>0 DEF FoundBy, Above
<1>2. \A id : Score(WordsNow, VectorsNow, id)' = Score(WordsNow, VectorsNow, id)
      BY <1>0, <1>1 DEF Score, Fused, InBoth, Rank, IdsOf, Weight, Share, Plus, fetchLimit
<1>3. FoundNow' = FoundNow
      BY <1>1 DEF FoundNow, IdsOf
<1>4. \A id : Better(id)' = Better(id)
      BY <1>2, <1>3 DEF Better, AtLeast
<1>5. Settled' = Settled
      BY <1>0, <1>1, <1>2, <1>u DEF Settled, Distinct, AtLeast, IdsOf
<1>6. \A id, n : Place(id, n)' = Place(id, n)
      BY <1>0, <1>1, <1>3, <1>4, <1>a DEF Place, fetchLimit
<1> QED  BY <1>1, <1>5, <1>6, <1>u

\* In a sorted answer without equal scores, as many stand before a memory as
\* are better.
LEMMA PlaceOfSorted ==
  ASSUME TypeInv, kwResults = WordsNow, vecResults = VectorsNow, hybrid, Settled,
         NEW order \in Sorted(kwResults, vecResults), NEW i \in 1 .. Len(order)
  PROVE  Cardinality(Better(order[i])) = i - 1
<1>1. /\ order \in Seq(Ids) /\ Len(order) \in Nat /\ Range(order) = FoundNow
      /\ \A k, l \in 1 .. Len(order) : order[k] = order[l] => k = l
      /\ \A k, l \in 1 .. Len(order) : k < l =>
           AtLeast(Score(WordsNow, VectorsNow, order[k]), Score(WordsNow, VectorsNow, order[l]))
  <2>1. /\ order \in Seq(Ids) /\ IsInjective(order)
        /\ Range(order) = IdsOf(kwResults) \cup IdsOf(vecResults)
        /\ \A k, l \in 1 .. Len(order) : k < l =>
              AtLeast(Score(kwResults, vecResults, order[k]),
                      Score(kwResults, vecResults, order[l]))
        BY OrderFacts
  <2> QED  BY <2>1, Entries DEF IsInjective, FoundNow
<1>2. \A k \in 1 .. Len(order) : order[k] \in FoundNow
      BY <1>1, Entries
<1>3. \A x \in FoundNow : \E k \in 1 .. Len(order) : order[k] = x
      BY <1>1, Entries
<1> DEFINE f == [k \in 1 .. i - 1 |-> order[k]]
           B == Better(order[i])
<1>4. ASSUME NEW k \in 1 .. i - 1 PROVE order[k] \in B
  <2>1. k \in 1 .. Len(order) /\ k < i /\ k # i
        BY <1>1
  <2>2. order[k] \in Ids /\ order[k] # order[i]
        BY <1>1, <2>1
  <2> QED  BY <1>1, <1>2, <2>1, <2>2 DEF Better
<1>5. ASSUME NEW x \in B PROVE \E k \in 1 .. i - 1 : order[k] = x
  <2>1. /\ x \in FoundNow /\ x # order[i]
        /\ AtLeast(Score(WordsNow, VectorsNow, x), Score(WordsNow, VectorsNow, order[i]))
        BY DEF Better
  <2>2. PICK k \in 1 .. Len(order) : order[k] = x
        BY <1>3, <2>1
  <2>3. k # i
        BY <2>1, <2>2
  <2>4. ~ (i < k)
    <3>1. ASSUME i < k PROVE FALSE
      <4>1. AtLeast(Score(WordsNow, VectorsNow, order[i]), Score(WordsNow, VectorsNow, x))
            BY <1>1, <2>2, <3>1
      <4>2. order[i] \in FoundNow
            BY <1>2
      <4> QED  BY <2>1, <4>1, <4>2 DEF Settled, Distinct, FoundNow
    <3> QED  BY <3>1
  <2>5. k \in 1 .. i - 1
        BY <1>1, <2>3, <2>4
  <2> QED  BY <2>2, <2>5
<1> HIDE DEF B
<1>6. f \in Bijection(1 .. i - 1, B)
  <2>1. f \in [1 .. i - 1 -> B]
        BY <1>4
  <2>2. \A k, l \in 1 .. i - 1 : f[k] = f[l] => k = l
        BY <1>1
  <2>3. \A x \in B : \E k \in 1 .. i - 1 : f[k] = x
        BY <1>5
  <2> QED  BY <2>1, <2>2, <2>3 DEF Bijection, Injection, Surjection, IsInjective
<1>7. i - 1 \in Nat
      BY <1>1
<1>8. ExistsBijection(1 .. i - 1, B)
      BY <1>6, Zenon DEF ExistsBijection
<1> QED  BY <1>7, <1>8, FS_CountingElements DEF B

LEMMA ReadsNowStep == TypeInv /\ ReadsNow /\ [Next]_vars => ReadsNow'
<1> SUFFICES ASSUME TypeInv, ReadsNow, [Next]_vars PROVE ReadsNow'
    OBVIOUS
<1>1. CASE AskForPage
  <2>1. /\ pc' = Begin /\ vecResults' = <<>> /\ UNCHANGED service
        /\ Begin \in {"vectors", "words", "count"}
        /\ Begin = "words" => ~hybrid
        /\ Begin = "vectors" => hybrid
        BY <1>1 DEF AskForPage, Begin
  <2> QED  BY <2>1 DEF ReadsNow, Answered, service
<1>2. CASE ReadVectors
  <2>1. /\ VectorsNow' = VectorsNow
        /\ Untied(near)' = Untied(near) /\ Untied(matching)' = Untied(matching)
        BY <1>2, SameTable DEF ReadVectors, table
  <2>2. PICK order \in Orders(near) : vecResults' = Rows(order, "cosine")
        BY <1>2 DEF ReadVectors
  <2>3. Untied(near) => vecResults' = VectorsNow
        BY <2>2, OneOrder DEF VectorsNow, TypeInv
  <2>4. /\ pc' = "words" /\ pc = "vectors" /\ writes' = writes /\ hybrid' = hybrid
        BY <1>2 DEF ReadVectors, table, service
  <2> QED  BY <2>1, <2>3, <2>4 DEF ReadsNow, Answered
<1>3. CASE ReadWords
  <2>1. /\ VectorsNow' = VectorsNow /\ WordsNow' = WordsNow
        /\ Untied(near)' = Untied(near) /\ Untied(matching)' = Untied(matching)
        BY <1>3, SameTable DEF ReadWords, table
  <2>2. PICK order \in Orders(matching) :
           kwResults' = Rows(order, IF fts THEN "bm25" ELSE "none")
        BY <1>3 DEF ReadWords
  <2>3. Untied(matching) => kwResults' = WordsNow
        BY <2>2, OneOrder DEF WordsNow, TypeInv
  <2>4. Orders(matching)' # {}
    <3>1. matching' = matching
          BY <1>3 DEF ReadWords, table
    <3> QED  BY <2>2, <3>1 DEF Orders, FoundBy
  <2>5. /\ pc = "words" /\ pc' = "merge" /\ UNCHANGED <<table, service, vecResults>>
        BY <1>3 DEF ReadWords
  <2> QED  BY <2>1, <2>3, <2>4, <2>5 DEF ReadsNow, Answered, service, table
<1>4. CASE AnswerHybrid \/ AnswerWords
  <2>1. /\ pc = "merge" /\ pc' = "idle"
        /\ UNCHANGED <<table, service, vecResults, kwResults>>
        BY <1>4 DEF AnswerHybrid, AnswerWords, Answer
  <2>2. /\ VectorsNow' = VectorsNow /\ WordsNow' = WordsNow
        /\ Untied(near)' = Untied(near) /\ Untied(matching)' = Untied(matching)
        BY <2>1, SameTable DEF table
  <2>3. Orders(matching)' = Orders(matching)
        BY <2>1 DEF table, Orders, FoundBy
  <2> QED  BY <2>1, <2>2, <2>3 DEF ReadsNow, Answered, service, table
<1>5. CASE CountAll \/ ReadPage \/ Fails
  <2>1. /\ pc' \in {"list", "failed", "idle"} /\ (pc' = "idle" => ~query /\ ~hybrid)
        /\ UNCHANGED <<table, service, vecResults, kwResults>>
        BY <1>5 DEF CountAll, ReadPage, Fails, TypeInv
  <2> QED  BY <2>1 DEF ReadsNow, Answered, service
<1>6. CASE \E id \in Ids : Write(id)
  <2>1. writes' # 0 /\ UNCHANGED <<service, pc, vecResults>>
        BY <1>6, LimitNat DEF Write, TypeInv
  <2> QED  BY <2>1 DEF ReadsNow, service
<1>7. CASE UNCHANGED vars
  <2>1. /\ VectorsNow' = VectorsNow /\ WordsNow' = WordsNow
        /\ Untied(near)' = Untied(near) /\ Untied(matching)' = Untied(matching)
        BY <1>7, SameTable DEF vars, service
  <2>2. Orders(matching)' = Orders(matching)
        BY <1>7 DEF vars, Orders, FoundBy
  <2> QED  BY <1>7, <2>1, <2>2 DEF vars, ReadsNow, Answered
<1> QED  BY <1>1, <1>2, <1>3, <1>4, <1>5, <1>6, <1>7 DEF Next

\* An answer whose rows stand in their places puts its page in its place.
LEMMA InPlaceAnswer ==
  ASSUME TypeInv, InPlace, NEW rows \in Seq(RowType), pages' = Append(pages, Page(rows)),
         UNCHANGED <<near, matching, version, writes>>, UNCHANGED service,
         writes = 0 /\ Settled =>
           \A id \in Ids : \A n \in Nat :
              Place(id, n) <=> n \in 1 .. Len(rows) /\ rows[n].id = id
  PROVE  InPlace'
<1>1. /\ Settled' = Settled /\ writes' = writes
      /\ \A id, n : Place(id, n)' = Place(id, n)
      BY SameTable
<1> SUFFICES ASSUME writes = 0, Settled
             PROVE  /\ \A p \in 1 .. Len(pages') : \A i \in 1 .. Len(pages'[p]) :
                          Place(pages'[p][i].id, Limit * (p - 1) + i)
                    /\ \A id \in Ids : \A n \in Nat :
                          Place(id, n) /\ (n <= offset' \/ AllShown') => id \in Seen'
    BY <1>1 DEF InPlace
<1>2. /\ IsCut(Page(rows), rows, offset) /\ Page(rows) \in Seq(RowType)
      /\ Len(Page(rows)) <= Limit
      BY AnswerEffect DEF IsCut
<1>3. /\ Len(pages') = Len(pages) + 1 /\ Len(pages) \in Nat
      /\ \A p \in 1 .. Len(pages) : pages'[p] = pages[p]
      /\ pages'[Len(pages) + 1] = Page(rows)
      BY <1>2, AppendPage DEF TypeInv
<1>4. offset \in Nat /\ Limit * ((Len(pages) + 1) - 1) = offset
  <2>1. (Len(pages) + 1) - 1 = Len(pages)
        BY <1>3
  <2> QED  BY <2>1, OffsetNat DEF offset
<1>5. ASSUME NEW p \in 1 .. Len(pages'), NEW i \in 1 .. Len(pages'[p])
      PROVE  Place(pages'[p][i].id, Limit * (p - 1) + i)
  <2>1. CASE p \in 1 .. Len(pages)
    <3>1. pages'[p] = pages[p]
          BY <1>3, <2>1
    <3> QED  BY <2>1, <3>1 DEF InPlace
  <2>2. CASE p = Len(pages) + 1
    <3>1. pages'[p] = Page(rows) /\ i \in 1 .. Len(Page(rows))
          BY <1>3, <2>2
    <3>2. offset + i \in 1 .. Len(rows) /\ Page(rows)[i] = rows[offset + i]
          BY <1>2, <3>1 DEF IsCut
    <3>3. rows[offset + i].id \in Ids /\ offset + i \in Nat
          BY <3>2, EntriesOfRows
    <3>4. Place(rows[offset + i].id, offset + i)
          BY <3>2, <3>3
    <3>5. Limit * (p - 1) = offset
          BY <1>4, <2>2
    <3> QED  BY <3>1, <3>2, <3>4, <3>5
  <2> QED  BY <1>3, <2>1, <2>2
<1>6. ASSUME NEW id \in Ids, NEW n \in Nat, Place(id, n), n <= offset' \/ AllShown'
      PROVE  id \in Seen'
  <2>1. n \in 1 .. Len(rows) /\ rows[n].id = id
        BY <1>6
  <2>2. n <= offset \/ id \in IdsOf(Page(rows))
        BY <1>6, <2>1, PageShows
  <2>3. Seen' = Seen \cup IdsOf(Page(rows))
        BY <1>2, SeenGrows
  <2> QED  BY <1>6, <2>2, <2>3 DEF InPlace
<1> QED  BY <1>5, <1>6

LEMMA HybridInPlace ==
  ASSUME TypeInv, kwResults = WordsNow, vecResults = VectorsNow, hybrid, Settled,
         NEW order \in Sorted(kwResults, vecResults), NEW id \in Ids, NEW n \in Nat
  PROVE  Place(id, n) <=> n \in 1 .. Len(Ordered(order)) /\ Ordered(order)[n].id = id
<1>1. /\ Len(Ordered(order)) = Len(order)
      /\ \A i \in 1 .. Len(order) : Ordered(order)[i].id = order[i]
      BY OrderedRows
<1>2. order \in Seq(Ids) /\ Range(order) = FoundNow
      BY OrderFacts DEF FoundNow
<1>3. \A i \in 1 .. Len(order) : Cardinality(Better(order[i])) = i - 1
      BY PlaceOfSorted
<1>4. Place(id, n) <=> id \in FoundNow /\ n = Cardinality(Better(id)) + 1
      BY DEF Place
<1>5. ASSUME n \in 1 .. Len(order), order[n] = id PROVE Place(id, n)
  <2>1. id \in FoundNow /\ Cardinality(Better(id)) = n - 1
        BY <1>2, <1>3, <1>5, Entries
  <2> QED  BY <1>4, <2>1
<1>6. ASSUME Place(id, n) PROVE n \in 1 .. Len(order) /\ order[n] = id
  <2>1. PICK k \in 1 .. Len(order) : order[k] = id
        BY <1>2, <1>4, <1>6, Entries
  <2>2. n = (k - 1) + 1
        BY <1>3, <1>4, <1>6, <2>1
  <2>3. n = k
        BY <2>2
  <2> QED  BY <2>1, <2>3
<1> QED  BY <1>1, <1>5, <1>6

\* Where an untied list has a memory.
LEMMA PlacedInList ==
  ASSUME TypeInv, Untied(matching), NEW order \in Orders(matching), NEW id \in Ids,
         NEW n \in Nat
  PROVE  id \in FoundBy(matching) /\ n = Cardinality(Above(id)) + 1
           <=> n \in 1 .. Len(order) /\ order[n] = id
<1>1. matching \in Ranks
      BY DEF TypeInv
<1>2. /\ order \in Seq(Ids) /\ Len(order) \in Nat
      /\ \A i \in 1 .. Len(order) : order[i] \in FoundBy(matching)
      /\ \A x \in FoundBy(matching) : \E i \in 1 .. Len(order) : order[i] = x
      BY <1>1, Returned
<1>3. ASSUME NEW i \in 1 .. Len(order) PROVE Cardinality(Above(order[i])) = i - 1
  <2>1. Cardinality({x \in Ids : matching[x] > matching[order[i]]}) = i - 1
        BY <1>1, PlaceUntied
  <2> QED  BY <2>1 DEF Above
<1>4. ASSUME n \in 1 .. Len(order), order[n] = id
      PROVE  id \in FoundBy(matching) /\ n = Cardinality(Above(id)) + 1
  <2>1. Cardinality(Above(id)) = n - 1
        BY <1>3, <1>4
  <2> QED  BY <1>2, <1>4, <2>1
<1>5. ASSUME id \in FoundBy(matching), n = Cardinality(Above(id)) + 1
      PROVE  n \in 1 .. Len(order) /\ order[n] = id
  <2>1. PICK k \in 1 .. Len(order) : order[k] = id
        BY <1>2, <1>5
  <2>2. Cardinality(Above(id)) = k - 1
        BY <1>3, <2>1
  <2>3. n = k
        BY <1>2, <1>5, <2>2
  <2> QED  BY <2>1, <2>3
<1> QED  BY <1>4, <1>5

LEMMA WordsInPlace ==
  ASSUME TypeInv, Untied(matching), Best(matching) \in Orders(matching), query, ~hybrid,
         NEW id \in Ids, NEW n \in Nat
  PROVE  Place(id, n) <=> n \in 1 .. Len(WordsNow) /\ WordsNow[n].id = id
<1> DEFINE best == Best(matching)
           score == IF fts THEN "bm25" ELSE "none"
<1>1. best \in Seq(Ids) /\ IsInjective(best) /\ score \in {"cosine", "bm25", "none"}
      BY Returned DEF TypeInv
<1>2. id \in FoundBy(matching) /\ n = Cardinality(Above(id)) + 1
           <=> n \in 1 .. Len(best) /\ best[n] = id
      BY PlacedInList
<1>3. WordsNow = Rows(best, score)
      BY DEF WordsNow
<1> HIDE DEF best, score
<1>4. /\ \A i \in 1 .. Len(Rows(best, score)) :
              i \in 1 .. Len(best) /\ Rows(best, score)[i] = Row(best[i], score)
      /\ Len(Rows(best, score)) = IF Len(best) <= fetchLimit THEN Len(best) ELSE fetchLimit
      BY <1>1, RowsRead
<1>5. n \in 1 .. Len(Rows(best, score)) <=> n \in 1 .. Len(best) /\ n <= fetchLimit
  <2>1. Len(best) \in Nat /\ fetchLimit \in Nat
        BY <1>1, LimitNat
  <2> QED  BY <1>4, <2>1
<1>6. n \in 1 .. Len(Rows(best, score)) => Rows(best, score)[n].id = best[n]
  <2>1. \A x : Row(x, score).id = x
        BY DEF Row
  <2> QED  BY <1>4, <2>1
<1> QED  BY <1>2, <1>3, <1>5, <1>6 DEF Place

LEMMA InPlaceStep == TypeInv /\ ReadsNow /\ InPlace /\ [Next]_vars => InPlace'
<1> SUFFICES ASSUME TypeInv, ReadsNow, InPlace, [Next]_vars PROVE InPlace'
    OBVIOUS
<1>1. CASE AnswerHybrid
  <2>1. PICK order \in Sorted(kwResults, vecResults) : Answer(Ordered(order))
        BY <1>1 DEF AnswerHybrid, Ordered
  <2>2. /\ pages' = Append(pages, Page(Ordered(order)))
        /\ UNCHANGED <<near, matching, version, writes>> /\ UNCHANGED service
        /\ Ordered(order) \in Seq(RowType)
        BY <2>1, HybridAnswer DEF Answer, table
  <2>3. ASSUME writes = 0, Settled, NEW id \in Ids, NEW n \in Nat
        PROVE  Place(id, n) <=>
                 n \in 1 .. Len(Ordered(order)) /\ Ordered(order)[n].id = id
    <3>1. hybrid /\ kwResults = WordsNow /\ vecResults = VectorsNow
          BY <1>1, <2>3 DEF AnswerHybrid, ReadsNow, Settled
    <3> QED  BY <2>3, <3>1, HybridInPlace
  <2> QED  BY <2>2, <2>3, InPlaceAnswer
<1>2. CASE AnswerWords
  <2>1. /\ pages' = Append(pages, Page(kwResults)) /\ query /\ ~hybrid
        /\ UNCHANGED <<near, matching, version, writes>> /\ UNCHANGED service
        /\ kwResults \in Seq(RowType)
        BY <1>2 DEF AnswerWords, Answer, TypeInv, Read, table
  <2>2. ASSUME writes = 0, Settled, NEW id \in Ids, NEW n \in Nat
        PROVE  Place(id, n) <=> n \in 1 .. Len(kwResults) /\ kwResults[n].id = id
    <3>1. kwResults = WordsNow /\ Orders(matching) # {} /\ Untied(matching)
          BY <1>2, <2>2 DEF AnswerWords, ReadsNow, Settled
    <3>2. Best(matching) \in Orders(matching)
          BY <3>1 DEF Best
    <3> QED  BY <2>1, <3>1, <3>2, WordsInPlace
  <2> QED  BY <2>1, <2>2, InPlaceAnswer
<1>3. CASE ReadPage
  <2>1. PICK order \in Orders(matching) : pages' = Append(pages, Page(Listed(order)))
        BY <1>3, ReadPageEffect
  <2>2. /\ ~query /\ ~hybrid
        /\ UNCHANGED <<near, matching, version, writes>> /\ UNCHANGED service
        BY <1>3, ReadPageEffect DEF ReadPage, TypeInv, table
  <2> DEFINE rows == Listed(order)
  <2>3. /\ rows \in Seq(RowType) /\ Len(rows) = Len(order)
        /\ \A i \in 1 .. Len(order) : rows[i].id = order[i]
        BY ListedRows
  <2>4. pages' = Append(pages, Page(rows))
        BY <2>1
  <2> HIDE DEF rows
  <2>5. ASSUME Untied(matching), NEW id \in Ids, NEW n \in Nat
        PROVE  Place(id, n) <=> n \in 1 .. Len(rows) /\ rows[n].id = id
    <3>1. id \in FoundBy(matching) /\ n = Cardinality(Above(id)) + 1
             <=> n \in 1 .. Len(order) /\ order[n] = id
          BY <2>5, PlacedInList
    <3> QED  BY <2>2, <2>3, <3>1 DEF Place
  <2> QED  BY <2>2, <2>3, <2>4, <2>5, InPlaceAnswer DEF Settled
<1>4. CASE \E id \in Ids : Write(id)
  <2>1. writes' # 0
        BY <1>4, LimitNat DEF Write, TypeInv
  <2> QED  BY <2>1 DEF InPlace
<1>5. ASSUME UNCHANGED <<near, matching, version, writes>>, UNCHANGED service,
             UNCHANGED pages
      PROVE  InPlace'
  <2>1. Seen' = Seen /\ offset' = offset /\ AllShown' = AllShown
        BY <1>5, SameSeen DEF AllShown
  <2>2. Settled' = Settled /\ \A id, n : Place(id, n)' = Place(id, n)
        BY <1>5, SameTable
  <2> QED  BY <1>5, <2>1, <2>2 DEF InPlace
<1>6. CASE AskForPage \/ ReadVectors \/ ReadWords \/ CountAll \/ Fails
      BY <1>5, <1>6 DEF AskForPage, ReadVectors, ReadWords, CountAll, Fails, table
<1>7. CASE UNCHANGED vars
      BY <1>5, <1>7 DEF vars, service
<1> QED  BY <1>1, <1>2, <1>3, <1>4, <1>6, <1>7 DEF Next

LEMMA PlacesCounted ==
  ASSUME NEW id
  PROVE  /\ Cardinality(Better(id)) \in Nat
         /\ \A n : Place(id, n) => id \in Ids /\ n \in Nat /\ n > 0
<1>1. Better(id) \subseteq Ids
      BY DEF Better
<1>2. Cardinality(Better(id)) \in Nat
      BY <1>1, SearchAssumption, FS_Subset, FS_CardinalityType
<1>3. Cardinality(Above(id)) \in Nat /\ FoundBy(matching) \subseteq Ids
      BY AboveCounted DEF FoundBy
<1> QED  BY <1>2, <1>3 DEF Place

\* Every memory has one place, and those that have one are those that are found.
LEMMA OnePlace ==
  ASSUME NEW id, NEW m, NEW n, Place(id, m), Place(id, n)
  PROVE  m = n
  BY DEF Place

LEMMA PlacedIsFound ==
  ASSUME TypeInv, ReadsNow, Answered, writes = 0, Settled, NEW id
  PROVE  id \in Found <=> \E n \in Nat : Place(id, n)
<1>u. Untied(near) /\ Untied(matching)
      BY DEF Settled
<1>1. CASE hybrid
  <2>1. query /\ kwResults = WordsNow /\ vecResults = VectorsNow
        BY <1>1, <1>u DEF TypeInv, ReadsNow
  <2>2. Found = FoundNow /\ FoundNow \subseteq Ids
    <3>1. kwResults \in Seq(RowType) /\ vecResults \in Seq(RowType)
          BY DEF TypeInv, Read
    <3> QED  BY <2>1, <3>1, EntriesOfRows DEF Found, FoundNow
  <2>3. Cardinality(Better(id)) + 1 \in Nat
        BY PlacesCounted
  <2> QED  BY <1>1, <2>2, <2>3 DEF Place
<1>2. CASE query /\ ~hybrid
  <2>1. /\ kwResults = WordsNow /\ vecResults = <<>> /\ Orders(matching) # {}
        /\ kwResults \in Seq(RowType)
        BY <1>2, <1>u DEF ReadsNow, TypeInv, Read
  <2>2. Found = IdsOf(kwResults)
        BY <1>2, <2>1, NothingFound DEF Found
  <2>3. Best(matching) \in Orders(matching)
        BY <2>1 DEF Best
  <2>4. /\ IdsOf(kwResults) \subseteq Ids
        /\ IdsOf(kwResults) = {kwResults[i].id : i \in 1 .. Len(kwResults)}
        /\ \A i \in 1 .. Len(kwResults) : i \in Nat
        BY <2>1, EntriesOfRows
  <2>5. ASSUME NEW n \in Nat, id \in Ids
        PROVE  Place(id, n) <=> n \in 1 .. Len(kwResults) /\ kwResults[n].id = id
        BY <1>2, <1>u, <2>1, <2>3, <2>5, WordsInPlace
  <2>6. ASSUME id \in Found PROVE \E n \in Nat : Place(id, n)
    <3>1. PICK i \in 1 .. Len(kwResults) : kwResults[i].id = id
          BY <2>2, <2>4, <2>6
    <3>2. i \in Nat /\ id \in Ids
          BY <2>2, <2>4, <2>6
    <3> QED  BY <2>5, <3>1, <3>2
  <2>7. ASSUME NEW n \in Nat, Place(id, n) PROVE id \in Found
    <3>1. id \in Ids
          BY <2>7, PlacesCounted
    <3>2. n \in 1 .. Len(kwResults) /\ kwResults[n].id = id
          BY <2>5, <2>7, <3>1
    <3> QED  BY <2>2, <2>4, <3>2
  <2> QED  BY <2>6, <2>7
<1>3. CASE ~query
  <2>1. Found = FoundBy(matching) /\ ~hybrid
        BY <1>3 DEF Found, TypeInv
  <2>2. Cardinality(Above(id)) + 1 \in Nat
        BY AboveCounted
  <2> QED  BY <1>3, <2>1, <2>2 DEF Place
<1> QED  BY <1>1, <1>2, <1>3

\* The same row of all the pages is the same row of the same page.
LEMMA SameRow ==
  ASSUME NEW p \in Nat, NEW q \in Nat, NEW i \in 1 .. Limit, NEW j \in 1 .. Limit,
         Limit * (p - 1) + i = Limit * (q - 1) + j
  PROVE  p = q /\ i = j
<1> DEFINE l == Limit
<1>1. l \in Nat /\ l > 0
      BY LimitNat
<1> HIDE DEF l
<1>2. ASSUME NEW x \in Nat, NEW y \in Nat, NEW a \in 1 .. l, NEW b \in 1 .. l,
             l * (x - 1) + a = l * (y - 1) + b
      PROVE  ~ (x < y)
  <2>1. ASSUME x < y PROVE FALSE
    <3>1. x <= y - 1 /\ x \in Nat /\ y - 1 \in Nat
          BY <2>1
    <3>2. l * x <= l * (y - 1)
          BY <1>1, <3>1, TimesAtMost
    <3>3. l * (x - 1) + l = l * x
          BY <1>1
    <3> QED  BY <1>1, <1>2, <3>2, <3>3
  <2> QED  BY <2>1
<1>3. ~ (p < q) /\ ~ (q < p)
      BY <1>2 DEF l
<1>4. p = q
      BY <1>3
<1> QED  BY <1>1, <1>4 DEF l

\* Read page by page while nothing is written and nothing ties, an answer is cut
\* into pages that share nothing and leave nothing out: the list, one ranking,
\* and the fusion of two, whose scores alone then decide the order.
THEOREM PagesAreParts == Spec => []PagesPartition
<1>1. Init => ReadsNow /\ InPlace
  <2> SUFFICES ASSUME Init PROVE ReadsNow /\ InPlace
      OBVIOUS
  <2>1. TypeInv
        BY InitTypes
  <2>2. ReadsNow
        BY DEF Init, ReadsNow, Answered
  <2>3. Len(pages) = 0 /\ offset = 0 /\ ~AllShown
        BY LimitNat DEF Init, offset, AllShown
  <2>4. ASSUME NEW id, NEW n \in Nat, Place(id, n) PROVE n > 0
        BY <2>4, PlacesCounted
  <2>5. ASSUME NEW id, NEW n \in Nat, Place(id, n) PROVE ~ (n <= offset \/ AllShown)
        BY <2>3, <2>4, <2>5
  <2>6. InPlace
        BY <2>3, <2>5 DEF InPlace
  <2> QED  BY <2>2, <2>6
<1>2. TypeInv /\ ReadsNow /\ InPlace => PagesPartition
  <2> SUFFICES ASSUME TypeInv, ReadsNow, InPlace, Answered, writes = 0,
                      Untied(near), Untied(matching),
                      hybrid => Distinct(kwResults, vecResults)
               PROVE  /\ \A p, q \in DOMAIN pages :
                           \A i \in DOMAIN pages[p], j \in DOMAIN pages[q] :
                              pages[p][i].id = pages[q][j].id => p = q /\ i = j
                      /\ AllShown => Seen = Found
      BY DEF PagesPartition, Answered, AllShown
  <2>1. Settled
        BY DEF Settled, ReadsNow, TypeInv
  <2>2. /\ DOMAIN pages = 1 .. Len(pages)
        /\ \A p \in 1 .. Len(pages) : /\ pages[p] \in Seq(RowType)
                                       /\ DOMAIN pages[p] = 1 .. Len(pages[p])
                                       /\ Len(pages[p]) \in Nat /\ Len(pages[p]) <= Limit
        BY DEF TypeInv
  <2>3. \A p \in 1 .. Len(pages) : \A i \in 1 .. Len(pages[p]) :
           Place(pages[p][i].id, Limit * (p - 1) + i)
        BY <2>1 DEF InPlace
  <2>4. ASSUME NEW p \in DOMAIN pages, NEW q \in DOMAIN pages,
               NEW i \in DOMAIN pages[p], NEW j \in DOMAIN pages[q],
               pages[p][i].id = pages[q][j].id
        PROVE  p = q /\ i = j
    <3>1. /\ p \in Nat /\ i \in 1 .. Limit /\ q \in Nat /\ j \in 1 .. Limit
          BY <2>2, LimitNat
    <3>2. /\ Place(pages[p][i].id, Limit * (p - 1) + i)
          /\ Place(pages[p][i].id, Limit * (q - 1) + j)
          BY <2>2, <2>3, <2>4
    <3>3. Limit * (p - 1) + i = Limit * (q - 1) + j
          BY <3>2, OnePlace
    <3> QED  BY <3>1, <3>3, SameRow
  <2>5. ASSUME AllShown, NEW id \in Found PROVE id \in Seen
    <3>1. PICK n \in Nat : Place(id, n)
          BY <2>1, PlacedIsFound
    <3>2. id \in Ids
          BY <3>1, PlacesCounted
    <3> QED  BY <2>1, <2>5, <3>1, <3>2 DEF InPlace
  <2>6. ASSUME NEW id \in Seen PROVE id \in Found
    <3>1. PICK p \in 1 .. Len(pages) : id \in IdsOf(pages[p])
      <4>1. PICK page \in Range(pages) : id \in IdsOf(page)
            BY DEF Seen
      <4> QED  BY <4>1, Entries DEF TypeInv
    <3>2. PICK i \in 1 .. Len(pages[p]) : pages[p][i].id = id
          BY <2>2, <3>1, EntriesOfRows
    <3>3. Place(id, Limit * (p - 1) + i)
          BY <2>3, <3>2
    <3>4. Limit * (p - 1) + i \in Nat
      <4>1. p - 1 \in Nat /\ i \in Nat /\ Limit \in Nat
            BY <2>2, LimitNat
      <4> QED  BY <4>1
    <3> QED  BY <2>1, <3>3, <3>4, PlacedIsFound
  <2> QED  BY <2>4, <2>5, <2>6
<1>3. TypeInv /\ ReadsNow /\ InPlace /\ [Next]_vars => ReadsNow' /\ InPlace'
      BY ReadsNowStep, InPlaceStep
<1> QED  BY <1>1, <1>2, <1>3, TypesAlways, PTL DEF Spec
==============================================================================
