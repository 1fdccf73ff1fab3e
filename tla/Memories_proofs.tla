--------------------------- MODULE Memories_proofs ---------------------------
(***************************************************************************)
(* Proofs about Memories, for any memories, texts and calls, any mixture   *)
(* of kinds of calls, any bounds and any set of faults.                    *)
(***************************************************************************)
EXTENDS Memories, FiniteSetTheorems, TLAPS

-----------------------------------------------------------------------------
(* The inductive invariant                                                 *)

Born(i) == mem[i].state # "none"
CreatedBy(c) == {i \in Ids : author[i] = c}
RangeOf(s) == {s[k] : k \in DOMAIN s}

\* A result names nothing outside S, and all of S if it carries no warning.
Agrees(ids, warned, S) ==
    RangeOf(ids) \subseteq S /\ (~warned => S \subseteq RangeOf(ids))

\* What is known of the rows: one that is not inserted yet has no author and
\* no heir, a pipeline inserts insights only, updates and deletions insert
\* nothing, and an embedding is that of the row's own text.
RowOK(i) ==
    /\ Born(i) \/ (author[i] = NoCall /\ mem[i].supersededBy = NoId)
    /\ \A c \in Calls : author[i] = c =>
         /\ ~Is(c, {"update", "delete"})
         /\ Is(c, {"create", "ingest"}) => mem[i].type = "insight"
    /\ mem[i].embedding \in {Nothing, mem[i].content}

\* Only calls of some kinds come to a place in the code, the index of a loop
\* stays within the list it walks through, and only a call that is over has an
\* outcome.
PlaceOK(c) ==
    /\ call[c].pc # "done" => call[c].out = "none"
    /\ call[c].pc = "new" => call[c].next = 1
    /\ call[c].pc \in {"gather", "addall", "decide"} => Is(c, {"create", "ingest"})
    /\ call[c].pc \in {"patch", "patchwrite", "fetch"} => Is(c, {"create"})
    /\ call[c].pc = "write" => Is(c, {"update"})
    /\ call[c].pc \in {"gather", "addall"} => call[c].next \in 1..Len(call[c].facts)
    /\ call[c].pc \in {"patch", "patchwrite"} => call[c].next \in 1..Len(call[c].ids)
    /\ call[c].pc = "fetch" => Len(call[c].ids) > 0

\* What a call has seen of a memory stays true of it, but for its state.
SeenOK(c) ==
    \A i \in Ids : call[c].seen[i] # "unseen" =>
                     Born(i) /\ call[c].seen[i] = mem[i].type

\* The row a call means to write is there, and a create patches its own rows.
CopyOK(c) ==
    call[c].pc \in {"write", "patchwrite"} =>
      /\ call[c].id \in Ids /\ Born(call[c].id)
      /\ call[c].copy.embedding \in {Nothing, call[c].copy.content}
      /\ call[c].pc = "patchwrite" => call[c].id \in CreatedBy(c)

\* Nothing is created before the facts are gathered, and from then on the
\* result grows with the table.
ResultOK(c) ==
    /\ call[c].pc \in {"new", "gather"} => CreatedBy(c) = {} /\ call[c].ids = <<>>
    /\ Is(c, {"create", "ingest"}) =>
         Agrees(call[c].ids, call[c].warned, CreatedBy(c))
    /\ "lost" \notin Faults /\ call[c].out = "failed" => CreatedBy(c) = {}

CallOK(c) == PlaceOK(c) /\ SeenOK(c) /\ CopyOK(c) /\ ResultOK(c)

MemoryInv ==
    /\ TypeOK
    /\ \A i \in Ids : RowOK(i)
    /\ \A c \in Calls : CallOK(c)

-----------------------------------------------------------------------------
(* Rows                                                                    *)

LEMMA NewMemoryType ==
  ASSUME NEW type \in Types, NEW f \in Facts \cup {Nothing}, NEW g \in BOOLEAN,
         NEW e \in Facts \cup {Nothing}
  PROVE /\ NewMemory(type, f, g, e) \in Memory
        /\ NewMemory(type, f, g, e).state = "active"
        /\ NewMemory(type, f, g, e).type = type
        /\ NewMemory(type, f, g, e).content = f
        /\ NewMemory(type, f, g, e).embedding = e
        /\ NewMemory(type, f, g, e).supersededBy = NoId
  BY DEF NewMemory, Memory

LEMMA UnbornType ==
  /\ Unborn \in Memory
  /\ Unborn.state = "none"
  /\ Unborn.type = "insight"
  /\ Unborn.embedding = Nothing
  /\ Unborn.supersededBy = NoId
  BY DEF Unborn, NewMemory, Memory, Types

LEMMA EmbeddingType ==
  ASSUME NEW f \in Facts
  PROVE EmbeddingOf(f) \in Facts \cup {Nothing} /\ EmbeddingOf(f) \in {Nothing, f}
  BY DEF EmbeddingOf

LEMMA InsightType ==
  ASSUME NEW f \in Facts
  PROVE /\ Insight(f) \in Memory
        /\ Insight(f).state = "active"
        /\ Insight(f).type = "insight"
        /\ Insight(f).supersededBy = NoId
        /\ Insight(f).embedding \in {Nothing, Insight(f).content}
<1>1. /\ "insight" \in Types /\ FALSE \in BOOLEAN /\ f \in Facts \cup {Nothing}
      /\ EmbeddingOf(f) \in Facts \cup {Nothing} /\ EmbeddingOf(f) \in {Nothing, f}
      BY EmbeddingType DEF Types
<1> QED  BY <1>1 DEF Insight, NewMemory, Memory

\* The rows that the read and write statements make of others.
LEMMA RowTypes ==
  ASSUME NEW m \in Memory
  PROVE /\ [m EXCEPT !.embedding = Nothing] \in Memory
        /\ [m EXCEPT !.embedding = Nothing].embedding = Nothing
        /\ [m EXCEPT !.embedding = Nothing].content = m.content
        /\ [m EXCEPT !.tagged = TRUE] \in Memory
        /\ [m EXCEPT !.tagged = TRUE].embedding = m.embedding
        /\ [m EXCEPT !.tagged = TRUE].content = m.content
        /\ \A f \in Facts, e \in Facts \cup {Nothing} :
             /\ [m EXCEPT !.content = f, !.embedding = e] \in Memory
             /\ [m EXCEPT !.content = f, !.embedding = e].content = f
             /\ [m EXCEPT !.content = f, !.embedding = e].embedding = e
        /\ \A s \in {"archived", "deleted"} :
             /\ [m EXCEPT !.state = s] \in Memory
             /\ [m EXCEPT !.state = s].state = s
             /\ [m EXCEPT !.state = s].type = m.type
             /\ [m EXCEPT !.state = s].content = m.content
             /\ [m EXCEPT !.state = s].embedding = m.embedding
             /\ [m EXCEPT !.state = s].supersededBy = m.supersededBy
  BY DEF Memory

LEMMA ArchivedRow ==
  ASSUME NEW m \in Memory, NEW n \in Ids, NEW o, o = ArchivedFor(m, n)
  PROVE /\ o \in Memory /\ o.state = "archived" /\ o.type = m.type
        /\ o.content = m.content /\ o.embedding = m.embedding
        /\ o.supersededBy = n
  BY DEF Memory, ArchivedFor

LEMMA UpdatedRow ==
  ASSUME NEW m \in Memory, NEW r \in Memory, NEW u, u = Updated(m, r)
  PROVE /\ u \in Memory /\ u.state = m.state /\ u.type = m.type
        /\ u.content = r.content /\ u.embedding = r.embedding
        /\ u.supersededBy = m.supersededBy
<1>1. /\ r.content \in Facts \cup {Nothing} /\ r.tagged \in BOOLEAN
      /\ r.embedding \in Facts \cup {Nothing} /\ m.version + 1 \in Nat
      BY DEF Memory
<1> QED  BY <1>1 DEF Memory, Updated

-----------------------------------------------------------------------------
(* What a statement does to the table                                      *)

\* Whatever a step of a call does, a row that is there stays there, with its
\* type and its author, and what is new is the call's.
TableStep(c) ==
    \A i \in Ids :
      /\ Born(i) => Born(i)' /\ mem'[i].type = mem[i].type /\ author'[i] = author[i]
      /\ author'[i] # author[i] => author'[i] = c

TableOK ==
    /\ mem \in [Ids -> Memory]
    /\ author \in [Ids -> Calls \cup {NoCall}]
    /\ \A i \in Ids : RowOK(i)

LEMMA TableKept ==
  ASSUME TableOK, UNCHANGED <<mem, author>>
  PROVE TableOK' /\ \A c \in Calls : TableStep(c) /\ CreatedBy(c)' = CreatedBy(c)
  BY DEF TableOK, TableStep, RowOK, Born, CreatedBy

LEMMA InsertSomeStep ==
  ASSUME TableOK, NEW c \in Calls, NEW o, NEW S \in SUBSET UnusedIds,
         NEW new \in [S -> Memory],
         ~Is(c, {"update", "delete"}),
         \A i \in S : /\ new[i].state = "active"
                      /\ Is(c, {"create", "ingest"}) => new[i].type = "insight"
                      /\ new[i].embedding \in {Nothing, new[i].content},
         InsertSome(c, new, o)
  PROVE /\ TableOK'
        /\ TableStep(c)
        /\ CreatedBy(c)' = IF o = "dberr" THEN CreatedBy(c) ELSE CreatedBy(c) \cup S
<1>1. CASE o = "dberr"
      BY <1>1, TableKept DEF InsertSome
<1>2. CASE o # "dberr"
  <2>1. /\ mem' = [i \in Ids |-> IF i \in S THEN new[i] ELSE mem[i]]
        /\ author' = [i \in Ids |-> IF i \in S THEN c ELSE author[i]]
        BY <1>2 DEF InsertSome
  <2>2. \A i \in S : i \in Ids /\ ~Born(i)
        BY DEF UnusedIds, Born
  <2>3. mem' \in [Ids -> Memory] /\ author' \in [Ids -> Calls \cup {NoCall}]
        BY <2>1 DEF TableOK
  <2>4. ASSUME NEW i \in Ids  PROVE RowOK(i)'
    <3>1. CASE i \in S
      <4>1. mem'[i] = new[i] /\ author'[i] = c
            BY <2>1, <3>1
      <4> QED  BY <3>1, <4>1 DEF RowOK, Born, Is
    <3>2. CASE i \notin S
      <4>1. mem'[i] = mem[i] /\ author'[i] = author[i]
            BY <2>1, <3>2
      <4> QED  BY <4>1 DEF TableOK, RowOK, Born, Is
    <3> QED  BY <3>1, <3>2
  <2>5. TableStep(c)
        BY <2>1, <2>2 DEF TableStep, Born
  <2>6. CreatedBy(c)' = CreatedBy(c) \cup S
        BY <2>1, <2>2 DEF CreatedBy
  <2> QED  BY <1>2, <2>3, <2>4, <2>5, <2>6 DEF TableOK
<1> QED  BY <1>1, <1>2

LEMMA InsertStep ==
  ASSUME TableOK, NEW c \in Calls, NEW o, NEW n \in UnusedIds, NEW row \in Memory,
         ~Is(c, {"update", "delete"}),
         row.state = "active",
         Is(c, {"create", "ingest"}) => row.type = "insight",
         row.embedding \in {Nothing, row.content},
         Insert(c, n, row, o)
  PROVE /\ TableOK'
        /\ TableStep(c)
        /\ CreatedBy(c)' = IF o = "dberr" THEN CreatedBy(c) ELSE CreatedBy(c) \cup {n}
<1> DEFINE new == [i \in {n} |-> row]
<1>1. new \in [{n} -> Memory] /\ \A i \in {n} : new[i] = row
      OBVIOUS
<1>2. InsertSome(c, new, o)
      BY DEF Insert
<1>3. {n} \in SUBSET UnusedIds
      OBVIOUS
<1> HIDE DEF new
<1> QED  BY <1>1, <1>2, <1>3, InsertSomeStep

\* One row that is there changes, but neither its type nor its author.
LEMMA ChangeStep ==
  ASSUME TableOK, NEW c \in Calls, NEW i \in Ids, Born(i), NEW row \in Memory,
         row.state # "none", row.type = mem[i].type,
         row.embedding \in {Nothing, row.content},
         mem' = [mem EXCEPT ![i] = row], UNCHANGED author
  PROVE TableOK' /\ TableStep(c) /\ (\A d \in Calls : CreatedBy(d)' = CreatedBy(d))
<1>1. mem' \in [Ids -> Memory] /\ author' \in [Ids -> Calls \cup {NoCall}]
      BY DEF TableOK
<1>2. mem'[i] = row /\ \A j \in Ids \ {i} : mem'[j] = mem[j]
      BY DEF TableOK
<1>3. \A j \in Ids : RowOK(j)'
      BY <1>2 DEF TableOK, RowOK, Born, Is
<1>4. TableStep(c)
      BY <1>2 DEF TableStep, Born
<1> QED  BY <1>1, <1>3, <1>4 DEF TableOK, CreatedBy

LEMMA UpdateOptimisticStep ==
  ASSUME TableOK, NEW c \in Calls, NEW o, NEW i \in Ids, Born(i), NEW r \in Memory,
         r.embedding \in {Nothing, r.content}, UpdateOptimistic(i, r, o)
  PROVE TableOK' /\ TableStep(c) /\ (\A d \in Calls : CreatedBy(d)' = CreatedBy(d))
<1>1. mem[i] \in Memory
      BY DEF TableOK
<1>2. CASE o = "dberr"
      BY <1>2, TableKept DEF UpdateOptimistic
<1>3. CASE o # "dberr"
  <2>1. PICK u : u = Updated(mem[i], r)
        OBVIOUS
  <2>2. /\ u \in Memory /\ u.state = mem[i].state /\ u.type = mem[i].type
        /\ u.content = r.content /\ u.embedding = r.embedding
        BY <1>1, <2>1, UpdatedRow
  <2>3. mem' = [mem EXCEPT ![i] = u] /\ UNCHANGED author
        BY <1>3, <2>1 DEF UpdateOptimistic
  <2> QED  BY <2>2, <2>3, ChangeStep DEF Born
<1> QED  BY <1>2, <1>3

LEMMA SetStateStep ==
  ASSUME TableOK, NEW c \in Calls, NEW o, NEW i \in Ids,
         SetState(i, "deleted", o) \/ (Born(i) /\ SoftDelete(i, o))
  PROVE TableOK' /\ TableStep(c) /\ (\A d \in Calls : CreatedBy(d)' = CreatedBy(d))
<1>1. mem[i] \in Memory /\ mem[i].embedding \in {Nothing, mem[i].content}
      BY DEF TableOK, RowOK
<1>2. CASE UNCHANGED <<mem, author>>
      BY <1>2, TableKept
<1>3. CASE ~UNCHANGED <<mem, author>>
  <2> DEFINE u == [mem[i] EXCEPT !.state = "deleted"]
  <2>1. /\ u \in Memory /\ u.state = "deleted" /\ u.type = mem[i].type
        /\ u.content = mem[i].content /\ u.embedding = mem[i].embedding
        BY <1>1, RowTypes
  <2>2. mem' = [mem EXCEPT ![i] = u] /\ UNCHANGED author
        BY <1>3 DEF SetState, SoftDelete
  <2>3. Born(i)
        BY <1>3 DEF SetState, SoftDelete, Born
  <2> HIDE DEF u
  <2> QED  BY <1>1, <2>1, <2>2, <2>3, ChangeStep
<1> QED  BY <1>2, <1>3

LEMMA ArchiveAndCreateStep ==
  ASSUME TableOK, NEW c \in Calls, NEW o, NEW old \in Ids, NEW n \in UnusedIds,
         NEW row \in Memory, ~Is(c, {"update", "delete"}),
         row.state = "active", row.type = "insight",
         row.embedding \in {Nothing, row.content},
         ArchiveAndCreate(c, old, n, row, o)
  PROVE /\ TableOK'
        /\ TableStep(c)
        /\ CreatedBy(c)' = IF mem[old].state # "active" \/ o = "dberr"
                           THEN CreatedBy(c) ELSE CreatedBy(c) \cup {n}
<1>1. CASE mem[old].state # "active" \/ o = "dberr"
      BY <1>1, TableKept DEF ArchiveAndCreate
<1>2. CASE mem[old].state = "active" /\ o # "dberr"
  <2>0. PICK u : u = ArchivedFor(mem[old], n)
        OBVIOUS
  <2>1. n \in Ids /\ ~Born(n) /\ Born(old) /\ n # old
        BY <1>2 DEF UnusedIds, Born
  <2>2. mem[old] \in Memory /\ mem[old].embedding \in {Nothing, mem[old].content}
        BY DEF TableOK, RowOK
  <2>3. /\ u \in Memory /\ u.state = "archived" /\ u.type = mem[old].type
        /\ u.content = mem[old].content /\ u.embedding = mem[old].embedding
        BY <2>0, <2>1, <2>2, ArchivedRow
  <2>4. /\ mem' = [mem EXCEPT ![old] = u, ![n] = row]
        /\ author' = [author EXCEPT ![n] = c]
        BY <1>2, <2>0 DEF ArchiveAndCreate
  <2>5. /\ mem'[old] = u /\ mem'[n] = row /\ author'[n] = c
        /\ \A j \in Ids \ {old, n} : mem'[j] = mem[j]
        /\ \A j \in Ids \ {n} : author'[j] = author[j]
        /\ mem' \in [Ids -> Memory] /\ author' \in [Ids -> Calls \cup {NoCall}]
        BY <2>1, <2>3, <2>4 DEF TableOK
  <2>6. ASSUME NEW j \in Ids  PROVE RowOK(j)'
    <3>1. RowOK(j)
          BY DEF TableOK
    <3>2. CASE j = n
          BY <2>5, <3>2 DEF RowOK, Born, Is
    <3>3. CASE j = old
          BY <2>1, <2>2, <2>3, <2>5, <3>1, <3>3 DEF RowOK, Born, Is
    <3>4. CASE j \notin {old, n}
          BY <2>5, <3>1, <3>4 DEF RowOK, Born, Is
    <3> QED  BY <3>2, <3>3, <3>4
  <2>7. TableStep(c)
        BY <2>1, <2>3, <2>5 DEF TableStep, Born
  <2>8. CreatedBy(c)' = CreatedBy(c) \cup {n}
        BY <2>1, <2>5 DEF CreatedBy
  <2> QED  BY <1>2, <2>5, <2>6, <2>7, <2>8 DEF TableOK
<1> QED  BY <1>1, <1>2

-----------------------------------------------------------------------------
(* Calls                                                                   *)

LEMMA Bounds ==
  /\ 0 \in 0..MaxEvents
  /\ <<>> \in FactLists
  /\ \A s \in FactLists : /\ s \in Seq(Facts) /\ Len(s) \in 0..MaxFacts
                          /\ s # <<>> => Len(s) > 0
<1>1. MaxFacts \in Nat /\ MaxEvents \in Nat
      BY ConstantsAssumption
<1>2. <<>> \in [1..0 -> Facts]
      OBVIOUS
<1>3. 0 \in 0..MaxFacts
      BY <1>1
<1>4. <<>> \in FactLists
      BY <1>2, <1>3 DEF FactLists
<1>5. ASSUME NEW s \in FactLists
      PROVE s \in Seq(Facts) /\ Len(s) \in 0..MaxFacts /\ (s # <<>> => Len(s) > 0)
  <2>1. PICK n \in 0..MaxFacts : s \in [1..n -> Facts]
        BY DEF FactLists
  <2>2. n \in Nat /\ s \in Seq(Facts) /\ Len(s) = n
        BY <1>1, <2>1
  <2> QED  BY <2>1, <2>2
<1> QED  BY <1>1, <1>4, <1>5

LEMMA FreshType ==
  /\ Fresh \in Call
  /\ Fresh.pc = "new" /\ Fresh.out = "none" /\ Fresh.ids = <<>> /\ ~Fresh.warned
  /\ Fresh.seen = [i \in Ids |-> "unseen"]
<1>1. <<>> \in Seq(Ids)
      OBVIOUS
<1> QED  BY <1>1, Bounds, UnbornType DEF Fresh, Call

LEMMA CallFields ==
  ASSUME NEW r \in Call
  PROVE /\ r.facts \in FactLists /\ r.facts \in Seq(Facts)
        /\ r.next \in Nat /\ r.found \in BOOLEAN
        /\ r.seen \in [Ids -> {"unseen", "pinned", "insight"}]
        /\ r.events \in 0..MaxEvents /\ r.ids \in Seq(Ids)
        /\ r.warned \in BOOLEAN /\ r.tagged \in BOOLEAN
        /\ r.id \in Ids \cup {NoId} /\ r.copy \in Memory
  BY Bounds DEF Call

LEMMA ResultType ==
  ASSUME NEW r \in Call
  PROVE /\ Result(r) \in Call
        /\ Result(r).pc = "new" /\ Result(r).out = "none"
        /\ Result(r).ids = r.ids /\ Result(r).warned = r.warned
        /\ Result(r).next = 1
        /\ Result(r).seen = [i \in Ids |-> "unseen"]
<1>1. r.ids \in Seq(Ids) /\ r.warned \in BOOLEAN
      BY CallFields
<1>2. <<>> \in FactLists /\ 0 \in 0..MaxEvents /\ Unborn \in Memory
      BY Bounds, UnbornType
<1> QED  BY <1>1, <1>2 DEF Result, Fresh, Call

Outs == {"none", "complete", "partial", "failed", "unfetched", "notfound", "gone"}

LEMMA DoneType ==
  ASSUME NEW r \in Call, NEW out \in Outs
  PROVE /\ Done(r, out) \in Call
        /\ Done(r, out).pc = "done" /\ Done(r, out).out = out
        /\ Done(r, out).ids = r.ids /\ Done(r, out).warned = r.warned
        /\ Done(r, out).seen = [i \in Ids |-> "unseen"]
<1>1. Result(r) \in Call
      BY ResultType
<1>2. PICK s \in Call : s = Result(r)
      BY <1>1
<1>3. /\ s.ids = r.ids /\ s.warned = r.warned
      /\ s.seen = [i \in Ids |-> "unseen"]
      BY <1>2, ResultType
<1>4. Done(r, out) = [s EXCEPT !.pc = "done", !.out = out]
      BY <1>2 DEF Done
<1> QED  BY <1>3, <1>4 DEF Call, Outs

LEMMA BecomesOne ==
  ASSUME TypeOK, NEW c \in Calls, NEW r \in Call, Becomes(c, r)
  PROVE /\ call' \in [Calls -> Call]
        /\ call'[c] = r
        /\ \A d \in Calls \ {c} : call'[d] = call[d]
  BY DEF TypeOK, Becomes

LEMMA InvTable ==
  ASSUME MemoryInv
  PROVE TableOK
  BY DEF MemoryInv, TypeOK, TableOK

\* A step of one call leaves what is known of the others.
LEMMA OthersKept ==
  ASSUME MemoryInv, NEW c \in Calls, TableStep(c), NEW d \in Calls, d # c,
         call'[d] = call[d]
  PROVE CallOK(d)'
<1>1. CreatedBy(d)' = CreatedBy(d)
  <2>1. ASSUME NEW i \in Ids  PROVE author'[i] = d <=> author[i] = d
    <3>1. CASE author'[i] = author[i]
          BY <3>1
    <3>2. CASE author'[i] # author[i]
      <4>1. author'[i] = c /\ ~Born(i)
            BY <3>2 DEF TableStep
      <4>2. author[i] = NoCall /\ NoCall \notin Calls
            BY <4>1, ConstantsAssumption DEF MemoryInv, RowOK
      <4> QED  BY <4>1, <4>2
    <3> QED  BY <3>1, <3>2
  <2> QED  BY <2>1 DEF CreatedBy
<1>2. CallOK(d)
      BY DEF MemoryInv
<1>3. PlaceOK(d)'
      BY <1>2 DEF CallOK, PlaceOK, Is
<1>4. SeenOK(d)'
      BY <1>2 DEF CallOK, SeenOK, TableStep
<1>5. CopyOK(d)'
      BY <1>1, <1>2 DEF CallOK, CopyOK, TableStep
<1>6. ResultOK(d)'
      BY <1>1, <1>2 DEF CallOK, ResultOK, Is
<1> QED  BY <1>3, <1>4, <1>5, <1>6 DEF CallOK

LEMMA StepInv ==
  ASSUME MemoryInv, NEW c \in Calls, TableOK', TableStep(c), NEW r \in Call,
         Becomes(c, r), CallOK(c)'
  PROVE MemoryInv'
<1>1. TypeOK
      BY DEF MemoryInv
<1>2. /\ call' \in [Calls -> Call]
      /\ \A d \in Calls \ {c} : call'[d] = call[d]
      BY <1>1, BecomesOne
<1>3. \A d \in Calls : CallOK(d)'
      BY <1>2, OthersKept
<1> QED  BY <1>2, <1>3 DEF MemoryInv, TypeOK, TableOK

\* A call that is over.
LEMMA DoneInv ==
  ASSUME MemoryInv, NEW c \in Calls, TableOK', TableStep(c), NEW r \in Call,
         NEW out \in Outs, Becomes(c, Done(r, out)),
         Is(c, {"create", "ingest"}) => Agrees(r.ids, r.warned, CreatedBy(c)'),
         "lost" \notin Faults /\ out = "failed" => CreatedBy(c)' = {}
  PROVE MemoryInv'
<1>1. TypeOK
      BY DEF MemoryInv
<1>2. /\ Done(r, out) \in Call
      /\ Done(r, out).pc = "done" /\ Done(r, out).out = out
      /\ Done(r, out).ids = r.ids /\ Done(r, out).warned = r.warned
      /\ Done(r, out).seen = [i \in Ids |-> "unseen"]
      BY DoneType
<1>3. call'[c] = Done(r, out)
      BY <1>1, <1>2, BecomesOne
<1>4. PlaceOK(c)' /\ CopyOK(c)' /\ SeenOK(c)'
      BY <1>2, <1>3 DEF PlaceOK, CopyOK, SeenOK
<1>5. ResultOK(c)'
      BY <1>2, <1>3 DEF ResultOK, Is
<1> QED  BY <1>2, <1>4, <1>5, StepInv DEF CallOK

-----------------------------------------------------------------------------
(* Each step keeps the invariant                                           *)

LEMMA RangeFacts ==
  /\ RangeOf(<<>>) = {}
  /\ \A s \in Seq(Ids), n \in Ids :
       /\ Append(s, n) \in Seq(Ids)
       /\ RangeOf(Append(s, n)) = RangeOf(s) \cup {n}
<1>1. RangeOf(<<>>) = {}
      BY DEF RangeOf
<1>2. ASSUME NEW s \in Seq(Ids), NEW n \in Ids
      PROVE Append(s, n) \in Seq(Ids) /\ RangeOf(Append(s, n)) = RangeOf(s) \cup {n}
  <2>1. /\ Append(s, n) \in Seq(Ids)
        /\ DOMAIN s = 1..Len(s) /\ Len(s) \in Nat
        /\ DOMAIN Append(s, n) = 1..(Len(s) + 1)
        /\ Append(s, n)[Len(s) + 1] = n
        /\ \A k \in 1..Len(s) : Append(s, n)[k] = s[k]
        OBVIOUS
  <2>2. RangeOf(Append(s, n)) \subseteq RangeOf(s) \cup {n}
        BY <2>1 DEF RangeOf
  <2>3. n \in RangeOf(Append(s, n))
        BY <2>1 DEF RangeOf
  <2>4. RangeOf(s) \subseteq RangeOf(Append(s, n))
        BY <2>1 DEF RangeOf
  <2> QED  BY <2>1, <2>2, <2>3, <2>4
<1> QED  BY <1>1, <1>2

LEMMA OutcomeFacts ==
  ASSUME NEW o \in Outcomes
  PROVE o # "ok" /\ "lost" \notin Faults => o = "dberr"
  BY DEF Outcomes

\* What is known of a call before its first statement.
LEMMA NewFacts ==
  ASSUME MemoryInv, NEW c \in Calls, At(c, "new")
  PROVE /\ call[c] \in Call /\ call[c].ids = <<>> /\ CreatedBy(c) = {}
        /\ call[c].out = "none"
  BY DEF MemoryInv, TypeOK, CallOK, ResultOK, PlaceOK, At

LEMMA RawCreateInv ==
  ASSUME MemoryInv, NEW c \in Calls, RawCreate(c)
  PROVE MemoryInv'
<1>1. PICK f \in Facts, g \in BOOLEAN, n \in UnusedIds, o \in Outcomes :
         /\ Insert(c, n, NewMemory("insight", f, g, EmbeddingOf(f)), o)
         /\ Finish(c, IF o = "ok" THEN "complete" ELSE "failed")
      BY DEF RawCreate
<1>2. ~Is(c, {"create", "ingest", "update", "delete"}) /\ At(c, "new")
      BY DEF RawCreate, Is
<1>3. PICK row : row = NewMemory("insight", f, g, EmbeddingOf(f))
      OBVIOUS
<1>4. /\ row \in Memory /\ row.state = "active" /\ row.type = "insight"
      /\ row.embedding \in {Nothing, row.content}
      BY <1>3, NewMemoryType, EmbeddingType DEF Types
<1>5. /\ TableOK' /\ TableStep(c)
      /\ CreatedBy(c)' = IF o = "dberr" THEN CreatedBy(c) ELSE CreatedBy(c) \cup {n}
      BY <1>1, <1>2, <1>3, <1>4, InvTable, InsertStep DEF Is
<1>6. "lost" \notin Faults /\ o # "ok" => CreatedBy(c)' = {}
      BY <1>2, <1>5, OutcomeFacts, NewFacts
<1> QED  BY <1>1, <1>2, <1>5, <1>6, NewFacts, DoneInv DEF Finish, Outs, Is

LEMMA BulkCreateInv ==
  ASSUME MemoryInv, NEW c \in Calls, BulkCreate(c)
  PROVE MemoryInv'
<1>1. PICK S \in SUBSET UnusedIds, o \in Outcomes :
         /\ \E f \in [S -> Facts], type \in [S -> Types] :
              InsertSome(c, [i \in S |->
                               NewMemory(type[i], f[i], FALSE, Nothing)], o)
         /\ Finish(c, IF o = "ok" THEN "complete" ELSE "failed")
      BY DEF BulkCreate
<1>2. PICK f \in [S -> Facts], type \in [S -> Types] :
         InsertSome(c, [i \in S |-> NewMemory(type[i], f[i], FALSE, Nothing)], o)
      BY <1>1
<1>3. ~Is(c, {"create", "ingest", "update", "delete"}) /\ At(c, "new")
      BY DEF BulkCreate, Is
<1>4. PICK new : new = [i \in S |-> NewMemory(type[i], f[i], FALSE, Nothing)]
      OBVIOUS
<1>5. \A i \in S : /\ NewMemory(type[i], f[i], FALSE, Nothing) \in Memory
                   /\ NewMemory(type[i], f[i], FALSE, Nothing).state = "active"
                   /\ NewMemory(type[i], f[i], FALSE, Nothing).embedding = Nothing
  <2> SUFFICES ASSUME NEW i \in S
               PROVE /\ NewMemory(type[i], f[i], FALSE, Nothing) \in Memory
                     /\ NewMemory(type[i], f[i], FALSE, Nothing).state = "active"
                     /\ NewMemory(type[i], f[i], FALSE, Nothing).embedding = Nothing
      OBVIOUS
  <2>1. type[i] \in Types /\ f[i] \in Facts \cup {Nothing}
        OBVIOUS
  <2> QED  BY <2>1 DEF NewMemory, Memory
<1>6. /\ new \in [S -> Memory]
      /\ \A i \in S : new[i].state = "active" /\ new[i].embedding = Nothing
      BY <1>4, <1>5
<1>7. InsertSome(c, new, o)
      BY <1>2, <1>4
<1>8. /\ TableOK' /\ TableStep(c)
      /\ CreatedBy(c)' = IF o = "dberr" THEN CreatedBy(c) ELSE CreatedBy(c) \cup S
      BY <1>3, <1>6, <1>7, InvTable, InsertSomeStep DEF Is
<1>9. "lost" \notin Faults /\ o # "ok" => CreatedBy(c)' = {}
      BY <1>3, <1>8, OutcomeFacts, NewFacts
<1> QED  BY <1>1, <1>3, <1>8, <1>9, NewFacts, DoneInv DEF Finish, Outs, Is

\* Updates and deletions have created nothing.
LEMMA NothingCreated ==
  ASSUME MemoryInv, NEW c \in Calls, Is(c, {"update", "delete"})
  PROVE CreatedBy(c) = {}
  BY DEF MemoryInv, RowOK, CreatedBy

LEMMA DeleteInv ==
  ASSUME MemoryInv, NEW c \in Calls, Delete(c)
  PROVE MemoryInv'
<1>1. PICK i \in Ids \ UnusedIds, o \in Outcomes :
         SoftDelete(i, o) /\ Finish(c, IF o = "ok" THEN "complete" ELSE "failed")
      BY DEF Delete
<1>2. Is(c, {"update", "delete"}) /\ ~Is(c, {"create", "ingest"}) /\ At(c, "new")
      BY DEF Delete, Is
<1>3. TableOK' /\ TableStep(c) /\ CreatedBy(c)' = CreatedBy(c)
      BY <1>1, InvTable, SetStateStep DEF UnusedIds, Born
<1>4. CreatedBy(c)' = {}
      BY <1>2, <1>3, NothingCreated
<1> QED  BY <1>1, <1>2, <1>3, <1>4, NewFacts, DoneInv DEF Finish, Outs

\* The row a call has read and means to write.
LEMMA HoldInv ==
  ASSUME MemoryInv, NEW c \in Calls, UNCHANGED <<mem, author>>,
         NEW pc \in {"write", "patchwrite"}, NEW i \in Active, NEW m \in Memory,
         m.embedding \in {Nothing, m.content},
         pc = "write" => Is(c, {"update"}) /\ At(c, "new"),
         pc = "patchwrite" => Is(c, {"create"}) /\ At(c, "patch") /\ i \in CreatedBy(c),
         Becomes(c, [call[c] EXCEPT !.pc = pc, !.id = i, !.copy = m])
  PROVE MemoryInv'
<1>1. PICK w \in Call : w = call[c]
      BY DEF MemoryInv, TypeOK
<1>2. PICK r : r = [w EXCEPT !.pc = pc, !.id = i, !.copy = m]
      OBVIOUS
<1>3. i \in Ids /\ Born(i)
      BY DEF Active, Born
<1>4. /\ r \in Call /\ r.pc = pc /\ r.id = i /\ r.copy = m
      /\ r.out = w.out /\ r.facts = w.facts /\ r.next = w.next
      /\ r.seen = w.seen /\ r.ids = w.ids /\ r.warned = w.warned
      BY <1>2, <1>3 DEF Call
<1>5. Becomes(c, r)
      BY <1>1, <1>2, Zenon
<1>6. TableOK' /\ TableStep(c) /\ CreatedBy(c)' = CreatedBy(c)
      BY InvTable, TableKept
<1>7. call'[c] = r
      BY <1>4, <1>5, BecomesOne DEF MemoryInv
<1>8. CallOK(c)
      BY DEF MemoryInv
<1>9. PlaceOK(c)'
      BY <1>1, <1>4, <1>7, <1>8 DEF CallOK, PlaceOK, Is, At
<1>10. SeenOK(c)'
      BY <1>1, <1>4, <1>6, <1>7, <1>8 DEF CallOK, SeenOK, Born
<1>11. CopyOK(c)'
      BY <1>3, <1>4, <1>6, <1>7 DEF CopyOK, Born, Is
<1>12. ResultOK(c)'
      BY <1>1, <1>4, <1>6, <1>7, <1>8 DEF CallOK, ResultOK, PlaceOK, Is, At
<1> QED  BY <1>4, <1>5, <1>6, <1>9, <1>10, <1>11, <1>12, StepInv DEF CallOK

LEMMA GetByIDType ==
  ASSUME MemoryInv, NEW i \in Ids
  PROVE /\ GetByID(i) \in Memory /\ GetByID(i).embedding = Nothing
        /\ [GetByID(i) EXCEPT !.tagged = TRUE] \in Memory
        /\ [GetByID(i) EXCEPT !.tagged = TRUE].embedding = Nothing
        /\ \A f \in Facts :
             LET m == [GetByID(i) EXCEPT !.content = f, !.embedding = EmbeddingOf(f)]
             IN m \in Memory /\ m.embedding \in {Nothing, m.content}
<1>1. mem[i] \in Memory
      BY DEF MemoryInv, TypeOK
<1>2. GetByID(i) \in Memory /\ GetByID(i).embedding = Nothing
      BY <1>1, RowTypes DEF GetByID
<1>3. PICK g \in Memory : g = GetByID(i)
      BY <1>2
<1>4. /\ [g EXCEPT !.tagged = TRUE] \in Memory
      /\ [g EXCEPT !.tagged = TRUE].embedding = Nothing
      BY <1>2, <1>3, RowTypes
<1>5. ASSUME NEW f \in Facts
      PROVE LET m == [g EXCEPT !.content = f, !.embedding = EmbeddingOf(f)]
            IN m \in Memory /\ m.embedding \in {Nothing, m.content}
  <2>1. EmbeddingOf(f) \in Facts \cup {Nothing} /\ EmbeddingOf(f) \in {Nothing, f}
        BY EmbeddingType
  <2> QED  BY <1>3, <2>1 DEF Memory
<1> QED  BY <1>2, <1>3, <1>4, <1>5, Zenon

LEMMA ReadForUpdateInv ==
  ASSUME MemoryInv, NEW c \in Calls, ReadForUpdate(c)
  PROVE MemoryInv'
<1>1. /\ Is(c, {"update"}) /\ ~Is(c, {"create", "ingest"}) /\ At(c, "new")
      /\ UNCHANGED <<mem, author>>
      BY DEF ReadForUpdate, Is
<1>2. PICK i \in Ids \ UnusedIds :
         IF i \notin Active THEN Finish(c, "notfound")
         ELSE \E r \in {GetByID(i)} \cup
                       {[GetByID(i) EXCEPT !.tagged = TRUE]} \cup
                       {[GetByID(i) EXCEPT !.content = f,
                                           !.embedding = EmbeddingOf(f)] :
                            f \in Facts} :
                Becomes(c, [call[c] EXCEPT !.pc = "write", !.id = i, !.copy = r])
      BY DEF ReadForUpdate
<1>3. CASE i \notin Active
  <2>1. TableOK' /\ TableStep(c)
        BY <1>1, InvTable, TableKept
  <2> QED  BY <1>1, <1>2, <1>3, <2>1, NewFacts, DoneInv DEF Finish, Outs
<1>4. CASE i \in Active
  <2>1. PICK r \in {GetByID(i)} \cup
                   {[GetByID(i) EXCEPT !.tagged = TRUE]} \cup
                   {[GetByID(i) EXCEPT !.content = f,
                                       !.embedding = EmbeddingOf(f)] : f \in Facts} :
           Becomes(c, [call[c] EXCEPT !.pc = "write", !.id = i, !.copy = r])
        BY <1>2, <1>4
  <2>2. r \in Memory /\ r.embedding \in {Nothing, r.content}
        BY GetByIDType, Zenon
  <2> QED  BY <1>1, <1>4, <2>1, <2>2, HoldInv
<1> QED  BY <1>3, <1>4

LEMMA WriteUpdateInv ==
  ASSUME MemoryInv, NEW c \in Calls, WriteUpdate(c)
  PROVE MemoryInv'
<1>1. PICK o \in Outcomes :
         /\ UpdateOptimistic(call[c].id, call[c].copy, o)
         /\ Finish(c, IF o = "ok" THEN "complete" ELSE "failed")
      BY DEF WriteUpdate
<1>2. /\ At(c, "write") /\ call[c] \in Call
      /\ Is(c, {"update"}) /\ ~Is(c, {"create", "ingest"}) /\ Is(c, {"update", "delete"})
      /\ call[c].id \in Ids /\ Born(call[c].id)
      /\ call[c].copy.embedding \in {Nothing, call[c].copy.content}
      BY DEF WriteUpdate, MemoryInv, TypeOK, CallOK, PlaceOK, CopyOK, At, Is
<1>3. TableOK' /\ TableStep(c) /\ CreatedBy(c)' = CreatedBy(c)
      BY <1>1, <1>2, InvTable, CallFields, UpdateOptimisticStep
<1>4. CreatedBy(c)' = {}
      BY <1>2, <1>3, NothingCreated
<1> QED  BY <1>1, <1>2, <1>3, <1>4, DoneInv DEF Finish, Outs

\* A pipeline that goes on to another statement.
LEMMA MoveInv ==
  ASSUME MemoryInv, NEW c \in Calls, TableOK', TableStep(c), NEW r \in Call,
         Becomes(c, r), r.out = "none",
         r.pc \in {"gather", "addall", "decide", "patch", "fetch"},
         r.pc \in {"patch", "fetch"} => Is(c, {"create"}),
         Is(c, {"create", "ingest"}),
         r.pc \in {"gather", "addall"} => r.next \in 1..Len(r.facts),
         r.pc = "patch" => r.next \in 1..Len(r.ids),
         r.pc = "fetch" => Len(r.ids) > 0,
         r.pc = "gather" => CreatedBy(c)' = {} /\ r.ids = <<>>,
         \A i \in Ids : r.seen[i] # "unseen" => Born(i) /\ r.seen[i] = mem[i].type,
         Agrees(r.ids, r.warned, CreatedBy(c)')
  PROVE MemoryInv'
<1>1. call'[c] = r
      BY BecomesOne DEF MemoryInv
<1>2. PlaceOK(c)'
      BY <1>1 DEF PlaceOK, Is
<1>3. SeenOK(c)'
      BY <1>1 DEF SeenOK, TableStep
<1>4. CopyOK(c)'
      BY <1>1 DEF CopyOK
<1>5. ResultOK(c)'
      BY <1>1 DEF ResultOK
<1> QED  BY <1>2, <1>3, <1>4, <1>5, StepInv DEF CallOK

\* What is known of a call that works on its facts.
LEMMA WorkFacts ==
  ASSUME MemoryInv, NEW c \in Calls, call[c].pc \in {"gather", "addall", "decide"}
  PROVE /\ call[c] \in Call /\ call[c].out = "none"
        /\ Is(c, {"create", "ingest"}) /\ ~Is(c, {"update", "delete"})
        /\ call[c].pc \in {"gather", "addall"} =>
             call[c].next \in 1..Len(call[c].facts)
        /\ call[c].pc = "gather" => CreatedBy(c) = {} /\ call[c].ids = <<>>
        /\ \A i \in Ids : call[c].seen[i] # "unseen" =>
             Born(i) /\ call[c].seen[i] = mem[i].type
        /\ Agrees(call[c].ids, call[c].warned, CreatedBy(c))
<1>1. call[c] \in Call /\ CallOK(c)
      BY DEF MemoryInv, TypeOK
<1>2. Is(c, {"create", "ingest"})
      BY <1>1 DEF CallOK, PlaceOK
<1>3. ~Is(c, {"update", "delete"})
      BY <1>2 DEF Is
<1> QED  BY <1>1, <1>2, <1>3 DEF CallOK, PlaceOK, SeenOK, ResultOK

LEMMA ExtractFactsInv ==
  ASSUME MemoryInv, NEW c \in Calls, ExtractFacts(c)
  PROVE MemoryInv'
<1>1. /\ Is(c, {"create", "ingest"}) /\ At(c, "new") /\ UNCHANGED <<mem, author>>
      /\ \/ Finish(c, "failed")
         \/ \E s \in FactLists, g \in BOOLEAN :
              IF s = <<>> THEN Finish(c, "complete")
              ELSE Becomes(c, [call[c] EXCEPT !.pc = "gather", !.facts = s,
                                              !.tagged = g])
      BY DEF ExtractFacts
<1>2. /\ call[c] \in Call /\ call[c].ids = <<>> /\ CreatedBy(c) = {}
      /\ call[c].out = "none"
      BY <1>1, NewFacts
<1>3. TableOK' /\ TableStep(c) /\ CreatedBy(c)' = {}
      BY <1>1, <1>2, InvTable, TableKept
<1>4. Agrees(<<>>, call[c].warned, CreatedBy(c)')
      BY <1>3, RangeFacts DEF Agrees
<1>5. CASE Finish(c, "failed") \/ Finish(c, "complete")
      BY <1>1, <1>2, <1>3, <1>4, <1>5, DoneInv DEF Finish, Outs
<1>6. ASSUME NEW s \in FactLists, NEW g \in BOOLEAN, s # <<>>,
             Becomes(c, [call[c] EXCEPT !.pc = "gather", !.facts = s, !.tagged = g])
      PROVE MemoryInv'
  <2>1. PICK w \in Call : w = call[c]
        BY <1>2
  <2>2. PICK r : r = [w EXCEPT !.pc = "gather", !.facts = s, !.tagged = g]
        OBVIOUS
  <2>3. Becomes(c, r)
        BY <1>6, <2>1, <2>2, Zenon
  <2>4. /\ r \in Call /\ r.pc = "gather" /\ r.facts = s /\ r.next = w.next
        /\ r.out = "none" /\ r.seen = w.seen /\ r.ids = <<>> /\ r.warned = w.warned
        BY <1>2, <2>1, <2>2 DEF Call
  <2>5. CallOK(c)
        BY DEF MemoryInv
  <2>6. Len(s) \in Nat /\ Len(s) > 0 /\ w.next = 1
    <3>1. s \in Seq(Facts) /\ Len(s) > 0
          BY <1>6, Bounds
    <3>2. call[c].next = 1
          BY <1>1, <2>5 DEF CallOK, PlaceOK, At
    <3> QED  BY <2>1, <3>1, <3>2
  <2>7. \A i \in Ids : r.seen[i] # "unseen" => Born(i) /\ r.seen[i] = mem[i].type
        BY <2>1, <2>4, <2>5 DEF CallOK, SeenOK
  <2>8. r.next \in 1..Len(r.facts)
        BY <2>4, <2>6
  <2>9. Agrees(r.ids, r.warned, CreatedBy(c)')
        BY <1>4, <2>1, <2>4
  <2> QED  BY <1>1, <1>3, <2>3, <2>4, <2>7, <2>8, <2>9, MoveInv
<1> QED  BY <1>1, <1>5, <1>6

\* A search only adds memories that are there to what a call has seen.
LEMMA SearchedType ==
  ASSUME MemoryInv, NEW c \in Calls, call[c].pc = "gather", NEW h \in SUBSET Visible
  PROVE /\ Searched(call[c], h) \in Call
        /\ Searched(call[c], h).pc = "gather"
        /\ Searched(call[c], h).out = "none"
        /\ Searched(call[c], h).facts = call[c].facts
        /\ Searched(call[c], h).next = call[c].next
        /\ Searched(call[c], h).ids = call[c].ids
        /\ \A i \in Ids : Searched(call[c], h).seen[i] # "unseen" =>
                            Born(i) /\ Searched(call[c], h).seen[i] = mem[i].type
<1> PICK r : r = Searched(call[c], h)
    OBVIOUS
<1>1. /\ call[c] \in Call /\ call[c].out = "none"
      /\ \A i \in Ids : call[c].seen[i] # "unseen" =>
           Born(i) /\ call[c].seen[i] = mem[i].type
      BY WorkFacts
<1>2. PICK w \in Call : w = call[c]
      BY <1>1
<1> DEFINE seen == [i \in Ids |-> IF i \in h /\ w.seen[i] = "unseen"
                                   THEN mem[i].type ELSE w.seen[i]]
<1>4. \A i \in Visible : Born(i) /\ mem[i].type \in {"pinned", "insight"}
      BY DEF Visible, Active, Born, MemoryInv, TypeOK, Memory, Types
<1>5. w.seen \in [Ids -> {"unseen", "pinned", "insight"}]
      BY CallFields
<1>6. seen \in [Ids -> {"unseen", "pinned", "insight"}]
      BY <1>4, <1>5
<1>7. \A i \in Ids : seen[i] # "unseen" => Born(i) /\ seen[i] = mem[i].type
      BY <1>1, <1>2, <1>4
<1>8. r = [w EXCEPT !.found = TRUE, !.seen = seen]
      BY <1>2, Zenon DEF Searched
<1> HIDE DEF seen
<1>9. /\ r \in Call /\ r.pc = w.pc /\ r.out = w.out /\ r.seen = seen
      /\ r.facts = w.facts /\ r.next = w.next /\ r.ids = w.ids
      /\ r.warned = w.warned
      BY <1>6, <1>8 DEF Call
<1> QED  BY <1>1, <1>2, <1>7, <1>9

LEMMA SearchFactInv ==
  ASSUME MemoryInv, NEW c \in Calls, SearchFact(c)
  PROVE MemoryInv'
<1>1. /\ call[c].pc = "gather" /\ UNCHANGED <<mem, author>>
      /\ \E r \in {Searched(call[c], h) : h \in SUBSET Visible} \cup {call[c]} :
            Becomes(c, IF r.next = Len(r.facts) THEN Gathered(r)
                       ELSE [r EXCEPT !.next = @ + 1])
      BY DEF SearchFact, At
<1>2. PICK r \in {Searched(call[c], h) : h \in SUBSET Visible} \cup {call[c]} :
         Becomes(c, IF r.next = Len(r.facts) THEN Gathered(r)
                    ELSE [r EXCEPT !.next = @ + 1])
      BY <1>1
<1>3. /\ call[c] \in Call /\ call[c].out = "none"
      /\ Is(c, {"create", "ingest"})
      /\ call[c].next \in 1..Len(call[c].facts)
      /\ CreatedBy(c) = {} /\ call[c].ids = <<>>
      /\ \A i \in Ids : call[c].seen[i] # "unseen" =>
           Born(i) /\ call[c].seen[i] = mem[i].type
      BY <1>1, WorkFacts
<1>4. /\ r \in Call /\ r.pc = "gather" /\ r.out = "none"
      /\ r.facts = call[c].facts /\ r.next = call[c].next
      /\ r.ids = <<>>
      /\ \A i \in Ids : r.seen[i] # "unseen" => Born(i) /\ r.seen[i] = mem[i].type
  <2>1. CASE r = call[c]
        BY <1>1, <1>3, <2>1
  <2>2. CASE r # call[c]
    <3>1. PICK h \in SUBSET Visible : r = Searched(call[c], h)
          BY <2>2
    <3> QED  BY <1>1, <1>3, <3>1, SearchedType
  <2> QED  BY <2>1, <2>2
<1>5. TableOK' /\ TableStep(c) /\ CreatedBy(c)' = {}
      BY <1>1, <1>3, InvTable, TableKept
<1>6. Agrees(r.ids, r.warned, CreatedBy(c)')
      BY <1>4, <1>5, RangeFacts DEF Agrees
<1>7. r.facts \in Seq(Facts) /\ Len(r.facts) \in Nat /\ r.next \in 1..Len(r.facts)
      BY <1>3, <1>4, CallFields
<1>8. CASE r.next = Len(r.facts)
  <2>1. CASE ~r.found
    <3>1. Becomes(c, Done(r, "failed"))
          BY <1>2, <1>8, <2>1 DEF Gathered
    <3> QED  BY <1>4, <1>5, <1>6, <3>1, DoneInv DEF Outs
  <2>2. CASE r.found
    <3>1. PICK pc \in {"addall", "decide"} :
             Becomes(c, [r EXCEPT !.pc = pc, !.next = 1])
          BY <1>2, <1>8, <2>2 DEF Gathered
    <3>2. PICK s : s = [r EXCEPT !.pc = pc, !.next = 1]
          OBVIOUS
    <3>3. /\ s \in Call /\ s.pc = pc /\ s.next = 1 /\ s.out = "none"
          /\ s.facts = r.facts /\ s.seen = r.seen /\ s.ids = r.ids
          /\ s.warned = r.warned
          BY <1>4, <3>2 DEF Call
    <3>4. Becomes(c, s)
          BY <3>1, <3>2
    <3>5. s.next \in 1..Len(s.facts)
          BY <1>7, <3>3
    <3> QED  BY <1>3, <1>4, <1>5, <1>6, <3>3, <3>4, <3>5, MoveInv
  <2> QED  BY <1>4, <2>1, <2>2, CallFields
<1>9. CASE r.next # Len(r.facts)
  <2>1. PICK s : s = [r EXCEPT !.next = @ + 1]
        OBVIOUS
  <2>2. Becomes(c, s)
        BY <1>2, <1>9, <2>1
  <2>3. r.next + 1 \in Nat /\ r.next + 1 \in 1..Len(r.facts)
        BY <1>7, <1>9
  <2>4. /\ s \in Call /\ s.pc = "gather" /\ s.next = r.next + 1 /\ s.out = "none"
        /\ s.facts = r.facts /\ s.seen = r.seen /\ s.ids = r.ids
        /\ s.warned = r.warned
        BY <1>4, <2>1, <2>3 DEF Call
  <2> QED  BY <1>3, <1>4, <1>5, <1>6, <2>2, <2>3, <2>4, MoveInv
<1> QED  BY <1>8, <1>9

\* The end of a pipeline: an ingest is over, a create goes on to its tags.
LEMMA ReconciledInv ==
  ASSUME MemoryInv, NEW c \in Calls, TableOK', TableStep(c), NEW r \in Call,
         Is(c, {"create", "ingest"}), Agrees(r.ids, r.warned, CreatedBy(c)'),
         Becomes(c, Reconciled(c, r))
  PROVE MemoryInv'
<1>1. CASE Reconciled(c, r) \in {Done(r, "partial"), Done(r, "complete")}
      BY <1>1, DoneInv DEF Outs
<1>2. CASE /\ Is(c, {"create"}) /\ r.ids # <<>>
           /\ Reconciled(c, r) = [Result(r) EXCEPT !.pc = "patch", !.tagged = r.tagged]
  <2>1. PICK w : w = Result(r)
        OBVIOUS
  <2>2. /\ w \in Call /\ w.out = "none" /\ w.ids = r.ids /\ w.warned = r.warned
        /\ w.next = 1 /\ w.seen = [i \in Ids |-> "unseen"]
        BY <2>1, ResultType
  <2>3. PICK s : s = [w EXCEPT !.pc = "patch", !.tagged = r.tagged]
        OBVIOUS
  <2>4. Becomes(c, s)
        BY <1>2, <2>1, <2>3
  <2>5. r.tagged \in BOOLEAN /\ Len(r.ids) > 0 /\ Len(r.ids) \in Nat
        BY <1>2, CallFields
  <2>6. /\ s \in Call /\ s.pc = "patch" /\ s.out = "none" /\ s.ids = r.ids
        /\ s.warned = r.warned /\ s.next = 1
        /\ s.seen = [i \in Ids |-> "unseen"]
        BY <2>2, <2>3, <2>5 DEF Call
  <2>7. s.next \in 1..Len(s.ids)
        BY <2>5, <2>6
  <2>8. \A i \in Ids : s.seen[i] = "unseen"
        BY <2>6
  <2> QED  BY <1>2, <2>4, <2>6, <2>7, <2>8, MoveInv
<1>3. Is(c, {"create"}) \/ Is(c, {"ingest"})
      BY DEF Is
<1> QED  BY <1>1, <1>2, <1>3 DEF Reconciled

\* What an event adds to the result: the memory, or a warning.
LEMMA CountedType ==
  ASSUME NEW r \in Call, NEW n \in Ids, NEW o, NEW S, Agrees(r.ids, r.warned, S)
  PROVE /\ Counted(r, n, o) \in Call
        /\ Counted(r, n, o).pc = r.pc
        /\ Counted(r, n, o).out = r.out
        /\ Counted(r, n, o).next = r.next
        /\ Counted(r, n, o).facts = r.facts
        /\ Counted(r, n, o).seen = r.seen
        /\ Counted(r, n, o).events = r.events
        /\ Agrees(Counted(r, n, o).ids, Counted(r, n, o).warned, S \cup {n})
        /\ o # "ok" => Agrees(Counted(r, n, o).ids, Counted(r, n, o).warned, S)
<1> PICK s : s = Counted(r, n, o)
    OBVIOUS
<1>1. r.ids \in Seq(Ids)
      BY CallFields
<1>2. CASE o = "ok"
  <2>1. s = [r EXCEPT !.ids = Append(r.ids, n)]
        BY <1>2 DEF Counted
  <2>2. Append(r.ids, n) \in Seq(Ids)
        BY <1>1, RangeFacts
  <2>3. /\ s \in Call /\ s.pc = r.pc /\ s.out = r.out /\ s.next = r.next
        /\ s.facts = r.facts /\ s.seen = r.seen /\ s.events = r.events
        /\ s.ids = Append(r.ids, n) /\ s.warned = r.warned
        BY <2>1, <2>2 DEF Call
  <2>4. RangeOf(s.ids) = RangeOf(r.ids) \cup {n}
        BY <1>1, <2>3, RangeFacts
  <2> QED  BY <1>2, <2>3, <2>4 DEF Agrees
<1>3. CASE o # "ok"
  <2>1. s = [r EXCEPT !.warned = TRUE]
        BY <1>3 DEF Counted
  <2>2. /\ s \in Call /\ s.pc = r.pc /\ s.out = r.out /\ s.next = r.next
        /\ s.facts = r.facts /\ s.seen = r.seen /\ s.events = r.events
        /\ s.ids = r.ids /\ s.warned
        BY <2>1 DEF Call
  <2> QED  BY <1>3, <2>2 DEF Agrees
<1> QED  BY <1>2, <1>3

LEMMA NextEventType ==
  ASSUME NEW r \in Call, r.events < MaxEvents, NEW s, s = NextEvent(r)
  PROVE /\ s \in Call /\ s.pc = r.pc /\ s.out = r.out /\ s.next = r.next
        /\ s.facts = r.facts /\ s.seen = r.seen /\ s.ids = r.ids
        /\ s.warned = r.warned
<1>1. r.events + 1 \in 0..MaxEvents
      BY ConstantsAssumption, CallFields
<1>2. s = [r EXCEPT !.events = r.events + 1]
      BY DEF NextEvent
<1> QED  BY <1>1, <1>2 DEF Call

LEMMA AddNextFactInv ==
  ASSUME MemoryInv, NEW c \in Calls, AddNextFact(c)
  PROVE MemoryInv'
<1>1. call[c].pc = "addall"
      BY DEF AddNextFact, At
<1>2. PICK n \in UnusedIds, o \in Outcomes :
         /\ Insert(c, n, Insight(call[c].facts[call[c].next]), o)
         /\ LET r == Counted(call[c], n, o)
            IN Becomes(c, IF r.next = Len(r.facts) THEN Reconciled(c, r)
                          ELSE [r EXCEPT !.next = @ + 1])
      BY DEF AddNextFact
<1>3. /\ call[c] \in Call /\ call[c].out = "none"
      /\ Is(c, {"create", "ingest"}) /\ ~Is(c, {"update", "delete"})
      /\ call[c].next \in 1..Len(call[c].facts)
      /\ \A i \in Ids : call[c].seen[i] # "unseen" =>
           Born(i) /\ call[c].seen[i] = mem[i].type
      /\ Agrees(call[c].ids, call[c].warned, CreatedBy(c))
      BY <1>1, WorkFacts
<1>4. PICK f \in Facts : f = call[c].facts[call[c].next]
      BY <1>3, CallFields
<1>5. PICK row : row = Insight(f)
      OBVIOUS
<1>6. /\ row \in Memory /\ row.state = "active" /\ row.type = "insight"
      /\ row.embedding \in {Nothing, row.content}
      BY <1>5, InsightType
<1>7. Insert(c, n, row, o) /\ n \in Ids
      BY <1>2, <1>4, <1>5 DEF UnusedIds
<1>8. /\ TableOK' /\ TableStep(c)
      /\ CreatedBy(c)' = IF o = "dberr" THEN CreatedBy(c) ELSE CreatedBy(c) \cup {n}
      BY <1>3, <1>6, <1>7, InvTable, InsertStep
<1>9. PICK r : r = Counted(call[c], n, o)
      OBVIOUS
<1>10. /\ r \in Call /\ r.pc = call[c].pc /\ r.out = call[c].out
       /\ r.next = call[c].next /\ r.facts = call[c].facts /\ r.seen = call[c].seen
       /\ Agrees(r.ids, r.warned, CreatedBy(c) \cup {n})
       /\ o # "ok" => Agrees(r.ids, r.warned, CreatedBy(c))
  <2>1. /\ call[c] \in Call /\ n \in Ids
        /\ Agrees(call[c].ids, call[c].warned, CreatedBy(c))
        BY <1>3, <1>7
  <2> QED  BY <1>9, <2>1, CountedType
<1>11. r.pc = "addall" /\ r.out = "none"
       BY <1>1, <1>3, <1>10
<1>13. Becomes(c, IF r.next = Len(r.facts) THEN Reconciled(c, r)
                  ELSE [r EXCEPT !.next = @ + 1])
       BY <1>2, <1>9
<1>12. Agrees(r.ids, r.warned, CreatedBy(c)')
       BY <1>8, <1>10
<1>14. CASE r.next = Len(r.facts)
       BY <1>3, <1>8, <1>11, <1>13, <1>14, <1>12, <1>10, ReconciledInv
<1>15. CASE r.next # Len(r.facts)
  <2>1. PICK s : s = [r EXCEPT !.next = @ + 1]
        OBVIOUS
  <2>2. Becomes(c, s)
        BY <1>13, <1>15, <2>1
  <2>3. r.next + 1 \in Nat /\ r.next + 1 \in 1..Len(r.facts)
        BY <1>3, <1>15, <1>10, CallFields
  <2>4. /\ s \in Call /\ s.pc = "addall" /\ s.next = r.next + 1 /\ s.out = "none"
        /\ s.facts = r.facts /\ s.seen = r.seen /\ s.ids = r.ids
        /\ s.warned = r.warned
        BY <1>11, <1>10, <2>1, <2>3 DEF Call
  <2> QED  BY <1>3, <1>8, <1>12, <1>10, <2>2, <2>3, <2>4, MoveInv
<1> QED  BY <1>14, <1>15

LEMMA EndEventsInv ==
  ASSUME MemoryInv, NEW c \in Calls, SkipReconcile(c) \/ EndEvents(c)
  PROVE MemoryInv'
<1>1. call[c].pc = "decide" /\ UNCHANGED <<mem, author>>
      BY DEF SkipReconcile, EndEvents, At
<1>2. /\ call[c] \in Call /\ Is(c, {"create", "ingest"})
      /\ Agrees(call[c].ids, call[c].warned, CreatedBy(c))
      BY <1>1, WorkFacts
<1>3. TableOK' /\ TableStep(c) /\ CreatedBy(c)' = CreatedBy(c)
      BY <1>1, InvTable, TableKept
<1>4. PICK r : /\ r = call[c] \/ r = [call[c] EXCEPT !.warned = TRUE]
               /\ Becomes(c, Reconciled(c, r))
      BY DEF SkipReconcile, EndEvents
<1>5. r \in Call /\ r.ids = call[c].ids /\ (r.warned = call[c].warned \/ r.warned)
      BY <1>2, <1>4 DEF Call
<1>6. Agrees(r.ids, r.warned, CreatedBy(c)')
      BY <1>2, <1>3, <1>5 DEF Agrees
<1> QED  BY <1>2, <1>3, <1>4, <1>5, <1>6, ReconciledInv

\* A call that has executed one more event.
LEMMA EventInv ==
  ASSUME MemoryInv, NEW c \in Calls, call[c].pc = "decide",
         call[c].events < MaxEvents, TableOK', TableStep(c),
         NEW r \in Call, r.pc = "decide", r.out = "none",
         r.seen = call[c].seen, r.events = call[c].events,
         Agrees(r.ids, r.warned, CreatedBy(c)'),
         Becomes(c, NextEvent(r))
  PROVE MemoryInv'
<1>1. PICK s : s = NextEvent(r)
      OBVIOUS
<1>2. /\ s \in Call /\ s.pc = r.pc /\ s.out = r.out /\ s.next = r.next
      /\ s.facts = r.facts /\ s.seen = r.seen /\ s.ids = r.ids
      /\ s.warned = r.warned
      BY <1>1, NextEventType
<1>3. /\ Is(c, {"create", "ingest"})
      /\ \A i \in Ids : call[c].seen[i] # "unseen" =>
           Born(i) /\ call[c].seen[i] = mem[i].type
      BY WorkFacts
<1> QED  BY <1>1, <1>2, <1>3, MoveInv

LEMMA AddInsightInv ==
  ASSUME MemoryInv, NEW c \in Calls, AddInsight(c)
  PROVE MemoryInv'
<1>1. call[c].pc = "decide" /\ call[c].events < MaxEvents
      BY DEF AddInsight, At
<1>2. PICK f \in Facts, n \in UnusedIds, o \in Outcomes :
         /\ Insert(c, n, Insight(f), o)
         /\ Becomes(c, NextEvent(Counted(call[c], n, o)))
      BY DEF AddInsight
<1>3. /\ call[c] \in Call /\ call[c].out = "none"
      /\ Is(c, {"create", "ingest"}) /\ ~Is(c, {"update", "delete"})
      /\ Agrees(call[c].ids, call[c].warned, CreatedBy(c))
      BY <1>1, WorkFacts
<1>4. PICK row : row = Insight(f)
      OBVIOUS
<1>5. /\ row \in Memory /\ row.state = "active" /\ row.type = "insight"
      /\ row.embedding \in {Nothing, row.content} /\ n \in Ids
      BY <1>4, InsightType DEF UnusedIds
<1>6. /\ TableOK' /\ TableStep(c)
      /\ CreatedBy(c)' = IF o = "dberr" THEN CreatedBy(c) ELSE CreatedBy(c) \cup {n}
      BY <1>2, <1>3, <1>4, <1>5, InvTable, InsertStep
<1>7. PICK r : r = Counted(call[c], n, o)
      OBVIOUS
<1>8. /\ r \in Call /\ r.pc = "decide" /\ r.out = "none" /\ r.seen = call[c].seen
      /\ r.events = call[c].events
      /\ Agrees(r.ids, r.warned, CreatedBy(c) \cup {n})
      /\ o # "ok" => Agrees(r.ids, r.warned, CreatedBy(c))
      BY <1>1, <1>3, <1>5, <1>7, CountedType
<1>9. Agrees(r.ids, r.warned, CreatedBy(c)')
      BY <1>6, <1>8
<1> QED  BY <1>1, <1>2, <1>6, <1>7, <1>8, <1>9, EventInv

LEMMA UpdateInsightInv ==
  ASSUME MemoryInv, NEW c \in Calls, UpdateInsight(c)
  PROVE MemoryInv'
<1>1. call[c].pc = "decide" /\ call[c].events < MaxEvents
      BY DEF UpdateInsight, At
<1>2. PICK old \in Ids, f \in Facts, n \in UnusedIds, o \in Outcomes :
         /\ ArchiveAndCreate(c, old, n, Insight(f), o)
         /\ Becomes(c, NextEvent(Counted(call[c], n,
                                   IF mem[old].state # "active" THEN "dberr"
                                   ELSE o)))
      BY DEF UpdateInsight
<1>3. /\ call[c] \in Call /\ call[c].out = "none"
      /\ Is(c, {"create", "ingest"}) /\ ~Is(c, {"update", "delete"})
      /\ Agrees(call[c].ids, call[c].warned, CreatedBy(c))
      BY <1>1, WorkFacts
<1>4. PICK row : row = Insight(f)
      OBVIOUS
<1>5. /\ row \in Memory /\ row.state = "active" /\ row.type = "insight"
      /\ row.embedding \in {Nothing, row.content} /\ n \in Ids
      BY <1>4, InsightType DEF UnusedIds
<1>6. /\ TableOK' /\ TableStep(c)
      /\ CreatedBy(c)' = IF mem[old].state # "active" \/ o = "dberr"
                         THEN CreatedBy(c) ELSE CreatedBy(c) \cup {n}
      BY <1>2, <1>3, <1>4, <1>5, InvTable, ArchiveAndCreateStep
<1>7. PICK p : p = IF mem[old].state # "active" THEN "dberr" ELSE o
      OBVIOUS
<1>8. PICK r : r = Counted(call[c], n, p)
      OBVIOUS
<1>10. /\ r \in Call /\ r.pc = "decide" /\ r.out = "none" /\ r.seen = call[c].seen
       /\ r.events = call[c].events
       /\ Agrees(r.ids, r.warned, CreatedBy(c) \cup {n})
       /\ p # "ok" => Agrees(r.ids, r.warned, CreatedBy(c))
       BY <1>1, <1>3, <1>5, <1>8, CountedType
<1>11. Agrees(r.ids, r.warned, CreatedBy(c)')
       BY <1>6, <1>7, <1>10
<1> QED  BY <1>1, <1>2, <1>6, <1>7, <1>8, <1>10, <1>11, EventInv

LEMMA DeleteInsightInv ==
  ASSUME MemoryInv, NEW c \in Calls, DeleteInsight(c) \/ SparePinned(c)
  PROVE MemoryInv'
<1>1. call[c].pc = "decide" /\ call[c].events < MaxEvents
      BY DEF DeleteInsight, SparePinned, At
<1>2. /\ call[c] \in Call /\ call[c].out = "none" /\ call[c].warned \in BOOLEAN
      /\ Agrees(call[c].ids, call[c].warned, CreatedBy(c))
      BY <1>1, WorkFacts, CallFields
<1>3. TableOK' /\ TableStep(c) /\ CreatedBy(c)' = CreatedBy(c)
  <2>1. CASE DeleteInsight(c)
        BY <2>1, InvTable, SetStateStep DEF DeleteInsight
  <2>2. CASE SparePinned(c)
        BY <2>2, InvTable, TableKept DEF SparePinned
  <2> QED  BY <2>1, <2>2
<1>4. PICK w \in BOOLEAN : /\ call[c].warned => w
                           /\ Becomes(c, NextEvent([call[c] EXCEPT !.warned = w]))
  <2>1. CASE DeleteInsight(c)
    <3>1. PICK old \in Ids, o \in Outcomes :
             Becomes(c, NextEvent([call[c] EXCEPT
               !.warned = call[c].warned \/ o # "ok"]))
          BY <2>1, Zenon DEF DeleteInsight
    <3>2. (call[c].warned \/ o # "ok") \in BOOLEAN
          BY <1>2
    <3> QED  BY <3>1, <3>2, Zenon
  <2>2. CASE SparePinned(c)
        BY <2>2 DEF SparePinned
  <2> QED  BY <2>1, <2>2
<1>5. PICK r : r = [call[c] EXCEPT !.warned = w]
      OBVIOUS
<1>6. /\ r \in Call /\ r.pc = "decide" /\ r.out = "none" /\ r.seen = call[c].seen
      /\ r.events = call[c].events /\ r.ids = call[c].ids /\ r.warned = w
      BY <1>1, <1>2, <1>5 DEF Call
<1>7. Agrees(r.ids, r.warned, CreatedBy(c)')
      BY <1>2, <1>3, <1>4, <1>6 DEF Agrees
<1> QED  BY <1>1, <1>3, <1>4, <1>5, <1>6, <1>7, EventInv

\* What is known of a create that sets the tags of what it created.
LEMMA PatchFacts ==
  ASSUME MemoryInv, NEW c \in Calls, call[c].pc \in {"patch", "patchwrite", "fetch"}
  PROVE /\ call[c] \in Call /\ call[c].out = "none"
        /\ Is(c, {"create"}) /\ Is(c, {"create", "ingest"})
        /\ call[c].pc # "fetch" => call[c].next \in 1..Len(call[c].ids)
        /\ call[c].pc = "fetch" => Len(call[c].ids) > 0
        /\ RangeOf(call[c].ids) \subseteq CreatedBy(c)
        /\ Agrees(call[c].ids, call[c].warned, CreatedBy(c))
<1>1. call[c] \in Call /\ CallOK(c)
      BY DEF MemoryInv, TypeOK
<1>2. Is(c, {"create"})
      BY <1>1 DEF CallOK, PlaceOK
<1>3. Is(c, {"create", "ingest"})
      BY <1>2 DEF Is
<1>4. Agrees(call[c].ids, call[c].warned, CreatedBy(c))
      BY <1>1, <1>3 DEF CallOK, ResultOK
<1> QED  BY <1>1, <1>2, <1>3, <1>4 DEF CallOK, PlaceOK, Agrees

LEMMA PatchedInv ==
  ASSUME MemoryInv, NEW c \in Calls, call[c].pc \in {"patch", "patchwrite"},
         TableOK', TableStep(c), CreatedBy(c)' = CreatedBy(c),
         Becomes(c, Patched(call[c]))
  PROVE MemoryInv'
<1>1. PICK r \in Call : r = call[c]
      BY PatchFacts
<1>2. /\ Is(c, {"create"}) /\ Is(c, {"create", "ingest"})
      /\ r.next \in 1..Len(r.ids) /\ Len(r.ids) \in Nat
      /\ Agrees(r.ids, r.warned, CreatedBy(c)')
      BY <1>1, PatchFacts, CallFields
<1>3. PICK w : w = Result(r)
      OBVIOUS
<1>4. /\ w \in Call /\ w.out = "none" /\ w.ids = r.ids /\ w.warned = r.warned
      /\ w.next = 1 /\ \A i \in Ids : w.seen[i] = "unseen"
      BY <1>3, ResultType
<1>5. CASE r.next = Len(r.ids)
  <2>1. PICK s : s = [w EXCEPT !.pc = "fetch"]
        OBVIOUS
  <2>2. Becomes(c, s)
        BY <1>1, <1>3, <1>5, <2>1 DEF Patched
  <2>3. /\ s \in Call /\ s.pc = "fetch" /\ s.out = "none" /\ s.ids = r.ids
        /\ s.warned = r.warned /\ \A i \in Ids : s.seen[i] = "unseen"
        BY <1>4, <2>1 DEF Call
  <2>4. Len(s.ids) > 0
        BY <1>2, <2>3
  <2> QED  BY <1>2, <2>2, <2>3, <2>4, MoveInv
<1>6. CASE r.next # Len(r.ids)
  <2>1. PICK s : s = [w EXCEPT !.pc = "patch", !.tagged = r.tagged,
                               !.next = r.next + 1]
        OBVIOUS
  <2>2. Becomes(c, s)
        BY <1>1, <1>3, <1>6, <2>1, Zenon DEF Patched
  <2>3. r.next + 1 \in Nat /\ r.next + 1 \in 1..Len(r.ids) /\ r.tagged \in BOOLEAN
        BY <1>2, <1>6, CallFields
  <2>4. /\ s \in Call /\ s.pc = "patch" /\ s.out = "none" /\ s.ids = r.ids
        /\ s.warned = r.warned /\ s.next = r.next + 1
        /\ \A i \in Ids : s.seen[i] = "unseen"
        BY <1>4, <2>1, <2>3 DEF Call
  <2>5. s.next \in 1..Len(s.ids)
        BY <2>3, <2>4
  <2> QED  BY <1>2, <2>2, <2>4, <2>5, MoveInv
<1> QED  BY <1>5, <1>6

LEMMA ReadForPatchInv ==
  ASSUME MemoryInv, NEW c \in Calls, ReadForPatch(c)
  PROVE MemoryInv'
<1>1. call[c].pc = "patch" /\ UNCHANGED <<mem, author>>
      BY DEF ReadForPatch, At
<1>2. PICK i : i = call[c].ids[call[c].next]
      OBVIOUS
<1>3. /\ Is(c, {"create"}) /\ call[c].next \in 1..Len(call[c].ids)
      /\ call[c].ids \in Seq(Ids) /\ RangeOf(call[c].ids) \subseteq CreatedBy(c)
      BY <1>1, PatchFacts, CallFields
<1>4. i \in CreatedBy(c)
      BY <1>2, <1>3 DEF RangeOf
<1>5. i \in Ids
      BY <1>4 DEF CreatedBy
<1>6. CASE Becomes(c, Patched(call[c]))
  <2>1. TableOK' /\ TableStep(c) /\ CreatedBy(c)' = CreatedBy(c)
        BY <1>1, InvTable, TableKept
  <2> QED  BY <1>1, <1>6, <2>1, PatchedInv
<1>7. CASE /\ i \in Active
           /\ Becomes(c, [call[c] EXCEPT !.pc = "patchwrite", !.id = i,
                            !.copy = [GetByID(i) EXCEPT !.tagged = TRUE]])
  <2>1. PICK m : m = [GetByID(i) EXCEPT !.tagged = TRUE]
        OBVIOUS
  <2>2. m \in Memory /\ m.embedding \in {Nothing, m.content}
        BY <1>5, <2>1, GetByIDType
  <2>3. Becomes(c, [call[c] EXCEPT !.pc = "patchwrite", !.id = i, !.copy = m])
        BY <1>7, <2>1, Zenon
  <2> QED  BY <1>1, <1>3, <1>4, <1>7, <2>2, <2>3, HoldInv DEF At
<1>8. \/ Becomes(c, Patched(call[c]))
      \/ /\ i \in Active
         /\ Becomes(c, [call[c] EXCEPT !.pc = "patchwrite", !.id = i,
                          !.copy = [GetByID(i) EXCEPT !.tagged = TRUE]])
      BY <1>2, Zenon DEF ReadForPatch
<1> QED  BY <1>6, <1>7, <1>8

LEMMA WritePatchInv ==
  ASSUME MemoryInv, NEW c \in Calls, WritePatch(c)
  PROVE MemoryInv'
<1>1. /\ call[c].pc = "patchwrite" /\ Becomes(c, Patched(call[c]))
      /\ \E o \in Outcomes : UpdateOptimistic(call[c].id, call[c].copy, o)
      BY DEF WritePatch, At
<1>2. /\ call[c] \in Call /\ call[c].id \in Ids /\ Born(call[c].id)
      /\ call[c].copy.embedding \in {Nothing, call[c].copy.content}
      BY <1>1 DEF MemoryInv, TypeOK, CallOK, CopyOK
<1>3. TableOK' /\ TableStep(c) /\ CreatedBy(c)' = CreatedBy(c)
      BY <1>1, <1>2, InvTable, CallFields, UpdateOptimisticStep
<1> QED  BY <1>1, <1>3, PatchedInv

LEMMA FetchCreatedInv ==
  ASSUME MemoryInv, NEW c \in Calls, FetchCreated(c)
  PROVE MemoryInv'
<1>1. /\ call[c].pc = "fetch" /\ UNCHANGED <<mem, author>>
      /\ Finish(c, "complete") \/ Finish(c, "unfetched")
      BY DEF FetchCreated, At
<1>2. call[c] \in Call /\ Agrees(call[c].ids, call[c].warned, CreatedBy(c))
      BY <1>1, PatchFacts
<1>3. TableOK' /\ TableStep(c) /\ CreatedBy(c)' = CreatedBy(c)
      BY <1>1, InvTable, TableKept
<1> QED  BY <1>1, <1>2, <1>3, DoneInv DEF Finish, Outs

LEMMA CrashInv ==
  ASSUME MemoryInv, Crash
  PROVE MemoryInv'
<1>1. TableOK' /\ \A d \in Calls : CreatedBy(d)' = CreatedBy(d) /\ TableStep(d)
      BY InvTable, TableKept DEF Crash
<1>2. ASSUME NEW c \in Calls  PROVE call'[c] \in Call /\ CallOK(c)'
  <2>1. call[c] \in Call /\ CallOK(c)
        BY DEF MemoryInv, TypeOK
  <2>2. CASE call[c].pc \in {"new", "done"}
    <3>1. call'[c] = call[c]
          BY <2>2 DEF Crash
    <3> QED  BY <1>1, <2>1, <3>1
             DEF CallOK, PlaceOK, SeenOK, CopyOK, ResultOK, TableStep, Is
  <2>3. CASE call[c].pc \notin {"new", "done"}
    <3>1. call'[c] = Done(call[c], "gone")
          BY <2>3 DEF Crash
    <3>2. PICK r : r = Done(call[c], "gone")
          OBVIOUS
    <3>3. /\ r \in Call /\ r.pc = "done" /\ r.out = "gone" /\ r.ids = call[c].ids
          /\ r.warned = call[c].warned /\ r.seen = [i \in Ids |-> "unseen"]
          BY <2>1, <3>2, DoneType DEF Outs
    <3>4. call'[c] = r
          BY <3>1, <3>2
    <3> QED  BY <1>1, <2>1, <3>3, <3>4
             DEF CallOK, PlaceOK, SeenOK, CopyOK, ResultOK, Is
  <2> QED  BY <2>2, <2>3
<1>3. call' \in [Calls -> Call]
      BY <1>2 DEF Crash
<1> QED  BY <1>1, <1>2, <1>3 DEF MemoryInv, TypeOK, TableOK

LEMMA InitInv == Init => MemoryInv
<1> SUFFICES ASSUME Init PROVE MemoryInv
    OBVIOUS
<1>1. PICK f \in [Stored -> Facts] :
        mem = [i \in Ids |->
                 IF i \in Stored
                 THEN NewMemory(IF i \in Pinned THEN "pinned" ELSE "insight",
                                f[i], FALSE, Nothing)
                 ELSE Unborn]
      BY DEF Init
<1>2. ASSUME NEW i \in Ids
      PROVE /\ mem[i] \in Memory /\ mem[i].embedding = Nothing
            /\ mem[i].supersededBy = NoId
  <2>1. CASE i \in Stored
    <3>1. /\ (IF i \in Pinned THEN "pinned" ELSE "insight") \in Types
          /\ f[i] \in Facts \cup {Nothing}
          BY <2>1 DEF Types
    <3>2. mem[i] = NewMemory(IF i \in Pinned THEN "pinned" ELSE "insight",
                             f[i], FALSE, Nothing)
          BY <1>1, <2>1
    <3> QED  BY <3>1, <3>2 DEF NewMemory, Memory
  <2>2. CASE i \notin Stored
    <3>1. mem[i] = Unborn
          BY <1>1, <2>2
    <3> QED  BY <3>1, UnbornType
  <2> QED  BY <2>1, <2>2
<1>3. /\ author = [i \in Ids |-> NoCall] /\ call = [c \in Calls |-> Fresh]
      /\ NoCall \notin Calls
      BY ConstantsAssumption DEF Init
<1>4. TypeOK
      BY <1>1, <1>2, <1>3, FreshType DEF TypeOK
<1>5. \A i \in Ids : RowOK(i)
      BY <1>2, <1>3 DEF RowOK
<1>6. ASSUME NEW c \in Calls  PROVE CallOK(c)
  <2>1. CreatedBy(c) = {} /\ call[c] = Fresh
        BY <1>3 DEF CreatedBy
  <2>2. Fresh.next = 1
        BY DEF Fresh
  <2> QED  BY <2>1, <2>2, FreshType, RangeFacts
           DEF CallOK, PlaceOK, SeenOK, CopyOK, ResultOK, Agrees
<1> QED  BY <1>4, <1>5, <1>6 DEF MemoryInv

\* What one call may do in one step.
CallStep(c) ==
    \/ RawCreate(c) \/ BulkCreate(c) \/ Delete(c)
    \/ ReadForUpdate(c) \/ WriteUpdate(c)
    \/ ExtractFacts(c) \/ SearchFact(c)
    \/ AddNextFact(c) \/ SkipReconcile(c) \/ EndEvents(c)
    \/ AddInsight(c) \/ UpdateInsight(c)
    \/ DeleteInsight(c) \/ SparePinned(c)
    \/ ReadForPatch(c) \/ WritePatch(c) \/ FetchCreated(c)

LEMMA NextCases == Next => Crash \/ \E c \in Calls : CallStep(c)
  BY Zenon DEF Next, CallStep

LEMMA StutterInv ==
  ASSUME MemoryInv, UNCHANGED vars
  PROVE MemoryInv'
<1>1. UNCHANGED <<mem, author>> /\ call' = call
      BY DEF vars
<1>2. TableOK' /\ \A d \in Calls : CreatedBy(d)' = CreatedBy(d) /\ TableStep(d)
      BY <1>1, InvTable, TableKept
<1>3. \A c \in Calls : CallOK(c)'
      BY <1>1, <1>2 DEF MemoryInv, CallOK, PlaceOK, SeenOK, CopyOK, ResultOK,
                        TableStep, Is
<1> QED  BY <1>1, <1>2, <1>3 DEF MemoryInv, TypeOK, TableOK

LEMMA NextInv ==
  ASSUME MemoryInv, [Next]_vars
  PROVE MemoryInv'
<1>1. ASSUME NEW c \in Calls, CallStep(c)
      PROVE MemoryInv'
      BY <1>1, RawCreateInv, BulkCreateInv, DeleteInv, ReadForUpdateInv,
         WriteUpdateInv, ExtractFactsInv, SearchFactInv, AddNextFactInv,
         EndEventsInv, AddInsightInv, UpdateInsightInv, DeleteInsightInv,
         ReadForPatchInv, WritePatchInv, FetchCreatedInv
      DEF CallStep
<1> QED  BY <1>1, CrashInv, StutterInv, NextCases

-----------------------------------------------------------------------------
(* Theorems                                                                *)

LEMMA InvAlways == Spec => []MemoryInv
<1>1. MemoryInv /\ [Next]_vars => MemoryInv'
      BY NextInv
<1> QED  BY InitInv, <1>1, PTL DEF Spec

\* The rows and the calls keep their types, and no loop of a pipeline leaves
\* the list it walks through.
THEOREM TypeCorrect == Spec => []TypeOK
<1>1. MemoryInv => TypeOK
      BY DEF MemoryInv
<1> QED  BY InvAlways, <1>1, PTL

\* No interleaving of updates, patches and pipelines leaves a row with the
\* embedding of another text than its own (UpdateOptimistic writes the text
\* and the embedding of one copy together).
THEOREM EmbeddingsFit == Spec => []EmbeddingFits
<1>1. MemoryInv => EmbeddingFits
      BY DEF MemoryInv, RowOK, EmbeddingFits
<1> QED  BY InvAlways, <1>1, PTL

\* What a pipeline reports is what it created: nothing else, and all of it
\* unless it reports a warning.
THEOREM ResultIsCreated == Spec => []ResultNamesCreated
<1>1. MemoryInv => ResultNamesCreated
      BY DEF MemoryInv, CallOK, ResultOK, Agrees, RangeOf, CreatedBy,
             ResultNamesCreated
<1> QED  BY InvAlways, <1>1, PTL

\* If no answer of the database is lost, a call that answers an error before
\* it has a result has stored nothing, so that a client may try it again.
THEOREM FailedStoredNothing ==
  ASSUME "lost" \notin Faults
  PROVE Spec => []FailureStoresNothing
<1>1. MemoryInv => FailureStoresNothing
      BY DEF MemoryInv, CallOK, ResultOK, CreatedBy, FailureStoresNothing
<1> QED  BY InvAlways, <1>1, PTL

-----------------------------------------------------------------------------
(* What a step may do to a row                                             *)

OthersSame(S) == \A j \in Ids \ S : mem'[j] = mem[j]

InsertsRows ==
    \E S \in SUBSET UnusedIds :
      /\ S # {} /\ OthersSame(S)
      /\ \A i \in S : mem'[i].state = "active" /\ mem'[i].supersededBy = NoId

RewritesRow(i) ==
    /\ OthersSame({i})
    /\ mem'[i].state = mem[i].state
    /\ mem'[i].supersededBy = mem[i].supersededBy

DeletesRow(i) ==
    /\ OthersSame({i})
    /\ mem[i].state \in {"active", "archived"}
    /\ mem'[i].state = "deleted"
    /\ mem'[i].supersededBy = mem[i].supersededBy

ReplacesRow(i, n) ==
    /\ OthersSame({i, n})
    /\ mem[i].state = "active" /\ n \in UnusedIds
    /\ mem'[i].state = "archived" /\ mem'[i].supersededBy = n
    /\ mem'[n].state = "active" /\ mem'[n].supersededBy = NoId

\* A row is changed by the client that names it, or it is an insight.
MayChange(c, i) ==
    mem[i].type = "insight" \/ (Is(c, {"update", "delete"}) /\ call'[c] # call[c])

RowStep(c) ==
    \/ UNCHANGED mem
    \/ InsertsRows
    \/ \E i \in Ids :
         /\ MayChange(c, i)
         /\ \/ RewritesRow(i) \/ DeletesRow(i)
            \/ \E n \in Ids : ReplacesRow(i, n)

LEMMA InsertSomeRows ==
  ASSUME MemoryInv, NEW c \in Calls, NEW o, NEW S \in SUBSET UnusedIds, S # {},
         NEW new \in [S -> Memory],
         \A i \in S : new[i].state = "active" /\ new[i].supersededBy = NoId,
         InsertSome(c, new, o)
  PROVE RowStep(c)
<1>1. CASE o = "dberr"
      BY <1>1 DEF InsertSome, RowStep
<1>2. CASE o # "dberr"
  <2>1. mem' = [i \in Ids |-> IF i \in S THEN new[i] ELSE mem[i]]
        BY <1>2 DEF InsertSome
  <2>2. S \subseteq Ids
        BY DEF UnusedIds
  <2>3. InsertsRows
        BY <2>1, <2>2 DEF InsertsRows, OthersSame
  <2> QED  BY <2>3 DEF RowStep
<1> QED  BY <1>1, <1>2

LEMMA InsertRows ==
  ASSUME MemoryInv, NEW c \in Calls, NEW o, NEW n \in UnusedIds, NEW row \in Memory,
         row.state = "active", row.supersededBy = NoId, Insert(c, n, row, o)
  PROVE RowStep(c)
<1> DEFINE new == [i \in {n} |-> row]
<1>1. new \in [{n} -> Memory] /\ \A i \in {n} : new[i] = row
      OBVIOUS
<1>2. InsertSome(c, new, o)
      BY DEF Insert
<1>3. {n} \in SUBSET UnusedIds /\ {n} # {}
      OBVIOUS
<1> HIDE DEF new
<1> QED  BY <1>1, <1>2, <1>3, InsertSomeRows

LEMMA UpdateRows ==
  ASSUME MemoryInv, NEW c \in Calls, NEW o, NEW i \in Ids, NEW r \in Memory,
         MayChange(c, i), UpdateOptimistic(i, r, o)
  PROVE RowStep(c)
<1>1. mem[i] \in Memory /\ mem \in [Ids -> Memory]
      BY DEF MemoryInv, TypeOK
<1>2. CASE o = "dberr"
      BY <1>2 DEF UpdateOptimistic, RowStep
<1>3. CASE o # "dberr"
  <2>1. PICK u : u = Updated(mem[i], r)
        OBVIOUS
  <2>2. u.state = mem[i].state /\ u.supersededBy = mem[i].supersededBy
        BY <1>1, <2>1, UpdatedRow
  <2>3. mem' = [mem EXCEPT ![i] = u]
        BY <1>3, <2>1 DEF UpdateOptimistic
  <2>4. RewritesRow(i)
        BY <1>1, <2>2, <2>3 DEF RewritesRow, OthersSame
  <2> QED  BY <2>4 DEF RowStep
<1> QED  BY <1>2, <1>3

LEMMA DeleteRows ==
  ASSUME MemoryInv, NEW c \in Calls, NEW o, NEW i \in Ids, MayChange(c, i),
         SetState(i, "deleted", o) \/ (Born(i) /\ SoftDelete(i, o))
  PROVE RowStep(c)
<1>1. mem[i] \in Memory /\ mem \in [Ids -> Memory]
      BY DEF MemoryInv, TypeOK
<1>2. CASE UNCHANGED mem
      BY <1>2 DEF RowStep
<1>3. CASE ~UNCHANGED mem
  <2> DEFINE u == [mem[i] EXCEPT !.state = "deleted"]
  <2>1. u.state = "deleted" /\ u.supersededBy = mem[i].supersededBy
        BY <1>1, RowTypes
  <2>2. mem' = [mem EXCEPT ![i] = u]
        BY <1>3 DEF SetState, SoftDelete
  <2>3. mem[i].state \in {"active", "archived"}
        BY <1>1, <1>3 DEF SetState, SoftDelete, Born, Memory
  <2> HIDE DEF u
  <2>4. DeletesRow(i)
        BY <1>1, <2>1, <2>2, <2>3 DEF DeletesRow, OthersSame
  <2> QED  BY <2>4 DEF RowStep
<1> QED  BY <1>2, <1>3

LEMMA ReplaceRows ==
  ASSUME MemoryInv, NEW c \in Calls, NEW o, NEW old \in Ids, NEW n \in UnusedIds,
         NEW row \in Memory, row.state = "active", row.supersededBy = NoId,
         MayChange(c, old), ArchiveAndCreate(c, old, n, row, o)
  PROVE RowStep(c)
<1>1. mem[old] \in Memory /\ mem \in [Ids -> Memory]
      BY DEF MemoryInv, TypeOK
<1>2. CASE mem[old].state # "active" \/ o = "dberr"
      BY <1>2 DEF ArchiveAndCreate, RowStep
<1>3. CASE mem[old].state = "active" /\ o # "dberr"
  <2>1. PICK u : u = ArchivedFor(mem[old], n)
        OBVIOUS
  <2>2. n \in Ids /\ mem[n].state = "none" /\ n # old
        BY <1>3 DEF UnusedIds
  <2>3. u.state = "archived" /\ u.supersededBy = n
        BY <1>1, <2>1, <2>2, ArchivedRow
  <2>4. mem' = [mem EXCEPT ![old] = u, ![n] = row]
        BY <1>3, <2>1 DEF ArchiveAndCreate
  <2>5. mem'[old] = u /\ mem'[n] = row /\ OthersSame({old, n})
        BY <1>1, <2>2, <2>4 DEF OthersSame
  <2>6. ReplacesRow(old, n)
        BY <1>3, <2>2, <2>3, <2>5 DEF ReplacesRow
  <2> QED  BY <2>2, <2>6 DEF RowStep
<1> QED  BY <1>2, <1>3

LEMMA CallRowStep ==
  ASSUME MemoryInv, NEW c \in Calls, CallStep(c)
  PROVE RowStep(c)
<1>1. \A i \in Ids : call[c].pc = "decide" /\ call[c].seen[i] = "insight" => MayChange(c, i)
      BY WorkFacts DEF MayChange
<1>2. CASE RawCreate(c)
  <2>1. PICK f \in Facts, g \in BOOLEAN, n \in UnusedIds, o \in Outcomes :
           Insert(c, n, NewMemory("insight", f, g, EmbeddingOf(f)), o)
        BY <1>2 DEF RawCreate
  <2>2. PICK row : row = NewMemory("insight", f, g, EmbeddingOf(f))
        OBVIOUS
  <2>3. row \in Memory /\ row.state = "active" /\ row.supersededBy = NoId
        BY <2>2, NewMemoryType, EmbeddingType DEF Types
  <2> QED  BY <2>1, <2>2, <2>3, InsertRows
<1>3. CASE BulkCreate(c)
  <2>1. PICK S \in SUBSET UnusedIds, o \in Outcomes :
           /\ Cardinality(S) \in 1..MaxBatch
           /\ \E f \in [S -> Facts], type \in [S -> Types] :
                InsertSome(c, [i \in S |-> NewMemory(type[i], f[i], FALSE, Nothing)], o)
        BY <1>3 DEF BulkCreate
  <2>2. PICK f \in [S -> Facts], type \in [S -> Types] :
           InsertSome(c, [i \in S |-> NewMemory(type[i], f[i], FALSE, Nothing)], o)
        BY <2>1
  <2>3. S # {}
        BY <2>1, FS_EmptySet
  <2>4. PICK new : new = [i \in S |-> NewMemory(type[i], f[i], FALSE, Nothing)]
        OBVIOUS
  <2>5. ASSUME NEW i \in S
        PROVE /\ NewMemory(type[i], f[i], FALSE, Nothing) \in Memory
              /\ NewMemory(type[i], f[i], FALSE, Nothing).state = "active"
              /\ NewMemory(type[i], f[i], FALSE, Nothing).supersededBy = NoId
    <3>1. type[i] \in Types /\ f[i] \in Facts \cup {Nothing}
          OBVIOUS
    <3> QED  BY <3>1 DEF NewMemory, Memory
  <2>6. /\ new \in [S -> Memory]
        /\ \A i \in S : new[i].state = "active" /\ new[i].supersededBy = NoId
        BY <2>4, <2>5
  <2> QED  BY <2>2, <2>3, <2>4, <2>6, InsertSomeRows
<1>4. CASE Delete(c)
  <2>1. PICK i \in Ids \ UnusedIds, o \in Outcomes :
           SoftDelete(i, o) /\ Finish(c, IF o = "ok" THEN "complete" ELSE "failed")
        BY <1>4 DEF Delete
  <2>2. PICK out \in Outs : Becomes(c, Done(call[c], out))
        BY <2>1 DEF Finish, Outs
  <2>3. Is(c, {"update", "delete"}) /\ call[c].pc = "new" /\ call[c] \in Call
        BY <1>4 DEF Delete, At, Is, MemoryInv, TypeOK
  <2>4. call'[c].pc = "done"
        BY <2>2, <2>3, DoneType, BecomesOne DEF MemoryInv
  <2>5. MayChange(c, i)
        BY <2>3, <2>4 DEF MayChange
  <2> QED  BY <2>1, <2>5, DeleteRows DEF UnusedIds, Born
<1>5. CASE WriteUpdate(c)
  <2>1. PICK o \in Outcomes :
           /\ UpdateOptimistic(call[c].id, call[c].copy, o)
           /\ Finish(c, IF o = "ok" THEN "complete" ELSE "failed")
        BY <1>5 DEF WriteUpdate
  <2>2. PICK out \in Outs : Becomes(c, Done(call[c], out))
        BY <2>1 DEF Finish, Outs
  <2>3. /\ Is(c, {"update", "delete"}) /\ call[c].pc = "write" /\ call[c] \in Call
        /\ call[c].id \in Ids
        BY <1>5 DEF WriteUpdate, At, Is, MemoryInv, TypeOK, CallOK, PlaceOK, CopyOK
  <2>4. call'[c].pc = "done"
        BY <2>2, <2>3, DoneType, BecomesOne DEF MemoryInv
  <2>5. MayChange(c, call[c].id)
        BY <2>3, <2>4 DEF MayChange
  <2> QED  BY <2>1, <2>3, <2>5, CallFields, UpdateRows
<1>6. CASE AddNextFact(c)
  <2>1. call[c].pc = "addall"
        BY <1>6 DEF AddNextFact, At
  <2>2. PICK n \in UnusedIds, o \in Outcomes :
           Insert(c, n, Insight(call[c].facts[call[c].next]), o)
        BY <1>6 DEF AddNextFact
  <2>3. call[c] \in Call /\ call[c].next \in 1..Len(call[c].facts)
        BY <2>1, WorkFacts
  <2>4. PICK f \in Facts : f = call[c].facts[call[c].next]
        BY <2>3, CallFields
  <2>5. PICK row : row = Insight(f)
        OBVIOUS
  <2>6. row \in Memory /\ row.state = "active" /\ row.supersededBy = NoId
        BY <2>5, InsightType
  <2>7. Insert(c, n, row, o)
        BY <2>2, <2>4, <2>5
  <2> QED  BY <2>6, <2>7, InsertRows
<1>7. CASE AddInsight(c)
  <2>1. PICK f \in Facts, n \in UnusedIds, o \in Outcomes : Insert(c, n, Insight(f), o)
        BY <1>7 DEF AddInsight
  <2>2. PICK row : row = Insight(f)
        OBVIOUS
  <2>3. row \in Memory /\ row.state = "active" /\ row.supersededBy = NoId
        BY <2>2, InsightType
  <2> QED  BY <2>1, <2>2, <2>3, InsertRows
<1>8. CASE UpdateInsight(c)
  <2>1. PICK old \in Ids, f \in Facts, n \in UnusedIds, o \in Outcomes :
           /\ call[c].seen[old] = "insight"
           /\ ArchiveAndCreate(c, old, n, Insight(f), o)
        BY <1>8 DEF UpdateInsight
  <2>2. PICK row : row = Insight(f)
        OBVIOUS
  <2>3. row \in Memory /\ row.state = "active" /\ row.supersededBy = NoId
        BY <2>2, InsightType
  <2>4. MayChange(c, old)
        BY <1>1, <1>8, <2>1 DEF UpdateInsight, At
  <2> QED  BY <2>1, <2>2, <2>3, <2>4, ReplaceRows
<1>9. CASE DeleteInsight(c)
  <2>1. PICK old \in Ids, o \in Outcomes :
           call[c].seen[old] = "insight" /\ SetState(old, "deleted", o)
        BY <1>9 DEF DeleteInsight
  <2>2. MayChange(c, old)
        BY <1>1, <1>9, <2>1 DEF DeleteInsight, At
  <2> QED  BY <2>1, <2>2, DeleteRows
<1>10. CASE WritePatch(c)
  <2>1. PICK o \in Outcomes : UpdateOptimistic(call[c].id, call[c].copy, o)
        BY <1>10 DEF WritePatch
  <2>2. /\ call[c] \in Call /\ call[c].id \in Ids /\ call[c].id \in CreatedBy(c)
        /\ Is(c, {"create"})
        BY <1>10 DEF WritePatch, At, MemoryInv, TypeOK, CallOK, PlaceOK, CopyOK
  <2>3. MayChange(c, call[c].id)
        BY <2>2 DEF MayChange, MemoryInv, RowOK, CreatedBy, Is
  <2> QED  BY <2>1, <2>2, <2>3, CallFields, UpdateRows
<1>11. CASE \/ ReadForUpdate(c) \/ ExtractFacts(c) \/ SearchFact(c)
            \/ SkipReconcile(c) \/ EndEvents(c) \/ SparePinned(c)
            \/ ReadForPatch(c) \/ FetchCreated(c)
  <2>1. UNCHANGED mem
        BY <1>11 DEF ReadForUpdate, ExtractFacts, SearchFact, SkipReconcile,
                     EndEvents, SparePinned, ReadForPatch, FetchCreated
  <2> QED  BY <2>1 DEF RowStep
<1> QED  BY <1>2, <1>3, <1>4, <1>5, <1>6, <1>7, <1>8, <1>9, <1>10, <1>11 DEF CallStep

\* Whatever the model answers and however old the search was, a pipeline
\* leaves pinned memories alone: they change only in the step of a client's
\* update or deletion by id.
THEOREM PinnedLeftAlone == Spec => PinnedIsLeftAlone
<1> DEFINE Step == \A i \in Ids :
              (mem[i].state # "none" /\ mem[i].type = "pinned" /\ mem'[i] # mem[i])
                => \E c \in Calls : Is(c, {"update", "delete"}) /\ call'[c] # call[c]
<1>1. ASSUME MemoryInv, NEW c \in Calls, CallStep(c)  PROVE Step
  <2>1. RowStep(c)
        BY <1>1, CallRowStep
  <2>2. CASE UNCHANGED mem
        BY <2>2
  <2>3. CASE InsertsRows
        BY <2>3 DEF InsertsRows, OthersSame, UnusedIds
  <2>4. ASSUME NEW i \in Ids, MayChange(c, i),
               \/ RewritesRow(i) \/ DeletesRow(i)
               \/ \E n \in Ids : ReplacesRow(i, n)
        PROVE Step
    <3>1. ASSUME NEW j \in Ids, mem[j].state # "none", mem'[j] # mem[j]
          PROVE j = i
          BY <2>4, <3>1 DEF RewritesRow, DeletesRow, ReplacesRow, OthersSame, UnusedIds
    <3> QED  BY <2>4, <3>1 DEF MayChange
  <2> QED  BY <2>1, <2>2, <2>3, <2>4 DEF RowStep
<1>2. MemoryInv /\ [Next]_vars => [Step]_vars
      BY <1>1, NextCases DEF Crash
<1> QED  BY InvAlways, <1>2, PTL DEF Spec, PinnedIsLeftAlone

-----------------------------------------------------------------------------
(* The table implements MemoryHistory                                      *)

StatusOf(m) ==
    CASE m.state = "none" -> "unborn"
      [] m.state = "active" -> "live"
      [] m.state = "archived" -> "replaced"
      [] OTHER -> "deleted"

statusBar == [i \in Ids |-> StatusOf(mem[i])]
heirBar == [i \in Ids |-> mem[i].supersededBy]

LEMMA StatusFacts ==
  ASSUME NEW m \in Memory
  PROVE /\ m.state = "none" <=> StatusOf(m) = "unborn"
        /\ m.state = "active" <=> StatusOf(m) = "live"
        /\ m.state = "archived" <=> StatusOf(m) = "replaced"
        /\ m.state = "deleted" <=> StatusOf(m) = "deleted"
<1>1. m.state \in {"none", "active", "archived", "deleted"}
      BY DEF Memory
<1> QED  BY <1>1 DEF StatusOf

\* A birth, a replacement and a deletion, as MemoryHistory tells them, of the
\* memories seen through the refinement mapping.
BarBorn(S) ==
    /\ S # {}
    /\ \A i \in S : statusBar[i] = "unborn"
    /\ statusBar' = [i \in Ids |-> IF i \in S THEN "live" ELSE statusBar[i]]
    /\ heirBar' = heirBar

BarReplace(i, n) ==
    /\ statusBar[i] = "live"
    /\ statusBar[n] = "unborn"
    /\ statusBar' = [statusBar EXCEPT ![i] = "replaced", ![n] = "live"]
    /\ heirBar' = [heirBar EXCEPT ![i] = n]

BarDelete(i) ==
    /\ statusBar[i] \in {"live", "replaced"}
    /\ statusBar' = [statusBar EXCEPT ![i] = "deleted"]
    /\ heirBar' = heirBar

BarNext ==
    \/ \E S \in SUBSET Ids : BarBorn(S)
    \/ \E i, n \in Ids : BarReplace(i, n)
    \/ \E i \in Ids : BarDelete(i)

LEMMA RowStepMaps ==
  ASSUME MemoryInv, MemoryInv', NEW c \in Calls, RowStep(c)
  PROVE BarNext \/ (statusBar' = statusBar /\ heirBar' = heirBar)
<1>1. /\ \A i \in Ids : mem[i] \in Memory /\ mem'[i] \in Memory
      /\ \A i \in UnusedIds : i \in Ids /\ mem[i].state = "none"
                              /\ mem[i].supersededBy = NoId
      BY DEF MemoryInv, TypeOK, UnusedIds, RowOK, Born
<1>2. /\ \A i \in Ids : statusBar[i] = StatusOf(mem[i])
      /\ \A i \in Ids : heirBar[i] = mem[i].supersededBy
      /\ \A i \in Ids : statusBar'[i] = StatusOf(mem'[i])
      /\ \A i \in Ids : heirBar'[i] = mem'[i].supersededBy
      BY DEF statusBar, heirBar
<1>3. /\ statusBar = [i \in Ids |-> statusBar[i]]
      /\ heirBar = [i \in Ids |-> heirBar[i]]
      /\ statusBar' = [i \in Ids |-> statusBar'[i]]
      /\ heirBar' = [i \in Ids |-> heirBar'[i]]
      BY DEF statusBar, heirBar
<1>4. CASE UNCHANGED mem
      BY <1>4 DEF statusBar, heirBar
<1>5. CASE InsertsRows
  <2>1. PICK S \in SUBSET UnusedIds :
           /\ S # {} /\ OthersSame(S)
           /\ \A i \in S : mem'[i].state = "active" /\ mem'[i].supersededBy = NoId
        BY <1>5 DEF InsertsRows
  <2>2. S \in SUBSET Ids
        BY <1>1
  <2>3. \A i \in S : statusBar[i] = "unborn" /\ statusBar'[i] = "live"
        BY <1>1, <1>2, <2>1, <2>2, StatusFacts
  <2>4. \A i \in Ids \ S : statusBar'[i] = statusBar[i]
        BY <1>2, <2>1 DEF OthersSame
  <2>5. \A i \in Ids : heirBar'[i] = heirBar[i]
        BY <1>1, <1>2, <2>1 DEF OthersSame
  <2>6. BarBorn(S)
        BY <1>3, <2>1, <2>3, <2>4, <2>5 DEF BarBorn
  <2> QED  BY <2>2, <2>6 DEF BarNext
<1>6. ASSUME NEW i \in Ids, RewritesRow(i)
      PROVE statusBar' = statusBar /\ heirBar' = heirBar
  <2>1. \A j \in Ids : StatusOf(mem'[j]) = StatusOf(mem[j])
        BY <1>6 DEF RewritesRow, OthersSame, StatusOf
  <2>2. \A j \in Ids : mem'[j].supersededBy = mem[j].supersededBy
        BY <1>6 DEF RewritesRow, OthersSame
  <2> QED  BY <2>1, <2>2 DEF statusBar, heirBar
<1>7. ASSUME NEW i \in Ids, DeletesRow(i)
      PROVE BarNext
  <2>1. statusBar[i] \in {"live", "replaced"} /\ statusBar'[i] = "deleted"
        BY <1>1, <1>2, <1>7, StatusFacts DEF DeletesRow
  <2>2. \A j \in Ids \ {i} : statusBar'[j] = statusBar[j]
        BY <1>2, <1>7 DEF DeletesRow, OthersSame
  <2>3. \A j \in Ids : heirBar'[j] = heirBar[j]
        BY <1>2, <1>7 DEF DeletesRow, OthersSame
  <2>4. statusBar' = [statusBar EXCEPT ![i] = "deleted"]
        BY <1>3, <2>1, <2>2
  <2>5. heirBar' = heirBar
        BY <1>3, <2>3
  <2> QED  BY <2>1, <2>4, <2>5 DEF BarNext, BarDelete
<1>8. ASSUME NEW i \in Ids, NEW n \in Ids, ReplacesRow(i, n)
      PROVE BarNext
  <2>1. statusBar[i] = "live" /\ statusBar'[i] = "replaced"
        BY <1>1, <1>2, <1>8, StatusFacts DEF ReplacesRow
  <2>2. statusBar[n] = "unborn" /\ statusBar'[n] = "live" /\ n # i
        BY <1>1, <1>2, <1>8, StatusFacts DEF ReplacesRow
  <2>3. \A j \in Ids \ {i, n} : statusBar'[j] = statusBar[j]
        BY <1>2, <1>8 DEF ReplacesRow, OthersSame
  <2>4. heirBar'[i] = n /\ \A j \in Ids \ {i} : heirBar'[j] = heirBar[j]
        BY <1>1, <1>2, <1>8 DEF ReplacesRow, OthersSame
  <2>5. statusBar' = [statusBar EXCEPT ![i] = "replaced", ![n] = "live"]
        BY <1>3, <2>1, <2>2, <2>3
  <2>6. heirBar' = [heirBar EXCEPT ![i] = n]
        BY <1>3, <2>4
  <2> QED  BY <2>1, <2>2, <2>5, <2>6 DEF BarNext, BarReplace
<1> QED  BY <1>4, <1>5, <1>6, <1>7, <1>8 DEF RowStep

LEMMA InitMaps ==
  ASSUME Init
  PROVE statusBar \in [Ids -> {"unborn", "live"}] /\ heirBar = [i \in Ids |-> NoId]
<1>1. PICK f \in [Stored -> Facts] :
        mem = [i \in Ids |->
                 IF i \in Stored
                 THEN NewMemory(IF i \in Pinned THEN "pinned" ELSE "insight",
                                f[i], FALSE, Nothing)
                 ELSE Unborn]
      BY DEF Init
<1>2. ASSUME NEW i \in Ids
      PROVE mem[i].state \in {"none", "active"} /\ mem[i].supersededBy = NoId
  <2>1. CASE i \in Stored
        BY <1>1, <2>1 DEF NewMemory
  <2>2. CASE i \notin Stored
    <3>1. mem[i] = Unborn
          BY <1>1, <2>2
    <3> QED  BY <3>1, UnbornType
  <2> QED  BY <2>1, <2>2
<1>3. \A i \in Ids : StatusOf(mem[i]) \in {"unborn", "live"}
      BY <1>2 DEF StatusOf
<1> QED  BY <1>2, <1>3 DEF statusBar, heirBar

\* The table keeps the history MemoryHistory describes, whatever the calls,
\* the model and the faults: a memory is replaced at most once and only while
\* it is live, its heir is born in the same step, and nothing comes back.
THEOREM HistoryImplemented == Spec => ImplementsHistory
<1>1. Init => History!Init
      BY InitMaps, Zenon DEF History!Init, statusBar, heirBar, StatusOf
<1>2. MemoryInv /\ MemoryInv' /\ [Next]_vars => [History!Next]_History!vars
  <2> SUFFICES ASSUME MemoryInv, MemoryInv', [Next]_vars
               PROVE History!Next \/ UNCHANGED History!vars
      BY DEF History!vars
  <2>1. BarNext \/ (statusBar' = statusBar /\ heirBar' = heirBar)
    <3>1. CASE UNCHANGED mem
          BY <3>1 DEF statusBar, heirBar
    <3>2. ASSUME NEW c \in Calls, CallStep(c)
          PROVE BarNext \/ (statusBar' = statusBar /\ heirBar' = heirBar)
          BY <3>2, CallRowStep, RowStepMaps
    <3> QED  BY <3>1, <3>2, NextCases DEF vars, Crash
  <2> QED  BY <2>1, Zenon
           DEF BarNext, BarBorn, BarReplace, BarDelete, statusBar, heirBar, StatusOf,
               History!Next, History!Born, History!Replace, History!Delete,
               History!vars
<1> QED  BY InvAlways, <1>1, <1>2, PTL DEF Spec, ImplementsHistory, History!Spec

==============================================================================
