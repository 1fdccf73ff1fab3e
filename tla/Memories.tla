------------------------------- MODULE Memories -------------------------------
(***************************************************************************)
(* The memory table of one tenant and the calls that work on it at the     *)
(* same time: memories posted with and without a language model, the       *)
(* ingest pipeline that reconciles extracted facts with what is stored,    *)
(* updates and deletions by id, and the batches of a file import.          *)
(*                                                                         *)
(* A call runs in a goroutine of its own.  Each of its statements is a     *)
(* step, so what it read may be stale when it writes.  The memories in     *)
(* Stored are in the table at the start.  The text of a memory is a member *)
(* of Facts.  The answers of the model, and which memories a similarity    *)
(* search finds besides those with the very text searched for, are chosen  *)
(* freely.  Searches are not limited to five matches.                      *)
(***************************************************************************)
EXTENDS Naturals, Sequences, FiniteSets

CONSTANTS
    Ids,        \* uuids of memories
    NoId,
    Facts,      \* texts
    Nothing,    \* no text, no embedding
    Calls,      \* requests and import batches, each made once
    NoCall,
    KindOf,     \* what each call is
    Stored,     \* memories in the table at the start
    Pinned,     \* the pinned ones among them
    Embedding,  \* embeddings are computed by the server (embed.Embedder)
    MaxFacts,   \* bound on the facts the model extracts from one text
    MaxBatch,   \* bound on the memories of one import batch
    MaxEvents,  \* bound on the ADD, UPDATE and DELETE events of one answer
    Faults      \* the faults the environment may inject

(***************************************************************************)
(* "raw" is a create, or an ingest in raw mode, on a server without a      *)
(* model.  "create" and "ingest" reconcile: the first for one text, whose  *)
(* tags it sets afterwards, the second for a conversation.                 *)
(***************************************************************************)
Kinds == {"raw", "create", "ingest", "update", "delete", "import"}

(***************************************************************************)
(* "dberr": a statement fails and changes nothing, or the embedder fails   *)
(* before it.  "lost": a statement takes effect and its answer is an       *)
(* error.  "llm": the model fails, or answers no JSON twice.  "search": a  *)
(* search for existing memories fails.  "miss": a search overlooks a       *)
(* memory with the very text searched for (another agent's, the sixth      *)
(* match, or one failed leg of a hybrid search).  "crash": the process     *)
(* dies.                                                                   *)
(***************************************************************************)
FaultKinds == {"dberr", "lost", "llm", "search", "miss", "crash"}

ASSUME ConstantsAssumption ==
    /\ NoId \notin Ids
    /\ Nothing \notin Facts
    /\ NoCall \notin Calls
    /\ KindOf \in [Calls -> Kinds]
    /\ Stored \subseteq Ids
    /\ Pinned \subseteq Stored
    /\ Embedding \in BOOLEAN
    /\ MaxFacts \in Nat
    /\ MaxBatch \in Nat
    /\ MaxEvents \in Nat
    /\ Faults \subseteq FaultKinds

VARIABLES
    mem,     \* table memories
    author,  \* the call that inserted each memory (for the properties only)
    call     \* the state of each call

vars == <<mem, author, call>>

-----------------------------------------------------------------------------
(* Rows, calls and their types                                             *)
(*                                                                         *)
(* Some definitions below are preceded by a variant of themselves with one *)
(* slip in it.  No action uses them: they show that the properties notice. *)

Types == {"pinned", "insight", "other"}

Memory == [state : {"none", "active", "archived", "deleted"},
           content : Facts \cup {Nothing}, tagged : BOOLEAN,
           type : Types,
           embedding : Facts \cup {Nothing}, version : Nat,
           supersededBy : Ids \cup {NoId}]

NewMemory(type, f, g, e) ==
    [state |-> "active", content |-> f, tagged |-> g, type |-> type,
     embedding |-> e, version |-> 1, supersededBy |-> NoId]

Unborn == [NewMemory("insight", Nothing, FALSE, Nothing)
             EXCEPT !.state = "none", !.version = 0]

FactLists == UNION {[1..n -> Facts] : n \in 0..MaxFacts}

(***************************************************************************)
(* next walks through facts, then through ids.  found says that a search   *)
(* succeeded, seen gives the type of the existing memories it found.  id   *)
(* and copy are the row a call has read and means to write.                *)
(***************************************************************************)
Call == [pc : {"new", "gather", "addall", "decide", "patch", "patchwrite",
               "fetch", "write", "done"},
         out : {"none", "complete", "partial", "failed", "unfetched",
                "notfound", "gone"},
         facts : FactLists, next : Nat, found : BOOLEAN,
         seen : [Ids -> {"unseen", "pinned", "insight"}],
         events : 0..MaxEvents, ids : Seq(Ids), warned : BOOLEAN,
         tagged : BOOLEAN, id : Ids \cup {NoId}, copy : Memory]

Fresh == [pc |-> "new", out |-> "none", facts |-> <<>>, next |-> 1,
          found |-> FALSE, seen |-> [i \in Ids |-> "unseen"], events |-> 0,
          ids |-> <<>>, warned |-> FALSE, tagged |-> FALSE, id |-> NoId,
          copy |-> Unborn]

TypeOK ==
    /\ mem \in [Ids -> Memory]
    /\ author \in [Ids -> Calls \cup {NoCall}]
    /\ call \in [Calls -> Call]

Init ==
    /\ \E f \in [Stored -> Facts] :
         mem = [i \in Ids |->
                  IF i \in Stored
                  THEN NewMemory(IF i \in Pinned THEN "pinned" ELSE "insight",
                                 f[i], FALSE, Nothing)
                  ELSE Unborn]
    /\ author = [i \in Ids |-> NoCall]
    /\ call = [c \in Calls |-> Fresh]

UnusedIds == {i \in Ids : mem[i].state = "none"}
Active == {i \in Ids : mem[i].state = "active"}
EmbeddingOf(f) == IF Embedding THEN f ELSE Nothing

At(c, pc) == call[c].pc = pc
Is(c, kinds) == KindOf[c] \in kinds
Becomes(c, r) == call' = [call EXCEPT ![c] = r]

\* Where a call stands once only its result matters.
Result(r) == [Fresh EXCEPT !.ids = r.ids, !.warned = r.warned]
Done(r, out) == [Result(r) EXCEPT !.pc = "done", !.out = out]
Finish(c, out) == Becomes(c, Done(call[c], out))

\* A statement may fail before it takes effect or after.
Outcomes == {"ok"} \cup {o \in {"dberr", "lost"} : o \in Faults}

-----------------------------------------------------------------------------
(* The statements of the memory repository                                 *)

InsertSome(c, new, o) ==
    IF o = "dberr" THEN UNCHANGED <<mem, author>>
    ELSE /\ mem' = [i \in Ids |-> IF i \in DOMAIN new THEN new[i] ELSE mem[i]]
         /\ author' = [i \in Ids |-> IF i \in DOMAIN new THEN c ELSE author[i]]

Insert(c, n, row, o) == InsertSome(c, [i \in {n} |-> row], o)

KeptEmbedding(i, r, o) ==
    /\ UNCHANGED author
    /\ IF o = "dberr" THEN UNCHANGED mem
       ELSE mem' = [mem EXCEPT ![i] =
                      [@ EXCEPT !.content = r.content, !.tagged = r.tagged,
                                !.version = @ + 1]]

WriteWholeRow(i, r, o) ==
    /\ UNCHANGED author
    /\ IF o = "dberr" THEN UNCHANGED mem
       ELSE mem' = [mem EXCEPT ![i] = [r EXCEPT !.version = @ + 1]]

\* The columns an update sets; the others keep what they have.
Updated(m, r) ==
    [m EXCEPT !.content = r.content, !.tagged = r.tagged,
              !.embedding = r.embedding, !.version = @ + 1]

\* The caller never asks for a version: the last writer wins.
UpdateOptimistic(i, r, o) ==
    /\ UNCHANGED author
    /\ IF o = "dberr" THEN UNCHANGED mem
       ELSE mem' = [mem EXCEPT ![i] = Updated(mem[i], r)]

SetState(i, s, o) ==
    /\ UNCHANGED author
    /\ IF mem[i].state # "active" \/ o = "dberr" THEN UNCHANGED mem
       ELSE mem' = [mem EXCEPT ![i] = [@ EXCEPT !.state = s]]

SoftDelete(i, o) ==
    /\ UNCHANGED author
    /\ IF mem[i].state = "deleted" \/ o = "dberr" THEN UNCHANGED mem
       ELSE mem' = [mem EXCEPT ![i] = [@ EXCEPT !.state = "deleted"]]

ArchivedFor(m, n) == [m EXCEPT !.state = "archived", !.supersededBy = n]

ArchiveAnyAndCreate(c, old, n, row, o) ==
    IF o = "dberr" THEN UNCHANGED <<mem, author>>
    ELSE /\ mem' = [mem EXCEPT ![old] = ArchivedFor(mem[old], n), ![n] = row]
         /\ author' = [author EXCEPT ![n] = c]

\* One transaction; without an active row it changes nothing.
ArchiveAndCreate(c, old, n, row, o) ==
    IF mem[old].state # "active" \/ o = "dberr"
    THEN UNCHANGED <<mem, author>>
    ELSE /\ mem' = [mem EXCEPT ![old] = ArchivedFor(mem[old], n), ![n] = row]
         /\ author' = [author EXCEPT ![n] = c]

\* GetByID does not copy the embedding it scans.
GetByID(i) == [mem[i] EXCEPT !.embedding = Nothing]

-----------------------------------------------------------------------------
(* Calls of one statement: create without a model, import batch, delete    *)

CreateThenPatch(c) ==
    /\ Is(c, {"raw"})
    /\ At(c, "new")
    /\ \E f \in Facts, n \in UnusedIds, o, p \in Outcomes :
         /\ Insert(c, n, NewMemory("insight", f, p # "dberr", EmbeddingOf(f)), o)
         /\ Finish(c, IF o = "ok" /\ p = "ok" THEN "complete" ELSE "failed")

RawCreate(c) ==
    /\ Is(c, {"raw"})
    /\ At(c, "new")
    /\ \E f \in Facts, g \in BOOLEAN, n \in UnusedIds, o \in Outcomes :
         /\ Insert(c, n, NewMemory("insight", f, g, EmbeddingOf(f)), o)
         /\ Finish(c, IF o = "ok" THEN "complete" ELSE "failed")

\* An import computes no embedding and may give a memory any type.
BulkCreate(c) ==
    /\ Is(c, {"import"})
    /\ At(c, "new")
    /\ \E S \in SUBSET UnusedIds, o \in Outcomes :
         /\ Cardinality(S) \in 1..MaxBatch
         /\ \E f \in [S -> Facts], type \in [S -> Types] :
              InsertSome(c, [i \in S |->
                               NewMemory(type[i], f[i], FALSE, Nothing)], o)
         /\ Finish(c, IF o = "ok" THEN "complete" ELSE "failed")

Delete(c) ==
    /\ Is(c, {"delete"})
    /\ At(c, "new")
    /\ \E i \in Ids \ UnusedIds, o \in Outcomes :
         /\ SoftDelete(i, o)
         /\ Finish(c, IF o = "ok" THEN "complete" ELSE "failed")

-----------------------------------------------------------------------------
(* Update: read the row, change some of it, write all of it                *)

ReadForUpdate(c) ==
    /\ Is(c, {"update"})
    /\ At(c, "new")
    /\ \E i \in Ids \ UnusedIds :
         IF i \notin Active THEN Finish(c, "notfound")
         ELSE \E r \in {GetByID(i)} \cup
                       {[GetByID(i) EXCEPT !.tagged = TRUE]} \cup
                       {[GetByID(i) EXCEPT !.content = f,
                                           !.embedding = EmbeddingOf(f)] :
                            f \in Facts} :
                Becomes(c, [call[c] EXCEPT !.pc = "write", !.id = i,
                                           !.copy = r])
    /\ UNCHANGED <<mem, author>>

WriteUpdate(c) ==
    /\ At(c, "write")
    /\ \E o \in Outcomes :
         /\ UpdateOptimistic(call[c].id, call[c].copy, o)
         /\ Finish(c, IF o = "ok" THEN "complete" ELSE "failed")

-----------------------------------------------------------------------------
(* The ingest pipeline: extract facts, gather existing memories            *)

ExtractFacts(c) ==
    /\ Is(c, {"create", "ingest"})
    /\ At(c, "new")
    /\ \/ "llm" \in Faults /\ Finish(c, "failed")
       \/ \E s \in FactLists, g \in BOOLEAN :
            /\ g => Is(c, {"create"})
            /\ IF s = <<>> THEN Finish(c, "complete")
               ELSE Becomes(c, [call[c] EXCEPT !.pc = "gather", !.facts = s,
                                               !.tagged = g])
    /\ UNCHANGED <<mem, author>>

\* What the pipeline does once it has searched for each fact.
Gathered(r) ==
    IF ~r.found THEN Done(r, "failed")
    ELSE IF \A i \in Ids : r.seen[i] = "unseen"
    THEN [r EXCEPT !.pc = "addall", !.next = 1]
    ELSE [r EXCEPT !.pc = "decide", !.next = 1]

\* Searches are asked for active memories of type insight and pinned.
Visible == {i \in Active : mem[i].type # "other"}

Searched(r, hits) ==
    [r EXCEPT !.found = TRUE,
              !.seen = [i \in Ids |-> IF i \in hits /\ @[i] = "unseen"
                                      THEN mem[i].type ELSE @[i]]]

SearchFact(c) ==
    /\ At(c, "gather")
    /\ LET f == call[c].facts[call[c].next]
           same == {i \in Visible : mem[i].content = f}
           hits == IF "miss" \in Faults THEN SUBSET Visible
                   ELSE {same \cup S : S \in SUBSET Visible}
       IN \E r \in {Searched(call[c], h) : h \in hits} \cup
                   {call[c] : s \in {"search"} \cap Faults} :
            Becomes(c, IF r.next = Len(r.facts) THEN Gathered(r)
                       ELSE [r EXCEPT !.next = @ + 1])
    /\ UNCHANGED <<mem, author>>

-----------------------------------------------------------------------------
(* The ingest pipeline: execute what the model decided                     *)

\* The result of reconcile: an ingest is over, a create goes on to its tags.
Reconciled(c, r) ==
    IF Is(c, {"ingest"})
    THEN Done(r, IF r.warned /\ r.ids = <<>> THEN "partial" ELSE "complete")
    ELSE IF r.ids = <<>> THEN Done(r, "complete")
    ELSE [Result(r) EXCEPT !.pc = "patch", !.tagged = r.tagged]

Counted(r, n, o) ==
    IF o = "ok" THEN [r EXCEPT !.ids = Append(@, n)]
                ELSE [r EXCEPT !.warned = TRUE]

NextEvent(r) == [r EXCEPT !.events = @ + 1]

Insight(f) == NewMemory("insight", f, FALSE, EmbeddingOf(f))

\* addAllFacts: the search found nothing, each fact becomes a memory.
AddNextFact(c) ==
    /\ At(c, "addall")
    /\ \E n \in UnusedIds, o \in Outcomes :
         /\ Insert(c, n, Insight(call[c].facts[call[c].next]), o)
         /\ LET r == Counted(call[c], n, o)
            IN Becomes(c, IF r.next = Len(r.facts) THEN Reconciled(c, r)
                          ELSE [r EXCEPT !.next = @ + 1])

\* The model failed: the facts are dropped, to avoid duplicates.
SkipReconcile(c) ==
    /\ At(c, "decide")
    /\ "llm" \in Faults
    /\ call[c].events = 0
    /\ Becomes(c, Reconciled(c, [call[c] EXCEPT !.warned = TRUE]))
    /\ UNCHANGED <<mem, author>>

EndEvents(c) ==
    /\ At(c, "decide")
    /\ Becomes(c, Reconciled(c, call[c]))
    /\ UNCHANGED <<mem, author>>

\* An ADD, and an UPDATE of a pinned memory.
AddInsight(c) ==
    /\ At(c, "decide")
    /\ call[c].events < MaxEvents
    /\ \E f \in Facts, n \in UnusedIds, o \in Outcomes :
         /\ Insert(c, n, Insight(f), o)
         /\ Becomes(c, NextEvent(Counted(call[c], n, o)))

UpdateOldInsight(c) ==
    /\ At(c, "decide")
    /\ call[c].events < MaxEvents
    /\ \E old \in Ids, f \in Facts, n \in UnusedIds, o \in Outcomes :
         /\ call[c].seen[old] = "insight"
         /\ ArchiveAndCreate(c, old, n, Insight(f), o)
         /\ Becomes(c, NextEvent(Counted(call[c], old,
                                   IF mem[old].state # "active" THEN "dberr"
                                   ELSE o)))

UpdateAny(c) ==
    /\ At(c, "decide")
    /\ call[c].events < MaxEvents
    /\ \E old \in Ids, f \in Facts, n \in UnusedIds, o \in Outcomes :
         /\ call[c].seen[old] # "unseen"
         /\ ArchiveAndCreate(c, old, n, Insight(f), o)
         /\ Becomes(c, NextEvent(Counted(call[c], n,
                                   IF mem[old].state # "active" THEN "dberr"
                                   ELSE o)))

\* An UPDATE of an insight; the row may be gone by now.
UpdateInsight(c) ==
    /\ At(c, "decide")
    /\ call[c].events < MaxEvents
    /\ \E old \in Ids, f \in Facts, n \in UnusedIds, o \in Outcomes :
         /\ call[c].seen[old] = "insight"
         /\ ArchiveAndCreate(c, old, n, Insight(f), o)
         /\ Becomes(c, NextEvent(Counted(call[c], n,
                                   IF mem[old].state # "active" THEN "dberr"
                                   ELSE o)))

\* A DELETE; it is no failure that the row is gone by now, only that the
\* statement fails.
DeleteInsight(c) ==
    /\ At(c, "decide")
    /\ call[c].events < MaxEvents
    /\ \E old \in Ids, o \in Outcomes :
         /\ call[c].seen[old] = "insight"
         /\ SetState(old, "deleted", o)
         /\ Becomes(c, NextEvent([call[c] EXCEPT
                         !.warned = @ \/ o # "ok"]))

\* A DELETE of a pinned memory only leaves a warning.
SparePinned(c) ==
    /\ At(c, "decide")
    /\ call[c].events < MaxEvents
    /\ \E old \in Ids : call[c].seen[old] = "pinned"
    /\ Becomes(c, NextEvent([call[c] EXCEPT !.warned = TRUE]))
    /\ UNCHANGED <<mem, author>>

-----------------------------------------------------------------------------
(* A create sets the tags of what was created and reads the last of it     *)

Patched(r) ==
    IF r.next = Len(r.ids) THEN [Result(r) EXCEPT !.pc = "fetch"]
    ELSE [Result(r) EXCEPT !.pc = "patch", !.tagged = r.tagged,
                           !.next = r.next + 1]

ReadForPatch(c) ==
    /\ At(c, "patch")
    /\ LET i == call[c].ids[call[c].next]
       IN \/ /\ i \in Active /\ call[c].tagged
             /\ Becomes(c, [call[c] EXCEPT !.pc = "patchwrite", !.id = i,
                              !.copy = [GetByID(i) EXCEPT !.tagged = TRUE]])
          \/ /\ i \notin Active \/ ~call[c].tagged \/ "dberr" \in Faults
             /\ Becomes(c, Patched(call[c]))
    /\ UNCHANGED <<mem, author>>

WritePatch(c) ==
    /\ At(c, "patchwrite")
    /\ \E o \in Outcomes : UpdateOptimistic(call[c].id, call[c].copy, o)
    /\ Becomes(c, Patched(call[c]))

FetchCreated(c) ==
    /\ At(c, "fetch")
    /\ LET i == call[c].ids[Len(call[c].ids)]
       IN \/ i \in Active /\ Finish(c, "complete")
          \/ (i \notin Active \/ "dberr" \in Faults) /\ Finish(c, "unfetched")
    /\ UNCHANGED <<mem, author>>

-----------------------------------------------------------------------------

\* The process dies; what was accepted and not finished is forgotten.
Crash ==
    /\ "crash" \in Faults
    /\ \E c \in Calls : call[c].pc \notin {"new", "done"}
    /\ call' = [c \in Calls |-> IF call[c].pc \in {"new", "done"} THEN call[c]
                                ELSE Done(call[c], "gone")]
    /\ UNCHANGED <<mem, author>>

Next ==
    \/ \E c \in Calls :
         \/ RawCreate(c) \/ BulkCreate(c) \/ Delete(c)
         \/ ReadForUpdate(c) \/ WriteUpdate(c)
         \/ ExtractFacts(c) \/ SearchFact(c)
         \/ AddNextFact(c) \/ SkipReconcile(c) \/ EndEvents(c)
         \/ AddInsight(c) \/ UpdateInsight(c)
         \/ DeleteInsight(c) \/ SparePinned(c)
         \/ ReadForPatch(c) \/ WritePatch(c) \/ FetchCreated(c)
    \/ Crash

Spec == Init /\ [][Next]_vars

-----------------------------------------------------------------------------
(* Properties                                                              *)

\* The table keeps the history MemoryHistory describes: a memory is replaced
\* at most once, by a memory created in the same step (ArchiveAndCreate is
\* atomic), and a memory deleted while a pipeline was thinking about it is
\* neither replaced nor brought back.
History == INSTANCE MemoryHistory WITH
    status <- [i \in Ids |-> CASE mem[i].state = "none" -> "unborn"
                               [] mem[i].state = "active" -> "live"
                               [] mem[i].state = "archived" -> "replaced"
                               [] OTHER -> "deleted"],
    heir <- [i \in Ids |-> mem[i].supersededBy]

ImplementsHistory == History!Spec

\* Whatever the model answers, and however old the search is it answers to,
\* a pinned memory changes only when a client updates or deletes it by id.
PinnedIsLeftAlone ==
    [][\A i \in Ids :
         (mem[i].state # "none" /\ mem[i].type = "pinned" /\ mem'[i] # mem[i])
           => \E c \in Calls : Is(c, {"update", "delete"}) /\ call'[c] # call[c]
      ]_vars

\* A vector search ranks a memory by its own text or not at all: updates and
\* patches that overwrite each other never leave the embedding of one text
\* with the other text.
EmbeddingFits ==
    \A i \in Ids : mem[i].embedding \in {Nothing, mem[i].content}

\* A call that answers an error before it has a result has stored nothing,
\* unless an answer of the database was lost: a client may try it again.
FailureStoresNothing ==
    \A c \in Calls : call[c].out = "failed" => \A i \in Ids : author[i] # c

\* The result of a pipeline (insight_ids, memories_changed) names only
\* memories it created, and all of them if it carries no warning.
ResultNamesCreated ==
    \A c \in Calls :
      LET named == {call[c].ids[k] : k \in DOMAIN call[c].ids}
          created == {i \in Ids : author[i] = c}
      IN Is(c, {"create", "ingest"}) =>
           /\ named \subseteq created
           /\ ~call[c].warned => created \subseteq named

\* "All facts are guaranteed new" when the search found no memory: none is
\* stored already when addAllFacts inserts it.
AddedFactsAreNew ==
    [][\A c \in Calls, i \in Ids :
         (At(c, "addall") /\ author'[i] = c /\ author[i] # c)
           => \A j \in Visible : mem[j].content # mem'[i].content
      ]_vars

=============================================================================
