------------------------------ MODULE ImportText ------------------------------
(***************************************************************************)
(* What becomes of the lines of one uploaded file: which of them are       *)
(* messages or memories, how they are cut into chunks, how the worker goes *)
(* through the chunks and resumes after a crash, and how the context that  *)
(* a plugin injected into a message is stripped before it is stored.       *)
(* UploadTasks has the table, the instances and the faults around this.    *)
(*                                                                         *)
(* A text is a sequence of the marks Open and Close, the tags of injected  *)
(* context, and of Word.  While a text is stripped it is a sequence of     *)
(* positions of the original, so that what is left of it can be told.      *)
(*                                                                         *)
(* Some definitions are preceded by a variant of themselves with one slip  *)
(* in it.  No action uses them: they show that the properties notice.      *)
(***************************************************************************)
EXTENDS Naturals, Sequences, FiniteSets

CONSTANTS
    Files,      \* the files that may be uploaded
    Texts,      \* the texts of their lines
    Open, Close, Word,
    ChunkSize,  \* uploadChunkSize
    BatchSize,  \* uploadMemoryBatchSize
    MaxLines,   \* bound on the lines of a file
    MaxLength,  \* bound on a text that grows
    MaxCrashes  \* bound on the crashes of one import

\* A message in the simple format, one in OpenClaw's, one of OpenClaw's of a
\* role that is not kept, and any other line.
Line == [kind : {"chat", "claw", "tool", "other"}, text : Texts]

\* A memory document has a memory, or it is taken for plain text; and plain
\* text is one memory, or none.
IsFile(f) ==
    /\ f.type \in {"session", "memory"}
    /\ f.form \in {"document", "lines"}
    /\ f.lines \in Seq(Line)
    /\ Len(f.lines) <= MaxLines
    /\ f.type = "memory" /\ f.form = "document" => f.lines # <<>>
    /\ f.type = "memory" /\ f.form = "lines" => Len(f.lines) <= 1

ASSUME ConstantsAssumption ==
    /\ \A f \in Files : IsFile(f)
    /\ \A t \in Texts : t \in Seq({Open, Close, Word})
    /\ Open # Close /\ Close # Word /\ Open # Word
    /\ ChunkSize \in Nat \ {0}
    /\ BatchSize \in Nat \ {0}
    /\ MaxLines \in Nat /\ MaxLength \in Nat /\ MaxCrashes \in Nat

VARIABLES
    file,     \* the file
    pc,       \* where the worker is
    total,    \* total_chunks
    done,     \* done_chunks
    batch,    \* chunks behind the loop: its index
    offset,   \* items behind the loop
    item,     \* the line of the chunk that is being stripped
    text,     \* what is left of its text
    kept,     \* the text of each item as it is stored
    given,    \* how often each item was handed over to be stored
    cut,      \* items of chunks a crash cut short
    crashes

vars == <<file, pc, total, done, batch, offset, item, text, kept, given, cut,
          crashes>>

-----------------------------------------------------------------------------
(* Parsing                                                                 *)

\* A line is a message in the simple format, or in OpenClaw's, which is kept
\* for users and assistants only ("tool" is any other role); a message without
\* text is none.
IsMessage(line) == line.kind \in {"chat", "claw"} /\ line.text # <<>>

\* The lines that are items.  The messages or memories of a document are taken
\* as they are.  Otherwise a session is read line by line, and a memory file is
\* one memory with the whole text, its one line, unless it is blank.
Items == {i \in DOMAIN file.lines :
            \/ file.form = "document"
            \/ file.type = "memory" /\ file.lines[i].text # <<>>
            \/ IsMessage(file.lines[i])}

\* An item's place among the items.
Place(i) == Cardinality({k \in Items : k <= i})

Size == IF file.type = "session" THEN ChunkSize ELSE BatchSize
Count == Cardinality(Items)

\* The parser's error: a JSONL session without a message.
Unreadable == file.type = "session" /\ file.form = "lines" /\ Count = 0

BatchesOneMore == (Count + Size) \div Size

\* len(chunks), and the rounding up for batches of memories.
Batches == (Count + Size - 1) \div Size

-----------------------------------------------------------------------------
(* Stripping                                                               *)

Marks(i) == file.lines[i].text
Whole(i) == [j \in DOMAIN Marks(i) |-> j]
MarkAt(j) == Marks(item)[text[j]]
Opens == {j \in DOMAIN text : MarkAt(j) = Open}
Closes == {j \in DOMAIN text : MarkAt(j) = Close}
First(S) == CHOOSE j \in S : \A k \in S : j <= k

StrippedWhenClosed ==
    LET start == First(Opens) IN
    IF Closes = {} THEN text
    ELSE SubSeq(text, 1, start - 1) \o SubSeq(text, First(Closes) + 1, Len(text))
StrippedToClose ==
    LET start == First(Opens) IN
    IF Closes = {} THEN SubSeq(text, 1, start - 1)
    ELSE SubSeq(text, 1, start - 1) \o SubSeq(text, First(Closes), Len(text))

\* One pass of stripMemoryTags over a text with an opening tag.  The closing
\* tag is the first of the text, wherever it is.
Stripped ==
    LET start == First(Opens) IN
    IF Closes = {} THEN SubSeq(text, 1, start - 1)
    ELSE SubSeq(text, 1, start - 1) \o SubSeq(text, First(Closes) + 1, Len(text))

-----------------------------------------------------------------------------
(* The worker                                                              *)

None == [i \in 1..MaxLines |-> 0]

TypeOK ==
    /\ file \in Files
    /\ pc \in {"parse", "loop", "strip", "store", "done", "failed"}
    /\ total \in 0..MaxLines
    /\ done \in 0..total
    /\ batch \in 0..MaxLines
    /\ offset \in Nat
    /\ item \in 0..MaxLines
    /\ text \in Seq(Nat)
    /\ kept \in [1..MaxLines -> Seq(Nat)]
    /\ given \in [1..MaxLines -> 0..2]
    /\ cut \subseteq 1..MaxLines
    /\ crashes \in 0..MaxCrashes

Init ==
    /\ file \in Files
    /\ pc = "parse"
    /\ total = 0 /\ done = 0 /\ batch = 0 /\ offset = 0
    /\ item = 0 /\ text = <<>>
    /\ kept = [i \in 1..MaxLines |-> <<>>]
    /\ given = None
    /\ cut = {}
    /\ crashes = 0

\* The file is read, and its number of chunks stored.
Parse ==
    /\ pc = "parse"
    /\ pc' = IF Unreadable THEN "failed" ELSE "loop"
    /\ total' = IF Unreadable THEN total ELSE Batches
    /\ batch' = 0
    /\ offset' = 0
    /\ UNCHANGED <<file, done, item, text, kept, given, cut, crashes>>

EndEarly == offset + Size > Count

\* The loop's condition fails.
End == offset >= Count

UptoOneMore == IF offset + Size >= Count THEN Count ELSE offset + Size + 1
UptoOneLess == IF offset + Size > Count THEN Count ELSE offset + Size - 1

\* The end of the chunk that begins at the offset.
Upto == IF offset + Size > Count THEN Count ELSE offset + Size

Chunk == {i \in Items : Place(i) \in offset + 1 .. Upto}

Finish ==
    /\ pc = "loop"
    /\ End
    /\ pc' = "done"
    /\ UNCHANGED <<file, total, done, batch, offset, item, text, kept, given,
                   cut, crashes>>

\* A chunk behind the checkpoint.
Skip ==
    /\ pc = "loop"
    /\ ~End
    /\ batch < done
    /\ batch' = batch + 1
    /\ offset' = offset + Size
    /\ UNCHANGED <<file, pc, total, done, item, text, kept, given, cut, crashes>>

\* The checkpoint comes before the work.  Messages are stripped one by one;
\* memories are stored as they are.
Checkpoint ==
    /\ pc = "loop"
    /\ ~End
    /\ batch >= done
    /\ done' = batch + 1
    /\ IF file.type = "session"
       THEN /\ pc' = "strip"
            /\ item' = First(Chunk)
            /\ text' = Whole(First(Chunk))
            /\ UNCHANGED kept
       ELSE /\ pc' = "store"
            /\ kept' = [i \in 1..MaxLines |-> IF i \in Chunk THEN Whole(i)
                                              ELSE kept[i]]
            /\ UNCHANGED <<item, text>>
    /\ UNCHANGED <<file, total, batch, offset, given, cut, crashes>>

\* A pass, as long as there is an opening tag.
Pass ==
    /\ pc = "strip"
    /\ Opens # {}
    /\ Len(text) <= MaxLength
    /\ text' = Stripped
    /\ UNCHANGED <<file, pc, total, done, batch, offset, item, kept, given, cut,
                   crashes>>

\* The messages of the chunk that are still to be stripped.
Later == {i \in Chunk : i > item}

\* The text is clean; on to the next message of the chunk.
Clean ==
    /\ pc = "strip"
    /\ Opens = {}
    /\ kept' = [kept EXCEPT ![item] = text]
    /\ IF Later # {}
       THEN /\ item' = First(Later)
            /\ text' = Whole(First(Later))
            /\ UNCHANGED pc
       ELSE /\ pc' = "store"
            /\ item' = 0
            /\ text' = <<>>
    /\ UNCHANGED <<file, total, done, batch, offset, given, cut, crashes>>

\* Ingest or BulkCreate returns.  (Ingest drops a message that is blank now.)
Store ==
    /\ pc = "store"
    /\ given' = [i \in 1..MaxLines |-> given[i] + (IF i \in Chunk THEN 1 ELSE 0)]
    /\ batch' = batch + 1
    /\ offset' = offset + Size
    /\ pc' = "loop"
    /\ UNCHANGED <<file, total, done, item, text, kept, cut, crashes>>

\* The scanner, the tables, Ingest or BulkCreate return an error, and the task
\* fails.
Fail ==
    /\ pc \in {"parse", "loop", "store"}
    /\ pc' = "failed"
    /\ UNCHANGED <<file, total, done, batch, offset, item, text, kept, given,
                   cut, crashes>>

\* A crash; the task is reset and fetched again, and its file parsed again.
Crash ==
    /\ pc \in {"parse", "loop", "strip", "store"}
    /\ crashes < MaxCrashes
    /\ crashes' = crashes + 1
    /\ cut' = cut \cup (IF pc \in {"strip", "store"} THEN Chunk ELSE {})
    /\ pc' = "parse"
    /\ item' = 0
    /\ text' = <<>>
    /\ UNCHANGED <<file, total, done, batch, offset, kept, given>>

Next ==
    \/ Parse \/ Finish \/ Skip \/ Checkpoint
    \/ Pass \/ Clean \/ Store \/ Fail \/ Crash

Spec == Init /\ [][Next]_vars

\* The worker goes on.
FairSpec == Spec /\ WF_vars(Parse \/ Finish \/ Skip \/ Checkpoint \/ Pass
                              \/ Clean \/ Store)

-----------------------------------------------------------------------------
(* Properties                                                              *)

\* A text whose closing tags each end one opening tag.
Alternates(t) ==
    \A j \in DOMAIN t : t[j] = Close =>
       \E o \in 1 .. j - 1 :
          /\ t[o] = Open
          /\ \A k \in o + 1 .. j - 1 : t[k] = Word

\* The marks within a pair of tags, or after one that is never closed.
Injected(t) == {i \in DOMAIN t : \E o \in 1 .. i :
                   t[o] = Open /\ \A k \in o .. i - 1 : t[k] # Close}

\* No item is stored twice, whatever chunks a crash interrupts.
GivenOnce == \A i \in 1..MaxLines : given[i] <= 1

\* When the import is done every item was stored, or was in a chunk that a
\* crash cut short.
NoneMissed == pc = "done" => \A i \in Items : given[i] = 1 \/ i \in cut

\* A task that is done shows all its chunks done, by the count made in advance.
ProgressComplete == pc = "done" => done = total

\* What a message is stored with is its text without the injected context, in
\* its order, if the tags alternate.
ContextRemoved ==
    \A i \in DOMAIN file.lines :
       LET t == Marks(i) IN
       given[i] > 0 /\ file.type = "session" /\ Alternates(t) =>
          /\ {kept[i][j] : j \in DOMAIN kept[i]} = DOMAIN t \ Injected(t)
          /\ \A j, k \in DOMAIN kept[i] : j < k => kept[i][j] < kept[i][k]

\* An import ends, if the tags of its texts alternate.
ImportEnds ==
    (\A i \in DOMAIN file.lines : Alternates(Marks(i)))
      => <>(pc \in {"done", "failed"})

\* Every pass of stripMemoryTags removes something.
PassRemoves == [][Pass => Len(text') < Len(text)]_vars

=============================================================================
