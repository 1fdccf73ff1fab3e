----------------------------- MODULE UploadTasks -----------------------------
(***************************************************************************)
(* The asynchronous import pipeline: the HTTP handler that stores an       *)
(* uploaded file and queues a row of upload_tasks, the upload_tasks table, *)
(* and the upload workers of several server instances that share the table.*)
(*                                                                         *)
(* An upload is identified with the row it creates and with the content of *)
(* the file it stores, all three members of Tasks.  A file lives on the    *)
(* disk of the instance that received it (instances may share a disk).     *)
(*                                                                         *)
(* Time is abstracted to the two facts the code acts upon: a worker's      *)
(* task context has expired (work[i][t].expired) and updated_at of a row   *)
(* is more than defaultTaskTimeout in the past (rows[t].stale).  Both      *)
(* periods are the same constant of the code, and the context is created   *)
(* when the row is fetched: a row is never stale before the context of a   *)
(* worker that holds it has expired (AgeRow).                              *)
(***************************************************************************)
EXTENDS Naturals, FiniteSets

CONSTANTS
    Tasks,         \* uploads; also their rows and their file contents
    NoTask,        \* "no file at this path"
    Instances,     \* server processes sharing the control plane database
    Disks,         \* upload directories
    DiskOf,        \* the upload directory an instance uses
    Names,         \* directory/filename an upload asks for
    NameOf,        \* the name each upload asks for
    MaxChunks,     \* bound on the chunks of a file
    ChunksOf,      \* chunks (session) or batches (memory) of each content
    Invalid,       \* contents parseSessionFile rejects
    Sessions,      \* contents of type session; the others are memory files
    Concurrency,   \* tasks an instance fetches at once
    Faults         \* the faults the environment may inject

(***************************************************************************)
(* The faults.  "dberr": a statement fails and changes nothing.  "lost": a *)
(* statement takes effect and its answer is an error.  "crash" and         *)
(* "shutdown": the process dies, or is told to stop.  "timeout": a task    *)
(* context expires.  "slow": a worker outlives its expired context by as   *)
(* long as it likes before it reports.  "llm": Ingest swallows a failure   *)
(* of the model.  "fs": the file cannot be written to its end, or is too    *)
(* large, or os.Remove fails.                                              *)
(***************************************************************************)
FaultKinds == {"dberr", "lost", "crash", "shutdown", "timeout", "slow",
               "llm", "fs"}

\* A plain name, or the same name with a random suffix of its own.
Paths == Names \X (Tasks \cup {NoTask})
Plain(t) == <<NameOf[t], NoTask>>
Suffixed(t) == <<NameOf[t], t>>

ASSUME ConstantsAssumption ==
    /\ IsFiniteSet(Tasks)
    /\ NoTask \notin Tasks
    /\ DiskOf \in [Instances -> Disks]
    /\ NameOf \in [Tasks -> Names]
    /\ MaxChunks \in Nat
    /\ ChunksOf \in [Tasks -> 0..MaxChunks]
    /\ Invalid \subseteq Tasks
    /\ Sessions \subseteq Tasks
    /\ Concurrency \in Nat \ {0}
    /\ Faults \subseteq FaultKinds

VARIABLES
    upload,   \* the create request of each task: progress, host, file path
    rows,     \* table upload_tasks
    arrivals, \* rows inserted so far: the next value of created_at
    disk,     \* content of each path of each upload directory
    inst,     \* state of each server process and its worker loop
    work,     \* the goroutine processing a task on an instance
    stored    \* times each chunk of each content reached the memory store

vars == <<upload, rows, arrivals, disk, inst, work, stored>>

-----------------------------------------------------------------------------
(* Rows, workers and their types                                           *)
(*                                                                         *)
(* Some definitions below are preceded by a variant of themselves with one *)
(* slip in it.  No action uses them: they show that the properties notice. *)

Upload == [pc : {"new", "stored", "undo", "accepted", "rejected"},
           host : Instances, path : Paths]

Row == [status : {"none", "pending", "processing", "done", "failed"},
        total : 0..MaxChunks, done : 0..MaxChunks, created : Nat,
        stale : BOOLEAN]

NoRow == [status |-> "none", total |-> 0, done |-> 0, created |-> 0,
          stale |-> FALSE]

\* next is the number of chunks behind the loop index, the checkpoint of the
\* task snapshot included.
Worker == [pc : {"idle", "open", "total", "loop", "ingest", "finish",
                 "fail", "requeue", "clean"},
           next : 0..MaxChunks, total : 0..MaxChunks,
           content : Tasks \cup {NoTask}, expired : BOOLEAN]

Idle == [pc |-> "idle", next |-> 0, total |-> 0, content |-> NoTask,
         expired |-> FALSE]

TypeOK ==
    /\ upload \in [Tasks -> Upload]
    /\ rows \in [Tasks -> Row]
    /\ arrivals \in Nat
    /\ disk \in [Disks -> [Paths -> Tasks \cup {NoTask}]]
    /\ inst \in [Instances -> {"down", "starting", "running", "stopping",
                               "halted"}]
    /\ work \in [Instances -> [Tasks -> Worker]]
    /\ stored \in [Tasks -> [1..MaxChunks -> 0..2]]

Init ==
    /\ upload \in [Tasks -> [pc : {"new"}, host : Instances, path : Paths]]
    /\ \A t \in Tasks : upload[t].path = Plain(t)
    /\ rows = [t \in Tasks |-> NoRow]
    /\ arrivals = 0
    /\ disk = [d \in Disks |-> [p \in Paths |-> NoTask]]
    /\ inst = [i \in Instances |-> "down"]
    /\ work = [i \in Instances |-> [t \in Tasks |-> Idle]]
    /\ stored = [t \in Tasks |-> [k \in 1..MaxChunks |-> 0]]

DiskOfUpload(t) == DiskOf[upload[t].host]
Remove(d, p) == disk' = [disk EXCEPT ![d][p] = NoTask]
PendingRows == {t \in Tasks : rows[t].status = "pending"}
Terminal(t) == rows[t].status \in {"done", "failed"}
Busy(i, t) == work[i][t].pc # "idle"
Owners(t) == {i \in Instances : Busy(i, t)}

-----------------------------------------------------------------------------
(* createTask: store the file, then insert the row                         *)

StoreOverFile(t) ==
    /\ upload[t].pc = "new"
    /\ inst[upload[t].host] # "down"
    /\ disk' = [disk EXCEPT ![DiskOfUpload(t)][Plain(t)] = t]
    /\ upload' = [upload EXCEPT ![t] = [@ EXCEPT !.pc = "stored"]]
    /\ UNCHANGED <<rows, arrivals, inst, work, stored>>

\* O_EXCL refuses a taken name; the retry appends a random suffix.  Where no
\* file can be created the request ends here, with an error and nothing done.
StoreFile(t) ==
    /\ upload[t].pc = "new"
    /\ inst[upload[t].host] # "down"
    /\ LET d == DiskOfUpload(t)
           p == IF disk[d][Plain(t)] = NoTask THEN Plain(t) ELSE Suffixed(t)
       IN  /\ disk' = [disk EXCEPT ![d][p] = t]
           /\ upload' = [upload EXCEPT ![t] = [@ EXCEPT !.pc = "stored",
                                                       !.path = p]]
    /\ UNCHANGED <<rows, arrivals, inst, work, stored>>

Insert(t) ==
    /\ rows' = [rows EXCEPT ![t] = [NoRow EXCEPT !.status = "pending",
                                                 !.created = arrivals]]
    /\ arrivals' = arrivals + 1

SetUpload(t, pc) == upload' = [upload EXCEPT ![t] = [@ EXCEPT !.pc = pc]]

InsertRow(t) ==
    /\ upload[t].pc = "stored"
    /\ Insert(t)
    /\ SetUpload(t, "accepted")
    /\ UNCHANGED <<disk, inst, work, stored>>

\* The file that was created is not written to its end, or the insert fails or
\* its answer is lost: the request undoes the file.
InsertError(t) ==
    /\ upload[t].pc = "stored"
    /\ \/ Faults \cap {"fs", "dberr"} # {} /\ UNCHANGED <<rows, arrivals>>
       \/ "lost" \in Faults /\ Insert(t)
    /\ SetUpload(t, "undo")
    /\ UNCHANGED <<disk, inst, work, stored>>

UndoFile(t) ==
    /\ upload[t].pc = "undo"
    /\ \/ Remove(DiskOfUpload(t), upload[t].path)
       \/ "fs" \in Faults /\ UNCHANGED disk
    /\ SetUpload(t, "rejected")
    /\ UNCHANGED <<rows, arrivals, inst, work, stored>>

-----------------------------------------------------------------------------
(* Statements of UploadTaskRepo, and whether their context allows them     *)

SetStatus(t, s) ==
    rows' = [rows EXCEPT ![t] = [@ EXCEPT !.status = s, !.stale = FALSE]]
SetProgressBehind(t, n) ==
    rows' = [rows EXCEPT ![t] = [@ EXCEPT !.done = n - 1, !.stale = FALSE]]
SetProgress(t, n) ==
    rows' = [rows EXCEPT ![t] = [@ EXCEPT !.done = n, !.stale = FALSE]]
SetTotalAfresh(t, n) ==
    rows' = [rows EXCEPT ![t] = [@ EXCEPT !.total = n, !.done = 0,
                                          !.stale = FALSE]]
SetTotal(t, n) ==
    rows' = [rows EXCEPT ![t] = [@ EXCEPT !.total = n, !.stale = FALSE]]

\* The worker's context (parent) is cancelled by shutdown; the task context
\* also by its deadline.
ParentLive(i) == inst[i] = "running"
TaskLive(i, t) == ParentLive(i) /\ ~work[i][t].expired
ParentError(i) == "dberr" \in Faults \/ ~ParentLive(i)
TaskError(i, t) == "dberr" \in Faults \/ ~TaskLive(i, t)

Become(i, t, w) == work' = [work EXCEPT ![i][t] = w]
Goto(i, t, pc) == Become(i, t, [work[i][t] EXCEPT !.pc = pc])

EndAnyway(i, t, s, pc) ==
    /\ \/ ParentLive(i) /\ SetStatus(t, s)
       \/ ParentError(i) /\ UNCHANGED rows
    /\ IF pc = "idle" THEN Become(i, t, Idle) ELSE Goto(i, t, pc)

\* The status update that ends a goroutine: on success go on to pc, on an
\* error, whether or not it took effect, leave the file alone and return.
EndWith(i, t, s, pc) ==
    \/ ParentLive(i) /\ SetStatus(t, s)
         /\ IF pc = "idle" THEN Become(i, t, Idle) ELSE Goto(i, t, pc)
    \/ ParentError(i) /\ UNCHANGED rows /\ Become(i, t, Idle)
    \/ "lost" \in Faults /\ ParentLive(i) /\ SetStatus(t, s)
         /\ Become(i, t, Idle)

-----------------------------------------------------------------------------
(* UploadWorker.processTask, one goroutine per fetched task                *)

\* Resolving the tenant, getting its database or reading the file fails.
OpenFails(i, t) ==
    /\ work[i][t].pc = "open"
    /\ TaskError(i, t)
    /\ Goto(i, t, "fail")
    /\ UNCHANGED <<upload, rows, arrivals, disk, inst, stored>>

\* The tenant was resolved in time; what happens next depends on what this
\* instance's disk holds at file_path, which is read whether or not the task's
\* context has expired by then.
Open(i, t) ==
    /\ work[i][t].pc = "open"
    /\ LET c == disk[DiskOf[i]][upload[t].path]
       IN  \/ c = NoTask /\ Goto(i, t, "requeue")
           \/ c \in Invalid /\ Goto(i, t, "fail")
           \/ /\ c \in Tasks \ Invalid
              /\ Become(i, t, [work[i][t] EXCEPT !.pc = "total",
                                                 !.content = c,
                                                 !.total = ChunksOf[c]])
    /\ UNCHANGED <<upload, rows, arrivals, disk, inst, stored>>

UpdateTotalChunks(i, t) ==
    /\ work[i][t].pc = "total"
    /\ \/ TaskLive(i, t) /\ SetTotal(t, work[i][t].total)
            /\ Goto(i, t, "loop")
       \/ TaskError(i, t) /\ UNCHANGED rows /\ Goto(i, t, "fail")
       \/ "lost" \in Faults /\ TaskLive(i, t)
            /\ SetTotal(t, work[i][t].total) /\ Goto(i, t, "fail")
    /\ UNCHANGED <<upload, arrivals, disk, inst, stored>>

\* The checkpoint: done_chunks counts the chunk before the work on it.
UpdateProgress(i, t) ==
    /\ work[i][t].pc = "loop"
    /\ work[i][t].next < work[i][t].total
    /\ \/ TaskLive(i, t) /\ SetProgress(t, work[i][t].next + 1)
            /\ Goto(i, t, "ingest")
       \/ TaskError(i, t) /\ UNCHANGED rows /\ Goto(i, t, "fail")
       \/ "lost" \in Faults /\ TaskLive(i, t)
            /\ SetProgress(t, work[i][t].next + 1) /\ Goto(i, t, "fail")
    /\ UNCHANGED <<upload, arrivals, disk, inst, stored>>

AllButLastDone(i, t) ==
    /\ work[i][t].pc = "loop"
    /\ work[i][t].next + 1 >= work[i][t].total
    /\ Goto(i, t, "finish")
    /\ UNCHANGED <<upload, rows, arrivals, disk, inst, stored>>

AllChunksDone(i, t) ==
    /\ work[i][t].pc = "loop"
    /\ work[i][t].next >= work[i][t].total
    /\ Goto(i, t, "finish")
    /\ UNCHANGED <<upload, rows, arrivals, disk, inst, stored>>

Store(c, k) ==
    stored' = [stored EXCEPT ![c][k] = IF @ = 0 THEN 1 ELSE 2]
NextChunk(i, t) ==
    Become(i, t, [work[i][t] EXCEPT !.pc = "loop",
                                    !.next = work[i][t].next + 1])

\* Ingest or BulkCreate of one chunk: stored; swallowed by Ingest, which
\* reports a model failure in its result and not as an error; an error, with
\* or without effect.
IngestChunk(i, t) ==
    /\ work[i][t].pc = "ingest"
    /\ LET w == work[i][t]
           k == w.next + 1
       IN  \/ TaskLive(i, t) /\ Store(w.content, k) /\ NextChunk(i, t)
           \/ /\ t \in Sessions
              /\ "llm" \in Faults \/ ~TaskLive(i, t)
              /\ UNCHANGED stored /\ NextChunk(i, t)
           \/ TaskError(i, t) /\ UNCHANGED stored /\ Goto(i, t, "fail")
           \/ "lost" \in Faults /\ Store(w.content, k) /\ Goto(i, t, "fail")
    /\ UNCHANGED <<upload, rows, arrivals, disk, inst>>

FinishTask(i, t) ==
    /\ work[i][t].pc = "finish"
    /\ EndWith(i, t, "done", "clean")
    /\ UNCHANGED <<upload, arrivals, disk, inst, stored>>

FailWithTaskContext(i, t) ==
    /\ work[i][t].pc = "fail"
    /\ IF TaskLive(i, t) THEN EndWith(i, t, "failed", "clean")
       ELSE UNCHANGED rows /\ Become(i, t, Idle)
    /\ UNCHANGED <<upload, arrivals, disk, inst, stored>>

FailWithoutCleanup(i, t) ==
    /\ work[i][t].pc = "fail"
    /\ EndWith(i, t, "failed", "idle")
    /\ UNCHANGED <<upload, arrivals, disk, inst, stored>>

FailTask(i, t) ==
    /\ work[i][t].pc = "fail"
    /\ EndWith(i, t, "failed", "clean")
    /\ UNCHANGED <<upload, arrivals, disk, inst, stored>>

LeaveTask(i, t) ==
    /\ work[i][t].pc = "requeue"
    /\ Become(i, t, Idle)
    /\ UNCHANGED <<upload, rows, arrivals, disk, inst, stored>>

RequeueTask(i, t) ==
    /\ work[i][t].pc = "requeue"
    /\ EndWith(i, t, "pending", "idle")
    /\ UNCHANGED <<upload, arrivals, disk, inst, stored>>

CleanupFile(i, t) ==
    /\ work[i][t].pc = "clean"
    /\ \/ Remove(DiskOf[i], upload[t].path)
       \/ "fs" \in Faults /\ UNCHANGED disk
    /\ Become(i, t, Idle)
    /\ UNCHANGED <<upload, rows, arrivals, inst, stored>>

WorkerStep(i, t) ==
    \/ OpenFails(i, t) \/ Open(i, t)
    \/ UpdateTotalChunks(i, t) \/ UpdateProgress(i, t) \/ AllChunksDone(i, t)
    \/ IngestChunk(i, t)
    \/ FinishTask(i, t) \/ FailTask(i, t) \/ RequeueTask(i, t)
    \/ CleanupFile(i, t)

-----------------------------------------------------------------------------
(* UploadWorker.Run: reset stale rows once, then fetch batch after batch   *)

StartProcess(i) ==
    /\ inst[i] = "down"
    /\ inst' = [inst EXCEPT ![i] = "starting"]
    /\ UNCHANGED <<upload, rows, arrivals, disk, work, stored>>

ResetAll(t) ==
    IF rows[t].status = "processing"
    THEN [rows[t] EXCEPT !.status = "pending", !.stale = FALSE]
    ELSE rows[t]

ResetFailed(t) ==
    IF rows[t].status = "failed" \/ rows[t].stale
    THEN [rows[t] EXCEPT !.status = "pending", !.stale = FALSE]
    ELSE rows[t]

Reset(t) ==
    IF rows[t].status = "processing" /\ rows[t].stale
    THEN [rows[t] EXCEPT !.status = "pending", !.stale = FALSE]
    ELSE rows[t]

ResetProcessing(i) ==
    /\ inst[i] = "starting"
    /\ rows' = [t \in Tasks |-> Reset(t)]
    /\ inst' = [inst EXCEPT ![i] = "running"]
    /\ UNCHANGED <<upload, arrivals, disk, work, stored>>

\* Run returns the error: the process serves requests without a worker.
ResetError(i) ==
    /\ inst[i] = "starting"
    /\ \/ "dberr" \in Faults /\ UNCHANGED rows
       \/ "lost" \in Faults /\ rows' = [t \in Tasks |-> Reset(t)]
    /\ inst' = [inst EXCEPT ![i] = "halted"]
    /\ UNCHANGED <<upload, arrivals, disk, work, stored>>

\* The oldest pending rows, at most Concurrency of them.
Batch(S) ==
    /\ S # {}
    /\ Cardinality(S) <= Concurrency
    /\ \A t \in S, u \in PendingRows \ S : rows[t].created <= rows[u].created
    /\ Cardinality(S) < Concurrency => S = PendingRows

\* The goroutine of a fetched task keeps the row as it was: its done_chunks
\* are the chunks to skip.
Snapshot(t) == [Idle EXCEPT !.pc = "open", !.next = rows[t].done]

\* wg.Wait: no tick is served while a goroutine of the last batch runs.
\* A commit whose answer is lost marks rows that nobody processes.
FetchPending(i) ==
    /\ inst[i] = "running"
    /\ \A t \in Tasks : ~Busy(i, t)
    /\ \E S \in SUBSET PendingRows :
         /\ Batch(S)
         /\ rows' = [t \in Tasks |->
                       IF t \in S
                       THEN [rows[t] EXCEPT !.status = "processing",
                                            !.stale = FALSE]
                       ELSE rows[t]]
         /\ \/ work' = [work EXCEPT ![i] =
                          [t \in Tasks |->
                             IF t \in S
                             THEN Snapshot(t)
                             ELSE Idle]]
            \/ "lost" \in Faults /\ UNCHANGED work
    /\ UNCHANGED <<upload, arrivals, disk, inst, stored>>

-----------------------------------------------------------------------------
(* Shutdown, crash, and the passage of time                                *)

\* The shutdown goroutine calls workerCancel: every later statement fails.
Shutdown(i) ==
    /\ "shutdown" \in Faults
    /\ inst[i] \in {"starting", "running", "halted"}
    /\ inst' = [inst EXCEPT ![i] = "stopping"]
    /\ UNCHANGED <<upload, rows, arrivals, disk, work, stored>>

\* The process ends: after Shutdown, or at any moment.  Its goroutines and
\* its requests die with it; tables and files stay.
Stop(i) ==
    /\ inst[i] = "stopping" \/ ("crash" \in Faults /\ inst[i] # "down")
    /\ inst' = [inst EXCEPT ![i] = "down"]
    /\ work' = [work EXCEPT ![i] = [t \in Tasks |-> Idle]]
    /\ upload' = [t \in Tasks |->
                    IF upload[t].host = i /\ upload[t].pc \in {"stored", "undo"}
                    THEN [upload[t] EXCEPT !.pc = "rejected"]
                    ELSE upload[t]]
    /\ UNCHANGED <<rows, arrivals, disk, stored>>

Expire(i, t) ==
    /\ "timeout" \in Faults
    /\ Busy(i, t)
    /\ ~work[i][t].expired
    /\ Become(i, t, [work[i][t] EXCEPT !.expired = TRUE])
    /\ UNCHANGED <<upload, rows, arrivals, disk, inst, stored>>

\* defaultTaskTimeout passes without a write to the row.  The contexts of
\* the workers that hold it expired first; unless a worker may be slow, they
\* have reported by then.
AgeRow(t) ==
    /\ rows[t].status = "processing"
    /\ ~rows[t].stale
    /\ \A i \in Owners(t) : "slow" \in Faults /\ work[i][t].expired
    /\ rows' = [rows EXCEPT ![t] = [@ EXCEPT !.stale = TRUE]]
    /\ UNCHANGED <<upload, arrivals, disk, inst, work, stored>>

-----------------------------------------------------------------------------
(* listTasks: what a client that polls the imports of its tenant is told   *)

Listed == {t \in Tasks : rows[t].status # "none"}
AllListed(status) == \A t \in Listed : rows[t].status = status

ListStatusOfDone ==
    CASE Listed = {}       -> "empty"
      [] AllListed("done") -> "done"
      [] OTHER             -> "processing"

\* One failed import makes the list "partial", whatever the others do.
ListStatus ==
    CASE Listed = {}                                  -> "empty"
      [] \E t \in Listed : rows[t].status = "failed" -> "partial"
      [] AllListed("done")                            -> "done"
      [] OTHER                                        -> "processing"

-----------------------------------------------------------------------------

Next ==
    \/ \E t \in Tasks : \/ StoreFile(t) \/ InsertRow(t) \/ InsertError(t)
                        \/ UndoFile(t) \/ AgeRow(t)
    \/ \E i \in Instances : \/ StartProcess(i) \/ ResetProcessing(i)
                            \/ ResetError(i) \/ FetchPending(i)
                            \/ Shutdown(i) \/ Stop(i)
    \/ \E i \in Instances, t \in Tasks : WorkerStep(i, t) \/ Expire(i, t)

Spec == Init /\ [][Next]_vars

-----------------------------------------------------------------------------
(* Properties                                                              *)

\* The assumption under which a task has one worker at a time: a worker whose
\* context has expired reports before the row counts as abandoned.
Prompt == "slow" \notin Faults

\* A row is processed by one goroutine at a time over all instances, and the
\* row says so until the goroutine has written its terminal status: the
\* FOR UPDATE fetch, the one reset at start-up and the crash of a process
\* never leave a row claimed twice.
SingleOwner ==
    \A t \in Tasks, i \in Instances :
        Busy(i, t) =>
            /\ \A j \in Owners(t) : i = j
            /\ IF work[i][t].pc = "clean" THEN Terminal(t)
               ELSE rows[t].status = "processing"

\* "checkpoint-before-work pattern to prevent duplicates on crash": whatever
\* crashes, expires, is requeued or reset, no chunk of a file is stored twice.
AtMostOnce == \A c \in Tasks, k \in 1..MaxChunks : stored[c][k] <= 1

\* What was stored of a file is covered by the done_chunks its row reports:
\* the next worker of the task will skip it.
StoredIsCheckpointed ==
    \A t \in Tasks, k \in 1..MaxChunks :
        stored[t][k] > 0 => k <= rows[t].done

\* A worker ingests the file that was uploaded for the row it processes.
OwnContent ==
    \A i \in Instances, t \in Tasks : work[i][t].content \in {t, NoTask}

\* A file is deleted only after its task reached a terminal status: an
\* accepted upload that still has to be processed has its file where the
\* handler put it.
FileKept ==
    \A t \in Tasks :
        upload[t].pc = "accepted" /\ ~Terminal(t) =>
            disk[DiskOfUpload(t)][upload[t].path] = t

\* A task reported done has attempted every chunk of its file, and progress
\* shown to the client is complete.
DoneIsComplete ==
    \A t \in Tasks :
        rows[t].status = "done" =>
            rows[t].done = ChunksOf[t] /\ rows[t].total = ChunksOf[t]

\* A finished goroutine leaves no file behind: a task in a terminal status
\* whose worker ran to its end has had its file removed.
NoFileLeaked ==
    \A t \in Tasks :
        Terminal(t) /\ Owners(t) = {} => \A d \in Disks : t \notin
            {disk[d][p] : p \in Paths}

\* done and failed are final: no late worker, requeue or reset revives a task.
TerminalIsFinal ==
    [][\A t \in Tasks : Terminal(t) => rows'[t].status = rows[t].status]_vars

\* done_chunks, the checkpoint a replay starts from, never moves back, though
\* UpdateProgress writes an absolute number whatever the row holds.
ProgressNeverBack ==
    [][\A t \in Tasks : rows[t].done <= rows'[t].done]_vars

\* With one prompt owner per row, the pipeline implements ImportQueue: every
\* step of a handler, a worker or a starting instance is one of its moves.
Queue == INSTANCE ImportQueue WITH
    status <- [t \in Tasks |-> rows[t].status],
    taken <- [t \in Tasks |-> rows[t].done],
    stored <- stored

ImplementsQueue == Queue!Spec

\* "it only touches abandoned tasks, not tasks being actively processed by
\* other instances" (the comment of ResetProcessing).
ResetOnlyAbandoned ==
    [][\A i \in Instances, t \in Tasks :
          ResetProcessing(i) /\ rows'[t].status # rows[t].status
              => Owners(t) = {}]_vars

\* "Already processed before crash" (the comment on the skipped chunks): what
\* a worker skips because of the checkpoint is in the store.
SkippedWasProcessed ==
    \A i \in Instances, t \in Tasks :
        work[i][t].pc = "loop" =>
            \A k \in 1..work[i][t].next : stored[t][k] > 0

(***************************************************************************)
(* Liveness.  Goroutines are scheduled, the ticker keeps ticking and a     *)
(* process that is down is started; nothing is fair about faults.          *)
(***************************************************************************)
Fairness ==
    /\ \A t \in Tasks : WF_vars(InsertRow(t) \/ InsertError(t))
                         /\ WF_vars(UndoFile(t))
    /\ \A i \in Instances : /\ WF_vars(StartProcess(i))
                            /\ WF_vars(ResetProcessing(i) \/ ResetError(i))
                            /\ WF_vars(FetchPending(i))
    /\ \A i \in Instances, t \in Tasks : WF_vars(WorkerStep(i, t))

FairSpec == Spec /\ Fairness

\* Several instances with disks of their own requeue each other's tasks.  A
\* requeue takes milliseconds and a ticker seconds: again and again no
\* goroutine runs, and then no ticker is always the first one to tick.
Calm == \A i \in Instances, t \in Tasks : ~Busy(i, t)
FetchesFirst(i, t) == Calm /\ FetchPending(i) /\ work'[i][t].pc = "open"
FairTickers ==
    /\ FairSpec
    /\ []<>Calm
    /\ \A i \in Instances, t \in Tasks : SF_vars(FetchesFirst(i, t))

\* Every accepted upload ends done or failed.
Completes ==
    \A t \in Tasks : upload[t].pc = "accepted" ~> Terminal(t)

\* A client that polls the list is told an end of it: once something is
\* imported, the list does not say "processing" for ever, failures included.
ListSettles == ListStatus = "processing" ~> ListStatus \in {"done", "partial"}

\* "file retained for retry": a task left in processing by a failed status
\* update is taken up again.
RetainedIsRetried ==
    \A t \in Tasks :
        (rows[t].status = "processing" /\ Owners(t) = {})
            ~> (rows[t].status # "processing" \/ Owners(t) # {})

\* A queued task is eventually fetched by the worker loop.
PendingIsFetched ==
    \A t \in Tasks :
        (upload[t].pc = "accepted" /\ rows[t].status = "pending")
            ~> rows[t].status # "pending"

=============================================================================
