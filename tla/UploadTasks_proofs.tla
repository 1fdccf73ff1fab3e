------------------------- MODULE UploadTasks_proofs -------------------------
(***************************************************************************)
(* Proofs about UploadTasks, for any number of uploads, instances, disks   *)
(* and chunks and any set of faults: types, who owns a task and which      *)
(* statuses are final; then which task each file belongs to; then how far  *)
(* a task has got; at last that the pipeline implements ImportQueue.       *)
(*                                                                         *)
(* Two hypotheses recur, each with the configuration that shows what fails *)
(* without it: Prompt, workers report before their rows go stale           *)
(* (UploadStolenReset), and FilesApart, no two tasks ever name the same    *)
(* file (UploadSameName).                                                  *)
(***************************************************************************)
EXTENDS UploadTasks, TLAPS

-----------------------------------------------------------------------------
(* Helpers                                                                 *)

\* What a step of one goroutine does to the table of goroutines.
LEMMA BecomeOne ==
    ASSUME TypeOK, NEW i \in Instances, NEW t \in Tasks, NEW w \in Worker,
           Become(i, t, w)
    PROVE  /\ work' \in [Instances -> [Tasks -> Worker]]
           /\ work'[i][t] = w
           /\ \A j \in Instances, u \in Tasks :
                 j # i \/ u # t => work'[j][u] = work[j][u]
  BY DEF TypeOK, Become

\* The records a goroutine passes through.
LEMMA WorkerTypes ==
    ASSUME NEW w \in Worker
    PROVE  /\ \A pc \in {"idle", "open", "total", "loop", "ingest", "finish",
                         "fail", "requeue", "clean"} :
                 [w EXCEPT !.pc = pc] \in Worker
           /\ [w EXCEPT !.expired = TRUE] \in Worker
           /\ \A n \in 0..MaxChunks :
                 [w EXCEPT !.pc = "loop", !.next = n] \in Worker
           /\ \A c \in Tasks, n \in 0..MaxChunks :
                 [w EXCEPT !.pc = "total", !.content = c, !.total = n] \in Worker
  BY DEF Worker

LEMMA IdleType == Idle \in Worker
  <1>1. 0 \in 0..MaxChunks
    BY ConstantsAssumption DEF ConstantsAssumption
  <1> QED BY <1>1 DEF Idle, Worker

LEMMA SnapshotType ==
    ASSUME TypeOK, NEW t \in Tasks
    PROVE  Snapshot(t) \in Worker
  <1>1. rows[t].done \in 0..MaxChunks
    BY DEF TypeOK, Row
  <1>2. 0 \in 0..MaxChunks
    BY ConstantsAssumption DEF ConstantsAssumption
  <1> QED BY <1>1, <1>2 DEF Snapshot, Idle, Worker

\* What a statement of UploadTaskRepo does to the table.
LEMMA StatementTypes ==
    ASSUME TypeOK, NEW t \in Tasks
    PROVE  /\ \A s \in {"pending", "done", "failed"} :
                 SetStatus(t, s) => rows' \in [Tasks -> Row]
           /\ \A n \in 0..MaxChunks : SetProgress(t, n) => rows' \in [Tasks -> Row]
           /\ \A n \in 0..MaxChunks : SetTotal(t, n) => rows' \in [Tasks -> Row]
  <1>1. rows[t] \in Row /\ rows \in [Tasks -> Row]
    BY DEF TypeOK
  <1>2. \A s \in {"pending", "done", "failed"} :
           [rows[t] EXCEPT !.status = s, !.stale = FALSE] \in Row
    BY <1>1 DEF Row
  <1>3. \A n \in 0..MaxChunks :
           /\ [rows[t] EXCEPT !.done = n, !.stale = FALSE] \in Row
           /\ [rows[t] EXCEPT !.total = n, !.stale = FALSE] \in Row
    BY <1>1 DEF Row
  <1> QED BY <1>1, <1>2, <1>3 DEF SetStatus, SetProgress, SetTotal

\* A goroutine that moves on, and one that returns.
LEMMA GotoOne ==
    ASSUME TypeOK, NEW i \in Instances, NEW t \in Tasks,
           NEW pc \in {"idle", "open", "total", "loop", "ingest", "finish",
                       "fail", "requeue", "clean"},
           Goto(i, t, pc)
    PROVE  /\ work' \in [Instances -> [Tasks -> Worker]]
           /\ work'[i][t] = [work[i][t] EXCEPT !.pc = pc]
           /\ work'[i][t].pc = pc
           /\ work'[i][t].next = work[i][t].next
           /\ work'[i][t].total = work[i][t].total
           /\ work'[i][t].content = work[i][t].content
           /\ work'[i][t].expired = work[i][t].expired
           /\ \A j \in Instances, u \in Tasks :
                 j # i \/ u # t => work'[j][u] = work[j][u]
  <1>1. work[i][t] \in Worker
    BY DEF TypeOK
  <1>2. [work[i][t] EXCEPT !.pc = pc] \in Worker
    BY <1>1, WorkerTypes
  <1>3. /\ work' \in [Instances -> [Tasks -> Worker]]
        /\ work'[i][t] = [work[i][t] EXCEPT !.pc = pc]
        /\ \A j \in Instances, u \in Tasks :
              j # i \/ u # t => work'[j][u] = work[j][u]
    BY <1>2, BecomeOne DEF Goto
  <1> QED BY <1>1, <1>3 DEF Worker

LEMMA IdleOne ==
    ASSUME TypeOK, NEW i \in Instances, NEW t \in Tasks, Become(i, t, Idle)
    PROVE  /\ work' \in [Instances -> [Tasks -> Worker]]
           /\ work'[i][t] = Idle
           /\ work'[i][t].pc = "idle"
           /\ \A j \in Instances, u \in Tasks :
                 j # i \/ u # t => work'[j][u] = work[j][u]
  BY IdleType, BecomeOne DEF Idle

\* The end of a goroutine, whatever becomes of its status update.
LEMMA EndWithTypes ==
    ASSUME TypeOK, NEW i \in Instances, NEW t \in Tasks,
           NEW s \in {"pending", "done", "failed"}, NEW pc \in {"clean", "idle"},
           EndWith(i, t, s, pc)
    PROVE  rows' \in [Tasks -> Row] /\ work' \in [Instances -> [Tasks -> Worker]]
  <1>1. Goto(i, t, pc) \/ Become(i, t, Idle)
    BY DEF EndWith
  <1>2. SetStatus(t, s) \/ UNCHANGED rows
    BY DEF EndWith
  <1>3. rows' \in [Tasks -> Row]
    BY <1>2, StatementTypes DEF TypeOK
  <1> QED BY <1>1, <1>3, GotoOne, IdleOne

-----------------------------------------------------------------------------
(* Type correctness                                                        *)

\* A directory after one of its paths was written or removed.
LEMMA DiskType ==
    ASSUME TypeOK, NEW d \in Disks, NEW p \in Paths,
           NEW c \in Tasks \cup {NoTask}
    PROVE  [disk EXCEPT ![d][p] = c] \in [Disks -> [Paths -> Tasks \cup {NoTask}]]
  <1>1. disk[d] \in [Paths -> Tasks \cup {NoTask}]
    BY DEF TypeOK
  <1>2. [disk[d] EXCEPT ![p] = c] \in [Paths -> Tasks \cup {NoTask}]
    BY <1>1
  <1> QED BY <1>2 DEF TypeOK

LEMMA RemoveType ==
    ASSUME TypeOK, NEW d \in Disks, NEW p \in Paths, Remove(d, p)
    PROVE  disk' \in [Disks -> [Paths -> Tasks \cup {NoTask}]]
  BY DiskType DEF Remove

\* TypeOK is not inductive: that the loop index stays within the file needs to
\* know that a goroutine in its loop has read one, and that it ingests a chunk
\* of it.
LoopOf(w) ==
    /\ w.pc \in {"total", "loop", "ingest", "finish"} =>
          w.content \in Tasks /\ w.total = ChunksOf[w.content]
    /\ w.pc = "ingest" => w.next < w.total

LoopInv == \A i \in Instances, t \in Tasks : LoopOf(work[i][t])

TypeInv == TypeOK /\ LoopInv

LEMMA LoopFrame ==
    ASSUME LoopInv,
           \A i \in Instances, t \in Tasks :
              work'[i][t] = work[i][t] \/ LoopOf(work'[i][t])
    PROVE  LoopInv'
  <1>1. \A i \in Instances, t \in Tasks : LoopOf(work[i][t])
    BY DEF LoopInv
  <1>2. \A i \in Instances, t \in Tasks : LoopOf(work'[i][t])
    BY <1>1
  <1> QED BY <1>2 DEF LoopInv

LEMMA LoopUnchanged == ASSUME LoopInv, UNCHANGED work PROVE LoopInv'
  BY LoopFrame

\* Chunks of files are within the bound of stored.
LEMMA StoreType ==
    ASSUME TypeOK, NEW c \in Tasks, NEW k \in 1..MaxChunks, Store(c, k)
    PROVE  stored' \in [Tasks -> [1..MaxChunks -> 0..2]]
  <1>1. stored[c] \in [1..MaxChunks -> 0..2]
    BY DEF TypeOK
  <1>2. [stored[c] EXCEPT ![k] = IF @ = 0 THEN 1 ELSE 2] \in [1..MaxChunks -> 0..2]
    BY <1>1
  <1> QED BY <1>2 DEF Store, TypeOK

LEMMA InitType == ASSUME Init PROVE TypeInv
  <1>1. 0 \in 0..MaxChunks
    BY ConstantsAssumption DEF ConstantsAssumption
  <1>2. NoRow \in Row
    BY <1>1 DEF NoRow, Row
  <1>3. TypeOK
    BY <1>2, IdleType DEF Init, TypeOK, Upload
  <1>4. LoopInv
    BY DEF Init, LoopInv, LoopOf, Idle
  <1> QED BY <1>3, <1>4 DEF TypeInv

\* A step of a goroutine keeps the types.
LEMMA WorkerStepType ==
    ASSUME TypeInv, NEW i \in Instances, NEW t \in Tasks, WorkerStep(i, t)
    PROVE  TypeOK'
  <1> USE DEF TypeOK, TypeInv
  <1>w. work[i][t] \in Worker
    OBVIOUS
  <1>1. CASE OpenFails(i, t)
    BY <1>1, GotoOne, IdleOne DEF OpenFails
  <1>2. CASE Open(i, t)
    <2> DEFINE c == disk[DiskOf[i]][upload[t].path]
    <2>1. CASE c = NoTask /\ Goto(i, t, "requeue")
      BY <1>2, <2>1, GotoOne, IdleOne DEF Open
    <2>2. CASE c \in Invalid /\ Goto(i, t, "fail")
      BY <1>2, <2>2, GotoOne, IdleOne DEF Open
    <2>3. CASE /\ c \in Tasks \ Invalid
               /\ Become(i, t, [work[i][t] EXCEPT !.pc = "total",
                                                  !.content = c,
                                                  !.total = ChunksOf[c]])
      <3>1. ChunksOf[c] \in 0..MaxChunks
        BY <2>3, ConstantsAssumption DEF ConstantsAssumption
      <3>2. [work[i][t] EXCEPT !.pc = "total", !.content = c,
                               !.total = ChunksOf[c]] \in Worker
        BY <1>w, <2>3, <3>1, WorkerTypes
      <3> QED BY <1>2, <2>3, <3>2, BecomeOne DEF Open
    <2> QED BY <1>2, <2>1, <2>2, <2>3 DEF Open
  <1>3. CASE UpdateTotalChunks(i, t)
    <2>1. work[i][t].total \in 0..MaxChunks
      BY <1>w DEF Worker
    <2>2. rows' \in [Tasks -> Row]
      BY <1>3, <2>1, StatementTypes DEF UpdateTotalChunks
    <2> QED BY <1>3, <2>2, GotoOne, IdleOne DEF UpdateTotalChunks
  <1>4. CASE UpdateProgress(i, t)
    <2>1. work[i][t].next + 1 \in 0..MaxChunks
      BY <1>4, <1>w, ConstantsAssumption
         DEF Worker, UpdateProgress, ConstantsAssumption
    <2>2. rows' \in [Tasks -> Row]
      BY <1>4, <2>1, StatementTypes DEF UpdateProgress
    <2> QED BY <1>4, <2>2, GotoOne, IdleOne DEF UpdateProgress
  <1>5. CASE AllChunksDone(i, t)
    BY <1>5, GotoOne, IdleOne DEF AllChunksDone
  <1>6. CASE IngestChunk(i, t)
    <2> DEFINE k == work[i][t].next + 1
    <2>0. work[i][t].content \in Tasks /\ k \in 1..MaxChunks
      BY <1>6, <1>w, ConstantsAssumption
         DEF IngestChunk, LoopInv, LoopOf, Worker, ConstantsAssumption
    <2>1. stored' \in [Tasks -> [1..MaxChunks -> 0..2]]
      BY <1>6, <2>0, StoreType DEF IngestChunk
    <2>2. work' \in [Instances -> [Tasks -> Worker]]
      <3>1. CASE NextChunk(i, t)
        <4>1. k \in 0..MaxChunks
          BY <2>0
        <4>2. [work[i][t] EXCEPT !.pc = "loop", !.next = k] \in Worker
          BY <1>w, <4>1, WorkerTypes
        <4> QED BY <3>1, <4>2, BecomeOne DEF NextChunk
      <3>2. CASE Goto(i, t, "fail")
        BY <3>2, GotoOne, IdleOne
      <3> QED BY <1>6, <3>1, <3>2 DEF IngestChunk
    <2> QED BY <1>6, <2>1, <2>2 DEF IngestChunk
  <1>7. CASE FinishTask(i, t)
    BY <1>7, EndWithTypes DEF FinishTask
  <1>8. CASE FailTask(i, t)
    BY <1>8, EndWithTypes DEF FailTask
  <1>9. CASE RequeueTask(i, t)
    BY <1>9, EndWithTypes DEF RequeueTask
  <1>10. CASE CleanupFile(i, t)
    <2>1. work' \in [Instances -> [Tasks -> Worker]]
      BY <1>10, IdleType, BecomeOne DEF CleanupFile
    <2>2. disk' \in [Disks -> [Paths -> Tasks \cup {NoTask}]]
      <3>1. DiskOf[i] \in Disks
        BY ConstantsAssumption DEF ConstantsAssumption
      <3>2. upload[t].path \in Paths
        BY DEF Upload
      <3> QED BY <1>10, <3>1, <3>2, RemoveType DEF CleanupFile
    <2> QED BY <1>10, <2>1, <2>2 DEF CleanupFile
  <1> QED BY <1>1, <1>2, <1>3, <1>4, <1>5, <1>6, <1>7, <1>8, <1>9, <1>10
          DEF WorkerStep

\* A step of a goroutine keeps what it knows of its file.
LEMMA WorkerStepLoop ==
    ASSUME TypeInv, NEW i \in Instances, NEW t \in Tasks, WorkerStep(i, t)
    PROVE  LoopInv'
  <1> DEFINE w == work[i][t]
             w1 == work'[i][t]
  <1> USE DEF TypeInv
  <1> DEFINE Frame == \A j \in Instances, u \in Tasks :
                         j # i \/ u # t => work'[j][u] = work[j][u]
             Loop == LoopOf(w1)
  <1>w. w \in Worker
    BY DEF TypeOK
  <1>r. LoopOf(w)
    BY DEF LoopInv
  <1> SUFFICES Frame /\ Loop
    BY LoopFrame
  <1>g. ASSUME NEW pc \in {"loop", "finish", "fail", "ingest"}, Goto(i, t, pc),
               w.pc \in {"total", "loop"},
               pc = "ingest" => w.next < w.total
        PROVE  Frame /\ Loop
    BY <1>g, <1>r, GotoOne DEF LoopOf
  <1>e. ASSUME NEW pc \in {"clean", "idle"}, Goto(i, t, pc) \/ Become(i, t, Idle)
        PROVE  Frame /\ Loop
    <2>1. CASE Goto(i, t, pc)
      BY <2>1, GotoOne DEF LoopOf
    <2>2. CASE Become(i, t, Idle)
      BY <2>2, IdleOne DEF LoopOf
    <2> QED BY <1>e, <2>1, <2>2
  <1>1. CASE OpenFails(i, t)
    BY <1>1, GotoOne DEF OpenFails, LoopOf
  <1>2. CASE Open(i, t)
    <2>1. CASE Goto(i, t, "requeue") \/ Goto(i, t, "fail")
      BY <2>1, GotoOne DEF LoopOf
    <2>2. ASSUME NEW c \in Tasks,
                 Become(i, t, [w EXCEPT !.pc = "total", !.content = c,
                                        !.total = ChunksOf[c]])
          PROVE  Frame /\ Loop
      <3>1. ChunksOf[c] \in 0..MaxChunks
        BY ConstantsAssumption DEF ConstantsAssumption
      <3>2. [w EXCEPT !.pc = "total", !.content = c,
                      !.total = ChunksOf[c]] \in Worker
        BY <1>w, <3>1, WorkerTypes
      <3>3. Frame /\ w1 = [w EXCEPT !.pc = "total", !.content = c,
                                    !.total = ChunksOf[c]]
        BY <2>2, <3>2, BecomeOne
      <3>4. w1.pc = "total" /\ w1.content = c /\ w1.total = ChunksOf[c]
        BY <1>w, <3>3 DEF Worker
      <3> QED BY <3>3, <3>4 DEF LoopOf
    <2> QED BY <1>2, <2>1, <2>2 DEF Open
  <1>3. CASE UpdateTotalChunks(i, t)
    BY <1>3, <1>g DEF UpdateTotalChunks
  <1>4. CASE UpdateProgress(i, t)
    BY <1>4, <1>g DEF UpdateProgress
  <1>5. CASE AllChunksDone(i, t)
    BY <1>5, <1>g DEF AllChunksDone
  <1>6. CASE IngestChunk(i, t)
    <2>1. CASE NextChunk(i, t)
      <3>1. w.next + 1 \in 0..MaxChunks
        BY <1>6, <1>r, <1>w, ConstantsAssumption
           DEF IngestChunk, LoopOf, Worker, ConstantsAssumption
      <3>2. [w EXCEPT !.pc = "loop", !.next = w.next + 1] \in Worker
        BY <1>w, <3>1, WorkerTypes
      <3>3. Frame /\ w1 = [w EXCEPT !.pc = "loop", !.next = w.next + 1]
        BY <2>1, <3>2, BecomeOne DEF NextChunk
      <3>4. w1.pc = "loop" /\ w1.content = w.content /\ w1.total = w.total
        BY <1>w, <3>3 DEF Worker
      <3> QED BY <1>6, <1>r, <3>3, <3>4 DEF IngestChunk, LoopOf
    <2>2. CASE Goto(i, t, "fail")
      BY <2>2, GotoOne DEF LoopOf
    <2> QED BY <1>6, <2>1, <2>2 DEF IngestChunk
  <1>7. CASE FinishTask(i, t) \/ FailTask(i, t) \/ RequeueTask(i, t)
    BY <1>7, <1>e DEF FinishTask, FailTask, RequeueTask, EndWith
  <1>8. CASE CleanupFile(i, t)
    BY <1>8, <1>e DEF CleanupFile
  <1> QED BY <1>1, <1>2, <1>3, <1>4, <1>5, <1>6, <1>7, <1>8 DEF WorkerStep

-----------------------------------------------------------------------------
(* The other steps                                                         *)

\* createTask touches one upload, its file and its row.
LEMMA HandlerStepType ==
    ASSUME TypeInv, NEW t \in Tasks,
           StoreFile(t) \/ InsertRow(t) \/ InsertError(t) \/ UndoFile(t)
    PROVE  TypeInv'
  <1> USE DEF TypeInv, TypeOK
  <1>1. LoopInv'
    BY LoopUnchanged DEF StoreFile, InsertRow, InsertError, UndoFile
  <1>2. \A pc \in {"new", "stored", "undo", "accepted", "rejected"} :
           SetUpload(t, pc) =>
              upload' \in [Tasks -> Upload]
    <2> TAKE pc \in {"new", "stored", "undo", "accepted", "rejected"}
    <2>1. [upload[t] EXCEPT !.pc = pc] \in Upload
      BY DEF Upload
    <2> QED BY <2>1 DEF SetUpload
  <1>3. Insert(t) => rows' \in [Tasks -> Row] /\ arrivals' \in Nat
    <2>1. 0 \in 0..MaxChunks
      BY ConstantsAssumption DEF ConstantsAssumption
    <2>2. [NoRow EXCEPT !.status = "pending", !.created = arrivals] \in Row
      BY <2>1 DEF NoRow, Row
    <2> QED BY <2>2 DEF Insert
  <1>4. DiskOfUpload(t) \in Disks /\ upload[t].path \in Paths
    BY ConstantsAssumption DEF DiskOfUpload, ConstantsAssumption, Upload
  <1>5. CASE StoreFile(t)
    <2>1. Plain(t) \in Paths /\ Suffixed(t) \in Paths
      BY ConstantsAssumption DEF ConstantsAssumption, Plain, Suffixed, Paths
    <2>2. PICK p \in Paths :
             /\ disk' = [disk EXCEPT ![DiskOfUpload(t)][p] = t]
             /\ upload' = [upload EXCEPT ![t] = [@ EXCEPT !.pc = "stored",
                                                         !.path = p]]
      BY <1>5, <2>1 DEF StoreFile
    <2>3. disk' \in [Disks -> [Paths -> Tasks \cup {NoTask}]]
      BY <1>4, <2>2, DiskType
    <2>4. upload' \in [Tasks -> Upload]
      <3>1. [upload[t] EXCEPT !.pc = "stored", !.path = p] \in Upload
        BY DEF Upload
      <3> QED BY <2>2, <3>1
    <2> QED BY <1>1, <1>5, <2>3, <2>4 DEF StoreFile
  <1>6. CASE InsertRow(t)
    BY <1>1, <1>2, <1>3, <1>6 DEF InsertRow
  <1>7. CASE InsertError(t)
    BY <1>1, <1>2, <1>3, <1>7 DEF InsertError
  <1>8. CASE UndoFile(t)
    <2>1. disk' \in [Disks -> [Paths -> Tasks \cup {NoTask}]]
      BY <1>4, <1>8, RemoveType DEF UndoFile
    <2> QED BY <1>1, <1>2, <1>8, <2>1 DEF UndoFile
  <1> QED BY <1>5, <1>6, <1>7, <1>8

\* Starting, polling, stopping, and the passage of time.
LEMMA ProcessStepType ==
    ASSUME TypeInv, NEW i \in Instances,
           \/ StartProcess(i) \/ ResetProcessing(i) \/ ResetError(i)
           \/ FetchPending(i) \/ Shutdown(i) \/ Stop(i)
    PROVE  TypeInv'
  <1> USE DEF TypeInv, TypeOK
  <1>1. CASE StartProcess(i) \/ Shutdown(i)
    <2>1. UNCHANGED work
      BY <1>1 DEF StartProcess, Shutdown
    <2>2. UNCHANGED <<upload, rows, arrivals, disk, stored>>
      BY <1>1 DEF StartProcess, Shutdown
    <2>3. \E s \in {"starting", "stopping"} : inst' = [inst EXCEPT ![i] = s]
      BY <1>1 DEF StartProcess, Shutdown
    <2> QED BY <2>1, <2>2, <2>3, LoopUnchanged
  <1>2. CASE ResetProcessing(i) \/ ResetError(i)
    <2>1. \A t \in Tasks : Reset(t) \in Row
      BY DEF Reset, Row
    <2>2. rows' \in [Tasks -> Row]
      BY <1>2, <2>1 DEF ResetProcessing, ResetError
    <2>3. \E s \in {"running", "halted"} : inst' = [inst EXCEPT ![i] = s]
      BY <1>2 DEF ResetProcessing, ResetError
    <2> QED BY <1>2, <2>2, <2>3, LoopUnchanged DEF ResetProcessing, ResetError
  <1>3. CASE FetchPending(i)
    <2>1. PICK S \in SUBSET PendingRows :
             /\ rows' = [t \in Tasks |->
                           IF t \in S
                           THEN [rows[t] EXCEPT !.status = "processing",
                                                !.stale = FALSE]
                           ELSE rows[t]]
             /\ \/ work' = [work EXCEPT ![i] =
                              [t \in Tasks |-> IF t \in S THEN Snapshot(t)
                                                          ELSE Idle]]
                \/ UNCHANGED work
      BY <1>3 DEF FetchPending
    <2>2. rows' \in [Tasks -> Row]
      <3>1. \A t \in Tasks : [rows[t] EXCEPT !.status = "processing",
                                             !.stale = FALSE] \in Row
        BY DEF Row
      <3> QED BY <2>1, <3>1
    <2>3. work' \in [Instances -> [Tasks -> Worker]] /\ LoopInv'
      <3>1. CASE UNCHANGED work
        BY <3>1, LoopUnchanged
      <3>2. CASE work' = [work EXCEPT ![i] =
                            [t \in Tasks |-> IF t \in S THEN Snapshot(t)
                                                        ELSE Idle]]
        <4>1. \A t \in Tasks : Snapshot(t) \in Worker /\ Idle \in Worker
          BY SnapshotType, IdleType
        <4>2. work' \in [Instances -> [Tasks -> Worker]]
          BY <3>2, <4>1
        <4>3. \A t \in Tasks : LoopOf(work'[i][t])
          <5>1. \A t \in Tasks : LoopOf(Snapshot(t)) /\ LoopOf(Idle)
            BY DEF Snapshot, Idle, LoopOf
          <5> QED BY <3>2, <5>1
        <4>4. \A j \in Instances : j # i => work'[j] = work[j]
          BY <3>2
        <4> QED BY <4>2, <4>3, <4>4, LoopFrame
      <3> QED BY <2>1, <3>1, <3>2
    <2> QED BY <1>3, <2>2, <2>3 DEF FetchPending
  <1>4. CASE Stop(i)
    <2>1. work' \in [Instances -> [Tasks -> Worker]]
      BY <1>4, IdleType DEF Stop
    <2>2. LoopInv'
      <3>1. \A t \in Tasks : LoopOf(work'[i][t])
        <4>1. LoopOf(Idle)
          BY DEF Idle, LoopOf
        <4> QED BY <1>4, <4>1 DEF Stop
      <3>2. \A j \in Instances : j # i => work'[j] = work[j]
        BY <1>4 DEF Stop
      <3> QED BY <3>1, <3>2, LoopFrame
    <2>3. upload' \in [Tasks -> Upload]
      <3>1. \A t \in Tasks : [upload[t] EXCEPT !.pc = "rejected"] \in Upload
        BY DEF Upload
      <3> QED BY <1>4, <3>1 DEF Stop
    <2> QED BY <1>4, <2>1, <2>2, <2>3 DEF Stop
  <1> QED BY <1>1, <1>2, <1>3, <1>4

LEMMA AgeRowType ==
    ASSUME TypeInv, NEW t \in Tasks, AgeRow(t) PROVE TypeInv'
  <1> USE DEF TypeInv, TypeOK
  <1>1. [rows[t] EXCEPT !.stale = TRUE] \in Row
    BY DEF Row
  <1>2. rows' \in [Tasks -> Row]
    BY <1>1 DEF AgeRow
  <1> QED BY <1>2, LoopUnchanged DEF AgeRow

LEMMA ExpireType ==
    ASSUME TypeInv, NEW i \in Instances, NEW t \in Tasks, Expire(i, t)
    PROVE  TypeInv'
  <1> USE DEF TypeInv, TypeOK
  <1>1. work[i][t] \in Worker
    OBVIOUS
  <1>2. [work[i][t] EXCEPT !.expired = TRUE] \in Worker
    BY <1>1, WorkerTypes
  <1>3. /\ work' \in [Instances -> [Tasks -> Worker]]
        /\ work'[i][t] = [work[i][t] EXCEPT !.expired = TRUE]
        /\ \A j \in Instances, u \in Tasks :
              j # i \/ u # t => work'[j][u] = work[j][u]
    BY <1>2, BecomeOne DEF Expire
  <1>4. LoopInv'
    <2>1. LoopOf(work'[i][t])
      BY <1>1, <1>3 DEF LoopInv, LoopOf, Worker
    <2> QED BY <1>3, <2>1, LoopFrame
  <1> QED BY <1>3, <1>4 DEF Expire

\* Every step keeps the types.
LEMMA TypeStep == TypeInv /\ [Next]_vars => TypeInv'
  <1> SUFFICES ASSUME TypeInv, [Next]_vars PROVE TypeInv'
    OBVIOUS
  <1>1. CASE UNCHANGED vars
    BY <1>1 DEF vars, TypeInv, TypeOK, LoopInv
  <1>2. CASE Next
    BY <1>2, HandlerStepType, ProcessStepType, AgeRowType, ExpireType,
       WorkerStepType, WorkerStepLoop DEF Next, TypeInv
  <1> QED BY <1>1, <1>2

\* Type correctness: whatever fails, every variable keeps its type.
THEOREM TypeCorrect == Spec => []TypeOK
  <1>1. Init => TypeInv
    BY InitType
  <1>2. TypeInv => TypeOK
    BY DEF TypeInv
  <1> QED BY <1>1, <1>2, TypeStep, PTL DEF Spec

-----------------------------------------------------------------------------
(* One owner per task                                                      *)

\* SingleOwner is not inductive: a reset must find no owner, so a stale row
\* has none (this is where Prompt is needed), and an insert must find no row.
StaleIsAbandoned ==
    \A t \in Tasks :
        rows[t].stale => /\ rows[t].status = "processing"
                         /\ \A i \in Instances : ~Busy(i, t)

QueuedLater ==
    \A t \in Tasks :
        upload[t].pc \in {"new", "stored"} => rows[t].status = "none"

OwnerInv == TypeInv /\ SingleOwner /\ StaleIsAbandoned /\ QueuedLater

\* What a step of one goroutine can do to its row and to itself.
WorkerEffect(i, t) ==
    /\ Busy(i, t)
    /\ \A j \in Instances, u \in Tasks :
          j # i \/ u # t => work'[j][u] = work[j][u]
    /\ \A u \in Tasks : u # t => rows'[u] = rows[u]
    /\ \/ rows'[t] = rows[t] /\ work'[i][t].pc = "idle"
       \/ /\ work[i][t].pc # "clean"
          /\ work'[i][t].pc \notin {"idle", "clean"}
          /\ rows'[t].status = rows[t].status
          /\ rows'[t].stale => rows[t].stale
       \/ /\ work[i][t].pc # "clean"
          /\ work'[i][t].pc \in {"idle", "clean"}
          /\ rows'[t].status \in {"done", "failed"}
          /\ ~rows'[t].stale
       \/ /\ work[i][t].pc # "clean"
          /\ work'[i][t].pc = "idle"
          /\ rows'[t].status = "pending"
          /\ ~rows'[t].stale

\* What a statement of UploadTaskRepo does to one row.
LEMMA StatementEffect ==
    ASSUME TypeOK, NEW t \in Tasks
    PROVE  /\ \A s \in {"pending", "done", "failed"} : SetStatus(t, s) =>
                 /\ rows'[t].status = s /\ ~rows'[t].stale
                 /\ rows'[t].done = rows[t].done
                 /\ rows'[t].total = rows[t].total
                 /\ \A u \in Tasks : u # t => rows'[u] = rows[u]
           /\ \A n \in 0..MaxChunks : SetProgress(t, n) =>
                 /\ rows'[t].status = rows[t].status /\ ~rows'[t].stale
                 /\ rows'[t].done = n /\ rows'[t].total = rows[t].total
                 /\ \A u \in Tasks : u # t => rows'[u] = rows[u]
           /\ \A n \in 0..MaxChunks : SetTotal(t, n) =>
                 /\ rows'[t].status = rows[t].status /\ ~rows'[t].stale
                 /\ rows'[t].done = rows[t].done /\ rows'[t].total = n
                 /\ \A u \in Tasks : u # t => rows'[u] = rows[u]
  <1>1. rows \in [Tasks -> Row]
    BY DEF TypeOK
  <1>2. \A s \in {"pending", "done", "failed"} : SetStatus(t, s) =>
           /\ rows'[t].status = s /\ ~rows'[t].stale
           /\ rows'[t].done = rows[t].done
           /\ rows'[t].total = rows[t].total
           /\ \A u \in Tasks : u # t => rows'[u] = rows[u]
    BY <1>1 DEF SetStatus, Row
  <1>3. \A n \in 0..MaxChunks : SetProgress(t, n) =>
           /\ rows'[t].status = rows[t].status /\ ~rows'[t].stale
           /\ rows'[t].done = n /\ rows'[t].total = rows[t].total
           /\ \A u \in Tasks : u # t => rows'[u] = rows[u]
    BY <1>1 DEF SetProgress, Row
  <1>4. \A n \in 0..MaxChunks : SetTotal(t, n) =>
           /\ rows'[t].status = rows[t].status /\ ~rows'[t].stale
           /\ rows'[t].done = rows[t].done /\ rows'[t].total = n
           /\ \A u \in Tasks : u # t => rows'[u] = rows[u]
    BY <1>1 DEF SetTotal, Row
  <1> QED BY <1>2, <1>3, <1>4

LEMMA EndWithEffect ==
    ASSUME TypeOK, NEW i \in Instances, NEW t \in Tasks, Busy(i, t),
           work[i][t].pc # "clean",
           \/ EndWith(i, t, "done", "clean") \/ EndWith(i, t, "failed", "clean")
           \/ EndWith(i, t, "pending", "idle")
    PROVE  WorkerEffect(i, t)
  <1>1. ASSUME NEW s \in {"done", "failed"}, EndWith(i, t, s, "clean")
        PROVE  WorkerEffect(i, t)
    <2>1. CASE UNCHANGED rows /\ Become(i, t, Idle)
      BY <2>1, IdleOne DEF WorkerEffect
    <2>2. CASE SetStatus(t, s) /\ Become(i, t, Idle)
      BY <2>2, IdleOne, StatementEffect DEF WorkerEffect
    <2>3. CASE SetStatus(t, s) /\ Goto(i, t, "clean")
      BY <2>3, GotoOne, StatementEffect DEF WorkerEffect
    <2> QED BY <1>1, <2>1, <2>2, <2>3 DEF EndWith
  <1>2. ASSUME EndWith(i, t, "pending", "idle") PROVE WorkerEffect(i, t)
    <2>1. CASE UNCHANGED rows /\ Become(i, t, Idle)
      BY <2>1, IdleOne DEF WorkerEffect
    <2>2. CASE SetStatus(t, "pending") /\ Become(i, t, Idle)
      BY <2>2, IdleOne, StatementEffect DEF WorkerEffect
    <2> QED BY <1>2, <2>1, <2>2 DEF EndWith
  <1> QED BY <1>1, <1>2

LEMMA WorkerStepEffect ==
    ASSUME TypeInv, NEW i \in Instances, NEW t \in Tasks, WorkerStep(i, t)
    PROVE  WorkerEffect(i, t)
  <1> USE DEF TypeInv
  <1>w. work[i][t] \in Worker
    BY DEF TypeOK
  <1>g. ASSUME work'[i][t].pc \notin {"idle", "clean"},
               work[i][t].pc \notin {"idle", "clean"},
               \A j \in Instances, u \in Tasks :
                  j # i \/ u # t => work'[j][u] = work[j][u],
               \/ UNCHANGED rows
               \/ \E n \in 0..MaxChunks : SetProgress(t, n) \/ SetTotal(t, n)
        PROVE  WorkerEffect(i, t)
    <2>2. /\ rows'[t].status = rows[t].status
          /\ rows'[t].stale => rows[t].stale
          /\ \A u \in Tasks : u # t => rows'[u] = rows[u]
      <3>1. CASE UNCHANGED rows
        BY <3>1
      <3>2. ASSUME NEW n \in 0..MaxChunks, SetProgress(t, n) \/ SetTotal(t, n)
            PROVE  /\ rows'[t].status = rows[t].status
                   /\ rows'[t].stale => rows[t].stale
                   /\ \A u \in Tasks : u # t => rows'[u] = rows[u]
        BY <3>2, StatementEffect
      <3> QED BY <1>g, <3>1, <3>2
    <2> QED BY <1>g, <2>2 DEF WorkerEffect, Busy
  <1>1. CASE OpenFails(i, t)
    BY <1>1, <1>g, GotoOne DEF OpenFails
  <1>2. CASE Open(i, t)
    <2>1. CASE Goto(i, t, "requeue") \/ Goto(i, t, "fail")
      BY <1>2, <2>1, <1>g, GotoOne DEF Open
    <2>2. ASSUME NEW c \in Tasks,
                 Become(i, t, [work[i][t] EXCEPT !.pc = "total", !.content = c,
                                                 !.total = ChunksOf[c]])
          PROVE  WorkerEffect(i, t)
      <3>1. ChunksOf[c] \in 0..MaxChunks
        BY ConstantsAssumption DEF ConstantsAssumption
      <3>2. [work[i][t] EXCEPT !.pc = "total", !.content = c,
                               !.total = ChunksOf[c]] \in Worker
        BY <1>w, <3>1, WorkerTypes
      <3>3. /\ work'[i][t] = [work[i][t] EXCEPT !.pc = "total", !.content = c,
                                                !.total = ChunksOf[c]]
            /\ \A j \in Instances, u \in Tasks :
                  j # i \/ u # t => work'[j][u] = work[j][u]
        BY <2>2, <3>2, BecomeOne
      <3>4. work'[i][t].pc = "total"
        BY <1>w, <3>3 DEF Worker
      <3> QED BY <1>2, <3>3, <3>4 DEF WorkerEffect, Open, Busy
    <2> QED BY <1>2, <2>1, <2>2 DEF Open
  <1>3. CASE UpdateTotalChunks(i, t)
    <2>1. work[i][t].total \in 0..MaxChunks
      BY <1>w DEF Worker
    <2> QED BY <1>3, <1>g, <2>1, GotoOne DEF UpdateTotalChunks
  <1>4. CASE UpdateProgress(i, t)
    <2>1. work[i][t].next + 1 \in 0..MaxChunks
      BY <1>4, <1>w, ConstantsAssumption
         DEF Worker, UpdateProgress, ConstantsAssumption
    <2> QED BY <1>4, <1>g, <2>1, GotoOne DEF UpdateProgress
  <1>5. CASE AllChunksDone(i, t)
    BY <1>5, <1>g, GotoOne DEF AllChunksDone
  <1>6. CASE IngestChunk(i, t)
    <2>1. CASE NextChunk(i, t)
      <3>1. work[i][t].next + 1 \in 0..MaxChunks
        BY <1>6, <1>w, ConstantsAssumption
           DEF IngestChunk, LoopInv, LoopOf, Worker, ConstantsAssumption
      <3>2. [work[i][t] EXCEPT !.pc = "loop",
                               !.next = work[i][t].next + 1] \in Worker
        BY <1>w, <3>1, WorkerTypes
      <3>3. /\ work'[i][t] = [work[i][t] EXCEPT !.pc = "loop",
                                                !.next = work[i][t].next + 1]
            /\ \A j \in Instances, u \in Tasks :
                  j # i \/ u # t => work'[j][u] = work[j][u]
        BY <2>1, <3>2, BecomeOne DEF NextChunk
      <3>4. work'[i][t].pc = "loop"
        BY <1>w, <3>3 DEF Worker
      <3> QED BY <1>6, <3>3, <3>4 DEF WorkerEffect, IngestChunk, Busy
    <2>2. CASE Goto(i, t, "fail")
      BY <1>6, <1>g, <2>2, GotoOne DEF IngestChunk
    <2> QED BY <1>6, <2>1, <2>2 DEF IngestChunk
  <1>7. CASE FinishTask(i, t) \/ FailTask(i, t) \/ RequeueTask(i, t)
    BY <1>7, EndWithEffect DEF FinishTask, FailTask, RequeueTask, Busy
  <1>8. CASE CleanupFile(i, t)
    BY <1>8, IdleOne DEF CleanupFile, WorkerEffect, Busy
  <1> QED BY <1>1, <1>2, <1>3, <1>4, <1>5, <1>6, <1>7, <1>8 DEF WorkerStep

\* A step of a goroutine keeps the owner invariant.
LEMMA WorkerStepOwner ==
    ASSUME OwnerInv, NEW i \in Instances, NEW t \in Tasks, WorkerStep(i, t)
    PROVE  SingleOwner' /\ StaleIsAbandoned' /\ QueuedLater'
  <1>1. WorkerEffect(i, t)
    BY WorkerStepEffect DEF OwnerInv
  <1>2. /\ \A j \in Instances : Busy(j, t) => i = j
        /\ IF work[i][t].pc = "clean" THEN Terminal(t)
           ELSE rows[t].status = "processing"
        /\ ~rows[t].stale
    BY <1>1 DEF OwnerInv, SingleOwner, StaleIsAbandoned, WorkerEffect, Owners
  <1>3. SingleOwner'
    <2> SUFFICES ASSUME NEW u \in Tasks, NEW j \in Instances, Busy(j, u)'
                 PROVE  /\ \A k \in Owners(u)' : j = k
                        /\ IF work'[j][u].pc = "clean" THEN Terminal(u)'
                           ELSE rows'[u].status = "processing"
      BY DEF SingleOwner
    <2>1. CASE u # t
      <3>1. rows'[u] = rows[u] /\ \A k \in Instances : work'[k][u] = work[k][u]
        BY <1>1, <2>1 DEF WorkerEffect
      <3>2. /\ Busy(j, u) /\ Owners(u)' = Owners(u)
            /\ Terminal(u)' <=> Terminal(u)
        BY <3>1 DEF Busy, Owners, Terminal
      <3> QED BY <3>1, <3>2 DEF OwnerInv, SingleOwner
    <2>2. CASE u = t
      <3>1. \A k \in Instances : Busy(k, t)' => k = i
        BY <1>1, <1>2 DEF WorkerEffect, Busy
      <3>2. IF work'[i][t].pc = "clean" THEN Terminal(t)'
            ELSE work'[i][t].pc # "idle" => rows'[t].status = "processing"
        BY <1>1, <1>2 DEF WorkerEffect, Terminal
      <3> QED BY <2>2, <3>1, <3>2 DEF Owners, Busy
    <2> QED BY <2>1, <2>2
  <1>4. StaleIsAbandoned'
    <2> SUFFICES ASSUME NEW u \in Tasks, rows'[u].stale
                 PROVE  /\ rows'[u].status = "processing"
                        /\ \A j \in Instances : ~Busy(j, u)'
      BY DEF StaleIsAbandoned
    <2>1. u # t
      BY <1>1, <1>2 DEF WorkerEffect
    <2>2. rows'[u] = rows[u] /\ \A k \in Instances : work'[k][u] = work[k][u]
      BY <1>1, <2>1 DEF WorkerEffect
    <2> QED BY <2>2 DEF OwnerInv, StaleIsAbandoned, Busy
  <1>5. QueuedLater'
    <2>1. UNCHANGED upload
      BY DEF WorkerStep, OpenFails, Open, UpdateTotalChunks, UpdateProgress,
         AllChunksDone, IngestChunk, FinishTask, FailTask, RequeueTask,
         CleanupFile
    <2>2. rows[t].status # "none"
      BY <1>2 DEF Terminal
    <2>3. \A u \in Tasks : u # t => rows'[u] = rows[u]
      BY <1>1 DEF WorkerEffect
    <2> QED BY <2>1, <2>2, <2>3 DEF OwnerInv, QueuedLater
  <1> QED BY <1>3, <1>4, <1>5

\* A row none of whose goroutines moved, with its status, keeps its owner.
LEMMA OwnerFrame ==
    ASSUME OwnerInv, UNCHANGED work,
           \A t \in Tasks :
              \/ rows'[t].status = rows[t].status
              \/ \A i \in Instances : ~Busy(i, t)
    PROVE  SingleOwner'
  <1> SUFFICES ASSUME NEW t \in Tasks, NEW i \in Instances, Busy(i, t)'
               PROVE  /\ \A j \in Owners(t)' : i = j
                      /\ IF work'[i][t].pc = "clean" THEN Terminal(t)'
                         ELSE rows'[t].status = "processing"
    BY DEF SingleOwner
  <1>1. Busy(i, t) /\ Owners(t)' = Owners(t)
    BY DEF Busy, Owners
  <1>2. rows'[t].status = rows[t].status
    BY <1>1
  <1> QED BY <1>1, <1>2 DEF OwnerInv, SingleOwner, Terminal

LEMMA HandlerStepOwner ==
    ASSUME OwnerInv, NEW t \in Tasks,
           StoreFile(t) \/ InsertRow(t) \/ InsertError(t) \/ UndoFile(t)
    PROVE  SingleOwner' /\ StaleIsAbandoned' /\ QueuedLater'
  <1>1. UNCHANGED work
    BY DEF StoreFile, InsertRow, InsertError, UndoFile
  <1>2. \/ UNCHANGED rows
        \/ /\ upload[t].pc = "stored" /\ upload'[t].pc \notin {"new", "stored"}
           /\ rows'[t].status = "pending" /\ ~rows'[t].stale
           /\ \A u \in Tasks : u # t => rows'[u] = rows[u]
    <2> USE DEF OwnerInv, TypeInv, TypeOK
    <2>1. CASE Insert(t) /\ upload[t].pc = "stored"
               /\ (SetUpload(t, "accepted") \/ SetUpload(t, "undo"))
      <3>1. upload'[t].pc \notin {"new", "stored"}
        BY <2>1 DEF SetUpload, Upload
      <3>2. /\ rows'[t] = [NoRow EXCEPT !.status = "pending",
                                        !.created = arrivals]
            /\ \A u \in Tasks : u # t => rows'[u] = rows[u]
        BY <2>1 DEF Insert
      <3> QED BY <2>1, <3>1, <3>2 DEF NoRow
    <2> QED BY <2>1 DEF StoreFile, InsertRow, InsertError, UndoFile
  <1>3. UNCHANGED rows => \A u \in Tasks :
           upload'[u].pc \in {"new", "stored"} => upload[u].pc \in {"new", "stored"}
    BY DEF OwnerInv, TypeInv, TypeOK, Upload, StoreFile, InsertRow, InsertError,
       UndoFile, SetUpload
  <1>4. \A u \in Tasks : u # t => upload'[u] = upload[u]
    BY DEF OwnerInv, TypeInv, TypeOK, StoreFile, InsertRow, InsertError,
       UndoFile, SetUpload
  <1>5. \A u \in Tasks : rows[u].status = "none" =>
           \A i \in Instances : ~Busy(i, u)
    BY DEF OwnerInv, SingleOwner, Terminal
  <1>6. SingleOwner'
    BY <1>1, <1>2, <1>5, OwnerFrame DEF OwnerInv, QueuedLater
  <1>7. StaleIsAbandoned'
    BY <1>1, <1>2 DEF OwnerInv, StaleIsAbandoned, Busy
  <1>8. QueuedLater'
    BY <1>2, <1>3, <1>4 DEF OwnerInv, QueuedLater
  <1> QED BY <1>6, <1>7, <1>8

LEMMA ProcessStepOwner ==
    ASSUME Prompt, OwnerInv, NEW i \in Instances,
           \/ StartProcess(i) \/ ResetProcessing(i) \/ ResetError(i)
           \/ FetchPending(i) \/ Shutdown(i) \/ Stop(i)
    PROVE  SingleOwner' /\ StaleIsAbandoned' /\ QueuedLater'
  <1> USE DEF OwnerInv
  <1>1. CASE StartProcess(i) \/ Shutdown(i)
    <2>1. UNCHANGED <<rows, work, upload>>
      BY <1>1 DEF StartProcess, Shutdown
    <2>2. SingleOwner'
      BY <2>1, OwnerFrame
    <2> QED BY <2>1, <2>2 DEF StaleIsAbandoned, QueuedLater, Busy
  <1>2. CASE ResetProcessing(i) \/ ResetError(i)
    <2>1. UNCHANGED rows \/ \A t \in Tasks : rows'[t] = Reset(t)
      BY <1>2 DEF ResetProcessing, ResetError
    <2>2. \A t \in Tasks :
             \/ rows'[t] = rows[t]
             \/ /\ rows[t].status = "processing" /\ rows[t].stale
                /\ rows'[t].status = "pending" /\ ~rows'[t].stale
      <3> SUFFICES ASSUME NEW t \in Tasks
                   PROVE  \/ rows'[t] = rows[t]
                          \/ /\ rows[t].status = "processing" /\ rows[t].stale
                             /\ rows'[t].status = "pending" /\ ~rows'[t].stale
        OBVIOUS
      <3>1. rows[t] \in Row
        BY DEF TypeInv, TypeOK
      <3>2. rows[t].stale => rows[t].status = "processing"
        BY DEF StaleIsAbandoned
      <3> QED BY <2>1, <3>1, <3>2 DEF Reset, Row
    <2>3. UNCHANGED <<work, upload>>
      BY <1>2 DEF ResetProcessing, ResetError
    <2>4. SingleOwner'
      BY <2>2, <2>3, OwnerFrame DEF StaleIsAbandoned
    <2>5. StaleIsAbandoned'
      BY <2>2, <2>3 DEF StaleIsAbandoned, Busy
    <2>6. QueuedLater'
      BY <2>2, <2>3 DEF QueuedLater
    <2> QED BY <2>4, <2>5, <2>6
  <1>3. CASE FetchPending(i)
    <2>1. PICK S \in SUBSET PendingRows :
             /\ rows' = [t \in Tasks |->
                           IF t \in S
                           THEN [rows[t] EXCEPT !.status = "processing",
                                                !.stale = FALSE]
                           ELSE rows[t]]
             /\ \/ work' = [work EXCEPT ![i] =
                              [t \in Tasks |-> IF t \in S THEN Snapshot(t)
                                                          ELSE Idle]]
                \/ UNCHANGED work
      BY <1>3 DEF FetchPending
    <2>2. \A t \in Tasks :
             /\ t \in S => /\ rows[t].status = "pending"
                           /\ rows'[t].status = "processing"
                           /\ ~rows'[t].stale
             /\ t \notin S => rows'[t] = rows[t]
      <3>1. \A t \in Tasks : rows[t] \in Row
        BY DEF TypeInv, TypeOK
      <3> QED BY <2>1, <3>1 DEF PendingRows, Row
    <2>3. \A t \in S, j \in Instances : ~Busy(j, t)
      BY <2>2 DEF SingleOwner, Terminal, PendingRows
    <2>4. \A t \in Tasks : ~Busy(i, t)
      BY <1>3 DEF FetchPending
    <2>5. \A j \in Instances, t \in Tasks :
             \/ work'[j][t] = work[j][t]
             \/ j = i /\ t \in S /\ work'[j][t].pc = "open"
             \/ j = i /\ t \notin S /\ work'[j][t].pc = "idle"
      <3>1. \A t \in Tasks : Snapshot(t).pc = "open" /\ Idle.pc = "idle"
        BY DEF Snapshot, Idle
      <3> QED BY <2>1, <3>1 DEF TypeInv, TypeOK
    <2>6. \A j \in Instances, t \in Tasks : Busy(j, t)' =>
             \/ work'[j][t] = work[j][t] /\ Busy(j, t) /\ t \notin S
             \/ j = i /\ t \in S /\ work'[j][t].pc = "open"
      BY <2>3, <2>4, <2>5 DEF Busy
    <2>7. SingleOwner'
      <3> SUFFICES ASSUME NEW t \in Tasks, NEW j \in Instances, Busy(j, t)'
                   PROVE  /\ \A k \in Owners(t)' : j = k
                          /\ IF work'[j][t].pc = "clean" THEN Terminal(t)'
                             ELSE rows'[t].status = "processing"
        BY DEF SingleOwner
      <3>1. CASE t \in S
        BY <2>2, <2>6, <3>1 DEF Owners
      <3>2. CASE t \notin S
        <4>1. /\ Busy(j, t) /\ work'[j][t] = work[j][t]
              /\ \A k \in Owners(t)' : Busy(k, t)
          BY <2>6, <3>2 DEF Owners
        <4>2. rows'[t] = rows[t]
          BY <2>2, <3>2
        <4> QED BY <4>1, <4>2 DEF SingleOwner, Owners, Terminal
      <3> QED BY <3>1, <3>2
    <2>8. StaleIsAbandoned'
      BY <2>2, <2>6 DEF StaleIsAbandoned
    <2>9. QueuedLater'
      <3>1. UNCHANGED upload
        BY <1>3 DEF FetchPending
      <3> QED BY <2>2, <3>1 DEF QueuedLater
    <2> QED BY <2>7, <2>8, <2>9
  <1>4. CASE Stop(i)
    <2>1. UNCHANGED rows
      BY <1>4 DEF Stop
    <2>2. \A j \in Instances, t \in Tasks :
             Busy(j, t)' => Busy(j, t) /\ work'[j][t] = work[j][t]
      BY <1>4 DEF Stop, Busy, Idle, TypeInv, TypeOK
    <2>3. SingleOwner'
      BY <2>1, <2>2 DEF SingleOwner, Owners, Terminal
    <2>4. StaleIsAbandoned'
      BY <2>1, <2>2 DEF StaleIsAbandoned
    <2>5. QueuedLater'
      <3>1. \A t \in Tasks : upload'[t].pc \in {"new", "stored"} =>
                              upload[t].pc \in {"new", "stored"}
        BY <1>4 DEF Stop, TypeInv, TypeOK, Upload
      <3> QED BY <2>1, <3>1 DEF QueuedLater
    <2> QED BY <2>3, <2>4, <2>5
  <1> QED BY <1>1, <1>2, <1>3, <1>4

LEMMA AgeRowOwner ==
    ASSUME Prompt, OwnerInv, NEW t \in Tasks, AgeRow(t)
    PROVE  SingleOwner' /\ StaleIsAbandoned' /\ QueuedLater'
  <1> USE DEF OwnerInv
  <1>1. \A u \in Tasks :
           /\ rows'[u].status = rows[u].status
           /\ u # t => rows'[u] = rows[u]
    BY DEF AgeRow, TypeInv, TypeOK, Row
  <1>2. UNCHANGED <<work, upload>>
    BY DEF AgeRow
  <1>3. rows[t].status = "processing" /\ \A i \in Instances : ~Busy(i, t)
    BY DEF AgeRow, Prompt, Owners
  <1>4. SingleOwner'
    BY <1>1, <1>2, OwnerFrame
  <1>5. StaleIsAbandoned'
    BY <1>1, <1>2, <1>3 DEF StaleIsAbandoned, Busy
  <1>6. QueuedLater'
    BY <1>1, <1>2 DEF QueuedLater
  <1> QED BY <1>4, <1>5, <1>6

LEMMA ExpireOwner ==
    ASSUME OwnerInv, NEW i \in Instances, NEW t \in Tasks, Expire(i, t)
    PROVE  SingleOwner' /\ StaleIsAbandoned' /\ QueuedLater'
  <1> USE DEF OwnerInv
  <1>1. \A j \in Instances, u \in Tasks : work'[j][u].pc = work[j][u].pc
    <2>1. work[i][t] \in Worker
      BY DEF TypeInv, TypeOK
    <2>2. [work[i][t] EXCEPT !.expired = TRUE] \in Worker
      BY <2>1, WorkerTypes
    <2>3. /\ work'[i][t] = [work[i][t] EXCEPT !.expired = TRUE]
          /\ \A j \in Instances, u \in Tasks :
                j # i \/ u # t => work'[j][u] = work[j][u]
      BY <2>2, BecomeOne DEF Expire, TypeInv
    <2> QED BY <2>1, <2>3 DEF Worker
  <1>2. UNCHANGED <<rows, upload>>
    BY DEF Expire
  <1>3. SingleOwner'
    BY <1>1, <1>2 DEF SingleOwner, Busy, Owners, Terminal
  <1>4. StaleIsAbandoned'
    BY <1>1, <1>2 DEF StaleIsAbandoned, Busy
  <1>5. QueuedLater'
    BY <1>2 DEF QueuedLater
  <1> QED BY <1>3, <1>4, <1>5

\* Every step keeps the owner invariant, if workers report in time.
LEMMA OwnerStep == ASSUME Prompt PROVE OwnerInv /\ [Next]_vars => OwnerInv'
  <1> SUFFICES ASSUME OwnerInv, [Next]_vars PROVE OwnerInv'
    OBVIOUS
  <1>1. TypeInv'
    BY TypeStep DEF OwnerInv
  <1>2. CASE UNCHANGED vars
    <2>1. UNCHANGED <<work, rows, upload>>
      BY <1>2 DEF vars
    <2>2. SingleOwner'
      BY <2>1, OwnerFrame
    <2>3. StaleIsAbandoned' /\ QueuedLater'
      BY <2>1 DEF OwnerInv, StaleIsAbandoned, QueuedLater, Busy
    <2> QED BY <1>1, <2>2, <2>3 DEF OwnerInv
  <1>3. CASE Next
    BY <1>1, <1>3, HandlerStepOwner, ProcessStepOwner, AgeRowOwner, ExpireOwner,
       WorkerStepOwner DEF Next, OwnerInv
  <1> QED BY <1>2, <1>3

LEMMA InitOwner == ASSUME Init PROVE OwnerInv
  <1>1. TypeInv
    BY InitType
  <1>2. /\ \A i \in Instances, t \in Tasks : ~Busy(i, t)
        /\ \A t \in Tasks : rows[t].status = "none" /\ ~rows[t].stale
    BY DEF Init, Busy, Idle, NoRow
  <1> QED BY <1>1, <1>2 DEF OwnerInv, SingleOwner, StaleIsAbandoned, QueuedLater

\* A task is processed by one goroutine at a time, over all instances, crashes
\* and restarts, as long as workers report before their rows go stale.
THEOREM OneOwnerPerTask == ASSUME Prompt PROVE Spec => []SingleOwner
  <1>1. OwnerInv => SingleOwner
    BY DEF OwnerInv
  <1>2. Init => OwnerInv
    BY InitOwner
  <1>3. OwnerInv /\ [Next]_vars => OwnerInv'
    BY OwnerStep
  <1> QED BY <1>1, <1>2, <1>3, PTL DEF Spec

\* Only an owner, a fetch, a reset or an insert writes a status, and none of
\* them meets a terminal one.
LEMMA TerminalStep ==
    ASSUME OwnerInv, [Next]_vars, NEW t \in Tasks, Terminal(t)
    PROVE  rows'[t].status = rows[t].status
  <1> USE DEF OwnerInv
  <1>1. rows \in [Tasks -> Row]
    BY DEF TypeInv, TypeOK
  <1>2. CASE UNCHANGED vars
    BY <1>2 DEF vars
  <1>3. ASSUME NEW i \in Instances, NEW u \in Tasks, WorkerStep(i, u)
        PROVE  rows'[t].status = rows[t].status
    <2>1. WorkerEffect(i, u)
      BY <1>3, WorkerStepEffect
    <2>2. CASE u # t
      BY <2>1, <2>2 DEF WorkerEffect
    <2>3. CASE u = t
      <3>1. work[i][t].pc = "clean"
        BY <2>1, <2>3 DEF WorkerEffect, SingleOwner, Terminal
      <3> QED BY <2>1, <2>3, <3>1 DEF WorkerEffect
    <2> QED BY <2>2, <2>3
  <1>4. ASSUME NEW i \in Instances, NEW u \in Tasks, Expire(i, u)
        PROVE  rows'[t].status = rows[t].status
    BY <1>4 DEF Expire
  <1>5. ASSUME NEW u \in Tasks,
               StoreFile(u) \/ InsertRow(u) \/ InsertError(u) \/ UndoFile(u)
        PROVE  rows'[t].status = rows[t].status
    <2>1. CASE UNCHANGED rows
      BY <2>1
    <2>2. CASE Insert(u) /\ upload[u].pc = "stored"
      <3>1. u # t
        BY <2>2 DEF QueuedLater, Terminal
      <3> QED BY <1>1, <2>2, <3>1 DEF Insert
    <2> QED BY <1>5, <2>1, <2>2 DEF StoreFile, InsertRow, InsertError, UndoFile
  <1>6. ASSUME NEW u \in Tasks, AgeRow(u) PROVE rows'[t].status = rows[t].status
    BY <1>1, <1>6 DEF AgeRow, Row
  <1>7. ASSUME NEW i \in Instances,
               \/ StartProcess(i) \/ ResetProcessing(i) \/ ResetError(i)
               \/ FetchPending(i) \/ Shutdown(i) \/ Stop(i)
        PROVE  rows'[t].status = rows[t].status
    <2>1. CASE ResetProcessing(i) \/ ResetError(i)
      BY <2>1 DEF ResetProcessing, ResetError, Reset, Terminal
    <2>2. CASE FetchPending(i)
      <3>1. t \notin PendingRows
        BY DEF PendingRows, Terminal
      <3> QED BY <2>2, <3>1 DEF FetchPending
    <2>3. CASE UNCHANGED rows
      BY <2>3
    <2> QED BY <1>7, <2>1, <2>2, <2>3
            DEF StartProcess, Shutdown, Stop
  <1> QED BY <1>2, <1>3, <1>4, <1>5, <1>6, <1>7 DEF Next

\* done and failed are final, as long as workers report before their rows go
\* stale: no step of any handler, worker or instance revives a task.
THEOREM TerminalStaysFinal == ASSUME Prompt PROVE Spec => TerminalIsFinal
  <1>1. Init => OwnerInv
    BY InitOwner
  <1>2. OwnerInv /\ [Next]_vars => OwnerInv'
    BY OwnerStep
  <1>3. OwnerInv /\ [Next]_vars =>
          [\A t \in Tasks : Terminal(t) => rows'[t].status = rows[t].status]_vars
    BY TerminalStep
  <1> QED BY <1>1, <1>2, <1>3, PTL DEF Spec, TerminalIsFinal

-----------------------------------------------------------------------------
(* Steps, field by field                                                   *)

\* What this instance finds at the path of a task.
FileAt(i, t) == disk[DiskOf[i]][upload[t].path]

Carries(w, w1) ==
    /\ w1.next = w.next /\ w1.total = w.total
    /\ w1.content = w.content /\ w1.expired = w.expired

\* The outcomes of a step of a goroutine: w and r become w1 and r1.
Opening(i, t, w, w1, r, r1) ==
    /\ w.pc = "open" /\ r1 = r /\ UNCHANGED <<disk, stored>>
    /\ \/ w1.pc = "fail" /\ Carries(w, w1)
       \/ w1.pc = "requeue" /\ Carries(w, w1) /\ FileAt(i, t) = NoTask
       \/ w1.pc = "total" /\ w1.expired = w.expired /\ w1.next = w.next
            /\ w1.content \in Tasks /\ w1.content = FileAt(i, t)
            /\ w1.total = ChunksOf[w1.content]

Counting(w, w1, r, r1) ==
    /\ w.pc \in {"total", "loop"} /\ Carries(w, w1) /\ UNCHANGED <<disk, stored>>
    /\ r1.status = r.status
    /\ \/ w1.pc = "fail" /\ r1 = r
       \/ w.pc = "total" /\ w1.pc \in {"loop", "fail"}
            /\ r1.total = w.total /\ r1.done = r.done
       \/ w.pc = "loop" /\ w1.pc \in {"ingest", "fail"} /\ ~w.expired
            /\ w.next < w.total /\ r1.done = w.next + 1 /\ r1.total = r.total
       \/ w.pc = "loop" /\ w1.pc = "finish" /\ w.next >= w.total /\ r1 = r

Ingesting(w, w1, r, r1) ==
    /\ w.pc = "ingest" /\ r1 = r /\ UNCHANGED disk
    /\ w1.content = w.content /\ w1.total = w.total /\ w1.expired = w.expired
    /\ \/ w1.pc = "loop" /\ w1.next = w.next + 1
       \/ w1.pc = "fail" /\ w1.next = w.next
    /\ UNCHANGED stored \/ Store(w.content, w.next + 1)

Ending(w, w1, r, r1) ==
    /\ w.pc \in {"finish", "fail", "requeue"} /\ UNCHANGED <<disk, stored>>
    /\ w1 = Idle \/ (w1.pc = "clean" /\ Carries(w, w1))
    /\ r1.done = r.done /\ r1.total = r.total
    /\ \/ r1 = r /\ w1 = Idle
       \/ w.pc = "finish" /\ r1.status = "done"
            /\ (w1.pc = "clean" \/ "lost" \in Faults)
       \/ w.pc = "fail" /\ r1.status = "failed"
            /\ (w1.pc = "clean" \/ "lost" \in Faults)
       \/ w.pc = "requeue" /\ r1.status = "pending" /\ w1 = Idle

Cleaning(i, t, w, w1, r, r1) ==
    /\ w.pc = "clean" /\ r1 = r /\ UNCHANGED stored
    /\ w1 = Idle
    /\ \/ Remove(DiskOf[i], upload[t].path)
       \/ "fs" \in Faults /\ UNCHANGED disk

OnlyThat(i, t) ==
    /\ \A j \in Instances, u \in Tasks : j # i \/ u # t => work'[j][u] = work[j][u]
    /\ \A u \in Tasks : u # t => rows'[u] = rows[u]
    /\ UNCHANGED <<upload, arrivals, inst>>

Outcome(i, t) ==
    /\ OnlyThat(i, t)
    /\ \/ Opening(i, t, work[i][t], work'[i][t], rows[t], rows'[t])
       \/ Counting(work[i][t], work'[i][t], rows[t], rows'[t])
       \/ Ingesting(work[i][t], work'[i][t], rows[t], rows'[t])
       \/ Ending(work[i][t], work'[i][t], rows[t], rows'[t])
       \/ Cleaning(i, t, work[i][t], work'[i][t], rows[t], rows'[t])

LEMMA MovedOne ==
    ASSUME TypeOK, NEW i \in Instances, NEW t \in Tasks,
           NEW pc \in {"open", "total", "loop", "ingest", "finish",
                       "fail", "requeue", "clean"},
           Goto(i, t, pc)
    PROVE  /\ work'[i][t].pc = pc
           /\ Carries(work[i][t], work'[i][t])
           /\ \A j \in Instances, u \in Tasks :
                 j # i \/ u # t => work'[j][u] = work[j][u]
  <1>1. work[i][t] \in Worker
    BY DEF TypeOK
  <1>2. [work[i][t] EXCEPT !.pc = pc] \in Worker
    BY <1>1, WorkerTypes
  <1>3. /\ work'[i][t] = [work[i][t] EXCEPT !.pc = pc]
        /\ \A j \in Instances, u \in Tasks :
              j # i \/ u # t => work'[j][u] = work[j][u]
    BY <1>2, BecomeOne DEF Goto
  <1> QED BY <1>1, <1>3 DEF Worker, Carries

LEMMA EndedOutcome ==
    ASSUME TypeInv, NEW i \in Instances, NEW t \in Tasks,
           UNCHANGED <<upload, arrivals, disk, inst, stored>>,
           NEW s \in {"pending", "done", "failed"}, NEW pc \in {"clean", "idle"},
           \/ work[i][t].pc = "finish" /\ s = "done" /\ pc = "clean"
           \/ work[i][t].pc = "fail" /\ s = "failed" /\ pc = "clean"
           \/ work[i][t].pc = "requeue" /\ s = "pending" /\ pc = "idle",
           EndWith(i, t, s, pc)
    PROVE  Outcome(i, t)
  <1>t. TypeOK
    BY DEF TypeInv
  <1>s. UNCHANGED rows \/ SetStatus(t, s)
    BY DEF EndWith
  <1>1. /\ \A u \in Tasks : u # t => rows'[u] = rows[u]
        /\ rows'[t].done = rows[t].done /\ rows'[t].total = rows[t].total
        /\ UNCHANGED rows \/ rows'[t].status = s
    <2>1. CASE UNCHANGED rows
      BY <2>1
    <2>2. CASE SetStatus(t, s)
      BY <1>t, <2>2, StatementEffect
    <2> QED BY <1>s, <2>1, <2>2
  <1>2. CASE /\ Become(i, t, Idle)
             /\ UNCHANGED rows \/ pc = "idle" \/ "lost" \in Faults
    <2>1. /\ work'[i][t] = Idle
          /\ \A j \in Instances, u \in Tasks :
                j # i \/ u # t => work'[j][u] = work[j][u]
      BY <1>t, <1>2, IdleOne
    <2> QED BY <1>1, <1>2, <2>1 DEF Outcome, OnlyThat, Ending
  <1>3. CASE Goto(i, t, "clean") /\ pc = "clean" /\ SetStatus(t, s)
    <2>1. /\ work'[i][t].pc = "clean" /\ Carries(work[i][t], work'[i][t])
          /\ \A j \in Instances, u \in Tasks :
                j # i \/ u # t => work'[j][u] = work[j][u]
      BY <1>t, <1>3, MovedOne
    <2>2. rows'[t].status = s
      BY <1>t, <1>3, StatementEffect
    <2> QED BY <1>1, <1>3, <2>1, <2>2 DEF Outcome, OnlyThat, Ending
  <1> QED BY <1>2, <1>3 DEF EndWith

\* Every step of a goroutine has one of the outcomes.
LEMMA WorkerOutcome ==
    ASSUME TypeInv, NEW i \in Instances, NEW t \in Tasks, WorkerStep(i, t)
    PROVE  Outcome(i, t)
  <1>t. TypeOK /\ work[i][t] \in Worker /\ LoopOf(work[i][t])
    BY DEF TypeInv, TypeOK, LoopInv
  <1> DEFINE Others == \A j \in Instances, u \in Tasks :
                          j # i \/ u # t => work'[j][u] = work[j][u]
  <1>1. CASE OpenFails(i, t)
    <2>1. work'[i][t].pc = "fail" /\ Carries(work[i][t], work'[i][t]) /\ Others
      BY <1>1, <1>t, MovedOne DEF OpenFails
    <2> QED BY <1>1, <2>1 DEF OpenFails, Outcome, OnlyThat, Opening
  <1>2. CASE Open(i, t)
    <2>0. /\ work[i][t].pc = "open"
          /\ UNCHANGED <<upload, rows, arrivals, disk, inst, stored>>
      BY <1>2 DEF Open
    <2>1. CASE Goto(i, t, "fail")
      <3>1. work'[i][t].pc = "fail" /\ Carries(work[i][t], work'[i][t]) /\ Others
        BY <2>1, <1>t, MovedOne
      <3> QED BY <2>0, <3>1 DEF Outcome, OnlyThat, Opening
    <2>2. CASE Goto(i, t, "requeue") /\ FileAt(i, t) = NoTask
      <3>1. work'[i][t].pc = "requeue" /\ Carries(work[i][t], work'[i][t]) /\ Others
        BY <2>2, <1>t, MovedOne
      <3> QED BY <2>0, <2>2, <3>1 DEF Outcome, OnlyThat, Opening
    <2>3. ASSUME NEW c \in Tasks, c = FileAt(i, t),
                 Become(i, t, [work[i][t] EXCEPT !.pc = "total", !.content = c,
                                                 !.total = ChunksOf[c]])
          PROVE  Outcome(i, t)
      <3>1. ChunksOf[c] \in 0..MaxChunks
        BY ConstantsAssumption DEF ConstantsAssumption
      <3>2. [work[i][t] EXCEPT !.pc = "total", !.content = c,
                               !.total = ChunksOf[c]] \in Worker
        BY <1>t, <3>1, WorkerTypes
      <3>3. /\ work'[i][t] = [work[i][t] EXCEPT !.pc = "total", !.content = c,
                                                !.total = ChunksOf[c]]
            /\ Others
        BY <2>3, <3>2, <1>t, BecomeOne
      <3>4. /\ work'[i][t].pc = "total" /\ work'[i][t].next = work[i][t].next
            /\ work'[i][t].content = c /\ work'[i][t].total = ChunksOf[c]
            /\ work'[i][t].expired = work[i][t].expired
        BY <1>t, <3>3 DEF Worker
      <3> QED BY <2>0, <2>3, <3>3, <3>4 DEF Outcome, OnlyThat, Opening
    <2> QED BY <1>2, <2>1, <2>2, <2>3 DEF Open, FileAt
  <1>3. CASE UpdateTotalChunks(i, t)
    <2>1. work[i][t].total \in 0..MaxChunks /\ work[i][t].pc = "total"
      BY <1>3, <1>t DEF Worker, UpdateTotalChunks
    <2>2. PICK pc \in {"loop", "fail"} :
             /\ Goto(i, t, pc)
             /\ (UNCHANGED rows /\ pc = "fail") \/ SetTotal(t, work[i][t].total)
      BY <1>3 DEF UpdateTotalChunks
    <2>3. work'[i][t].pc = pc /\ Carries(work[i][t], work'[i][t]) /\ Others
      BY <2>2, <1>t, MovedOne
    <2>4. CASE UNCHANGED rows /\ pc = "fail"
      BY <1>3, <2>1, <2>3, <2>4 DEF UpdateTotalChunks, Outcome, OnlyThat, Counting
    <2>5. CASE SetTotal(t, work[i][t].total)
      <3>1. /\ rows'[t].status = rows[t].status
            /\ rows'[t].done = rows[t].done /\ rows'[t].total = work[i][t].total
            /\ \A u \in Tasks : u # t => rows'[u] = rows[u]
        BY <1>t, <2>1, <2>5, StatementEffect
      <3> QED BY <1>3, <2>1, <2>3, <3>1
              DEF UpdateTotalChunks, Outcome, OnlyThat, Counting
    <2> QED BY <2>2, <2>4, <2>5
  <1>4. CASE UpdateProgress(i, t)
    <2>1. /\ work[i][t].next + 1 \in 0..MaxChunks /\ work[i][t].pc = "loop"
          /\ work[i][t].next < work[i][t].total
      BY <1>4, <1>t, ConstantsAssumption
         DEF Worker, UpdateProgress, ConstantsAssumption
    <2>2. PICK pc \in {"ingest", "fail"} :
             /\ Goto(i, t, pc)
             /\ \/ UNCHANGED rows /\ pc = "fail"
                \/ SetProgress(t, work[i][t].next + 1) /\ ~work[i][t].expired
      BY <1>4 DEF UpdateProgress, TaskLive
    <2>3. work'[i][t].pc = pc /\ Carries(work[i][t], work'[i][t]) /\ Others
      BY <2>2, <1>t, MovedOne
    <2>4. CASE UNCHANGED rows /\ pc = "fail"
      BY <1>4, <2>1, <2>3, <2>4 DEF UpdateProgress, Outcome, OnlyThat, Counting
    <2>5. CASE SetProgress(t, work[i][t].next + 1) /\ ~work[i][t].expired
      <3>1. /\ rows'[t].status = rows[t].status
            /\ rows'[t].done = work[i][t].next + 1
            /\ rows'[t].total = rows[t].total
            /\ \A u \in Tasks : u # t => rows'[u] = rows[u]
        BY <1>t, <2>1, <2>5, StatementEffect
      <3> QED BY <1>4, <2>1, <2>3, <2>5, <3>1
              DEF UpdateProgress, Outcome, OnlyThat, Counting
    <2> QED BY <2>2, <2>4, <2>5
  <1>5. CASE AllChunksDone(i, t)
    <2>1. work'[i][t].pc = "finish" /\ Carries(work[i][t], work'[i][t]) /\ Others
      BY <1>5, <1>t, MovedOne DEF AllChunksDone
    <2> QED BY <1>5, <2>1 DEF AllChunksDone, Outcome, OnlyThat, Counting
  <1>6. CASE IngestChunk(i, t)
    <2>0. /\ work[i][t].pc = "ingest"
          /\ UNCHANGED <<upload, rows, arrivals, disk, inst>>
          /\ UNCHANGED stored \/ Store(work[i][t].content, work[i][t].next + 1)
      BY <1>6 DEF IngestChunk
    <2>1. CASE NextChunk(i, t)
      <3>1. work[i][t].next + 1 \in 0..MaxChunks
        BY <2>0, <1>t, ConstantsAssumption
           DEF LoopOf, Worker, ConstantsAssumption
      <3>2. [work[i][t] EXCEPT !.pc = "loop",
                               !.next = work[i][t].next + 1] \in Worker
        BY <1>t, <3>1, WorkerTypes
      <3>3. /\ work'[i][t] = [work[i][t] EXCEPT !.pc = "loop",
                                                !.next = work[i][t].next + 1]
            /\ Others
        BY <2>1, <3>2, <1>t, BecomeOne DEF NextChunk
      <3>4. /\ work'[i][t].pc = "loop" /\ work'[i][t].next = work[i][t].next + 1
            /\ work'[i][t].content = work[i][t].content
            /\ work'[i][t].total = work[i][t].total
            /\ work'[i][t].expired = work[i][t].expired
        BY <1>t, <3>3 DEF Worker
      <3> QED BY <2>0, <3>3, <3>4 DEF Outcome, OnlyThat, Ingesting
    <2>2. CASE Goto(i, t, "fail")
      <3>1. work'[i][t].pc = "fail" /\ Carries(work[i][t], work'[i][t]) /\ Others
        BY <2>2, <1>t, MovedOne
      <3> QED BY <2>0, <3>1 DEF Outcome, OnlyThat, Ingesting, Carries
    <2> QED BY <1>6, <2>1, <2>2 DEF IngestChunk
  <1>7. CASE FinishTask(i, t)
    BY <1>7, EndedOutcome DEF FinishTask
  <1>8. CASE FailTask(i, t)
    BY <1>8, EndedOutcome DEF FailTask
  <1>9. CASE RequeueTask(i, t)
    BY <1>9, EndedOutcome DEF RequeueTask
  <1>10. CASE CleanupFile(i, t)
    <2>1. work'[i][t] = Idle /\ Others
      BY <1>10, <1>t, IdleOne DEF CleanupFile
    <2> QED BY <1>10, <2>1 DEF CleanupFile, Outcome, OnlyThat, Cleaning
  <1> QED BY <1>1, <1>2, <1>3, <1>4, <1>5, <1>6, <1>7, <1>8, <1>9, <1>10
          DEF WorkerStep

\* What the other steps do, field by field.
LEMMA UploadEffect ==
    ASSUME TypeOK, NEW t \in Tasks,
           NEW pc \in {"new", "stored", "undo", "accepted", "rejected"},
           SetUpload(t, pc)
    PROVE  /\ upload'[t].pc = pc /\ upload'[t].path = upload[t].path
           /\ upload'[t].host = upload[t].host
           /\ \A u \in Tasks : u # t => upload'[u] = upload[u]
  BY DEF SetUpload, TypeOK, Upload

LEMMA InsertEffect ==
    ASSUME TypeOK, NEW t \in Tasks, Insert(t)
    PROVE  /\ rows'[t].status = "pending" /\ ~rows'[t].stale
           /\ rows'[t].done = 0 /\ rows'[t].total = 0
           /\ \A u \in Tasks : u # t => rows'[u] = rows[u]
  <1>1. /\ rows'[t] = [NoRow EXCEPT !.status = "pending", !.created = arrivals]
        /\ \A u \in Tasks : u # t => rows'[u] = rows[u]
    BY DEF Insert, TypeOK
  <1> QED BY <1>1 DEF NoRow

Write(d, p, c) == disk' = [disk EXCEPT ![d][p] = c]

LEMMA WriteEffect ==
    ASSUME TypeOK, NEW d \in Disks, NEW p \in Paths,
           NEW c \in Tasks \cup {NoTask}, Write(d, p, c)
    PROVE  /\ disk'[d][p] = c
           /\ \A e \in Disks, q \in Paths :
                 e # d \/ q # p => disk'[e][q] = disk[e][q]
  <1>1. disk \in [Disks -> [Paths -> Tasks \cup {NoTask}]]
    BY DEF TypeOK
  <1>2. /\ disk'[d] = [disk[d] EXCEPT ![p] = c]
        /\ \A e \in Disks : e # d => disk'[e] = disk[e]
    BY <1>1 DEF Write
  <1>3. disk[d] \in [Paths -> Tasks \cup {NoTask}]
    BY <1>1
  <1>4. disk'[d][p] = c /\ \A q \in Paths : q # p => disk'[d][q] = disk[d][q]
    BY <1>2, <1>3
  <1>5. \A e \in Disks, q \in Paths :
           e # d \/ q # p => disk'[e][q] = disk[e][q]
    BY <1>2, <1>4, Zenon
  <1> QED BY <1>4, <1>5

LEMMA RemoveEffect ==
    ASSUME TypeOK, NEW d \in Disks, NEW p \in Paths, Remove(d, p)
    PROVE  /\ disk'[d][p] = NoTask
           /\ \A e \in Disks, q \in Paths :
                 e # d \/ q # p => disk'[e][q] = disk[e][q]
  <1>1. Write(d, p, NoTask) /\ NoTask \in Tasks \cup {NoTask}
    BY DEF Remove, Write
  <1> QED BY <1>1, WriteEffect

LEMMA PlacesTyped ==
    ASSUME TypeOK
    PROVE  /\ \A i \in Instances : DiskOf[i] \in Disks
           /\ \A t \in Tasks : /\ DiskOfUpload(t) \in Disks
                               /\ upload[t].path \in Paths
                               /\ Plain(t) \in Paths /\ Suffixed(t) \in Paths
  BY ConstantsAssumption
     DEF ConstantsAssumption, TypeOK, Upload, DiskOfUpload, Plain, Suffixed, Paths

\* Where the file of an upload goes: a free plain name, or a name of its own.
LEMMA StoreFileEffect ==
    ASSUME TypeOK, NEW t \in Tasks, StoreFile(t)
    PROVE  /\ upload[t].pc = "new" /\ upload'[t].pc = "stored"
           /\ upload'[t].host = upload[t].host
           /\ \A u \in Tasks : u # t => upload'[u] = upload[u]
           /\ upload'[t].path \in Paths
           /\ \/ /\ upload'[t].path = Plain(t)
                 /\ disk[DiskOfUpload(t)][Plain(t)] = NoTask
              \/ upload'[t].path = Suffixed(t)
           /\ disk'[DiskOfUpload(t)][upload'[t].path] = t
           /\ \A e \in Disks, q \in Paths :
                 e # DiskOfUpload(t) \/ q # upload'[t].path =>
                    disk'[e][q] = disk[e][q]
           /\ UNCHANGED <<rows, arrivals, inst, work, stored>>
  <1>1. PICK p \in Paths :
           /\ \/ p = Plain(t) /\ disk[DiskOfUpload(t)][Plain(t)] = NoTask
              \/ p = Suffixed(t)
           /\ disk' = [disk EXCEPT ![DiskOfUpload(t)][p] = t]
           /\ upload' = [upload EXCEPT ![t] = [@ EXCEPT !.pc = "stored",
                                                       !.path = p]]
    BY PlacesTyped DEF StoreFile
  <1>2. /\ upload'[t].pc = "stored" /\ upload'[t].path = p
        /\ upload'[t].host = upload[t].host
        /\ \A u \in Tasks : u # t => upload'[u] = upload[u]
    BY <1>1 DEF TypeOK, Upload
  <1>3. /\ disk'[DiskOfUpload(t)][p] = t
        /\ \A e \in Disks, q \in Paths :
              e # DiskOfUpload(t) \/ q # p => disk'[e][q] = disk[e][q]
    <2>1. /\ DiskOfUpload(t) \in Disks /\ t \in Tasks \cup {NoTask}
          /\ Write(DiskOfUpload(t), p, t)
      BY <1>1, PlacesTyped DEF Write
    <2> QED BY <2>1, WriteEffect
  <1>4. upload[t].pc = "new" /\ UNCHANGED <<rows, arrivals, inst, work, stored>>
    BY DEF StoreFile
  <1> QED BY <1>1, <1>2, <1>3, <1>4

LEMMA ResetEffect ==
    ASSUME TypeOK, NEW i \in Instances, ResetProcessing(i) \/ ResetError(i),
           NEW t \in Tasks
    PROVE  \/ rows'[t] = rows[t]
           \/ /\ rows[t].status = "processing" /\ rows[t].stale
              /\ rows'[t].status = "pending" /\ ~rows'[t].stale
              /\ rows'[t].done = rows[t].done /\ rows'[t].total = rows[t].total
  <1>1. rows[t] \in Row
    BY DEF TypeOK
  <1>2. UNCHANGED rows \/ rows'[t] = Reset(t)
    BY DEF ResetProcessing, ResetError
  <1> QED BY <1>1, <1>2 DEF Reset, Row

\* A fetched row gets a goroutine, unless the answer of the fetch is lost;
\* everything else keeps its state.
LEMMA FetchEffect ==
    ASSUME TypeOK, NEW i \in Instances, FetchPending(i), NEW t \in Tasks
    PROVE  /\ ~Busy(i, t)
           /\ \A j \in Instances : j # i => work'[j][t] = work[j][t]
           /\ \/ rows'[t] = rows[t] /\ ~Busy(i, t)'
              \/ /\ rows[t].status = "pending" /\ rows'[t].status = "processing"
                 /\ ~rows'[t].stale /\ rows'[t].done = rows[t].done
                 /\ rows'[t].total = rows[t].total
                 /\ \/ ~Busy(i, t)'
                    \/ /\ work'[i][t].pc = "open"
                       /\ work'[i][t].next = rows[t].done
                       /\ work'[i][t].content = NoTask
                       /\ ~work'[i][t].expired
  <1>1. PICK S \in SUBSET PendingRows :
           /\ rows' = [u \in Tasks |->
                         IF u \in S
                         THEN [rows[u] EXCEPT !.status = "processing",
                                              !.stale = FALSE]
                         ELSE rows[u]]
           /\ \/ work' = [work EXCEPT ![i] =
                            [u \in Tasks |-> IF u \in S THEN Snapshot(u)
                                                        ELSE Idle]]
              \/ UNCHANGED work
    BY DEF FetchPending
  <1>2. ~Busy(i, t)
    BY DEF FetchPending
  <1>3. rows[t] \in Row
    BY DEF TypeOK
  <1>4. /\ \A j \in Instances : j # i => work'[j][t] = work[j][t]
        /\ \/ work'[i][t] = Idle \/ work'[i][t] = work[i][t]
           \/ t \in S /\ work'[i][t] = Snapshot(t)
    <2>1. work \in [Instances -> [Tasks -> Worker]]
      BY DEF TypeOK
    <2> QED BY <1>1, <2>1
  <1>5. ~Busy(i, t)' \/ (t \in S /\ work'[i][t] = Snapshot(t))
    BY <1>2, <1>4 DEF Busy, Idle
  <1>6. CASE t \in S
    <2>1. rows[t].status = "pending"
      BY <1>6 DEF PendingRows
    <2>2. rows'[t] = [rows[t] EXCEPT !.status = "processing", !.stale = FALSE]
      BY <1>1, <1>6
    <2>3. /\ rows'[t].status = "processing" /\ ~rows'[t].stale
          /\ rows'[t].done = rows[t].done /\ rows'[t].total = rows[t].total
      BY <1>3, <2>2 DEF Row
    <2> QED BY <1>2, <1>4, <1>5, <2>1, <2>3 DEF Snapshot, Idle
  <1>7. CASE t \notin S
    <2>1. rows'[t] = rows[t]
      BY <1>1, <1>7
    <2> QED BY <1>2, <1>4, <1>5, <1>7, <2>1
  <1> QED BY <1>6, <1>7

LEMMA StopEffect ==
    ASSUME TypeOK, NEW i \in Instances, Stop(i), NEW t \in Tasks
    PROVE  /\ \A j \in Instances : work'[j][t] = work[j][t] \/ work'[j][t] = Idle
           /\ upload'[t].host = upload[t].host /\ upload'[t].path = upload[t].path
           /\ \/ upload'[t].pc = upload[t].pc
              \/ upload[t].pc \in {"stored", "undo"} /\ upload'[t].pc = "rejected"
           /\ UNCHANGED <<rows, arrivals, disk, stored>>
  BY DEF Stop, TypeOK, Upload

LEMMA ExpireEffect ==
    ASSUME TypeOK, NEW i \in Instances, NEW t \in Tasks, Expire(i, t)
    PROVE  /\ work'[i][t].expired
           /\ \A j \in Instances, u \in Tasks :
                 /\ work'[j][u].pc = work[j][u].pc
                 /\ work'[j][u].next = work[j][u].next
                 /\ work'[j][u].total = work[j][u].total
                 /\ work'[j][u].content = work[j][u].content
                 /\ ~work'[j][u].expired => ~work[j][u].expired
           /\ UNCHANGED <<upload, rows, arrivals, disk, inst, stored>>
  <1>1. work[i][t] \in Worker
    BY DEF TypeOK
  <1>2. [work[i][t] EXCEPT !.expired = TRUE] \in Worker
    BY <1>1, WorkerTypes
  <1>3. /\ work'[i][t] = [work[i][t] EXCEPT !.expired = TRUE]
        /\ \A j \in Instances, u \in Tasks :
              j # i \/ u # t => work'[j][u] = work[j][u]
    BY <1>2, BecomeOne DEF Expire
  <1>4. /\ work'[i][t].expired
        /\ work'[i][t].pc = work[i][t].pc
        /\ work'[i][t].next = work[i][t].next
        /\ work'[i][t].total = work[i][t].total
        /\ work'[i][t].content = work[i][t].content
    BY <1>1, <1>3 DEF Worker
  <1>5. UNCHANGED <<upload, rows, arrivals, disk, inst, stored>>
    BY DEF Expire
  <1>6. \A j \in Instances, u \in Tasks :
           /\ work'[j][u].pc = work[j][u].pc
           /\ work'[j][u].next = work[j][u].next
           /\ work'[j][u].total = work[j][u].total
           /\ work'[j][u].content = work[j][u].content
           /\ ~work'[j][u].expired => ~work[j][u].expired
    BY <1>3, <1>4
  <1> QED BY <1>4, <1>5, <1>6

LEMMA AgeRowEffect ==
    ASSUME TypeOK, NEW t \in Tasks, AgeRow(t)
    PROVE  /\ rows[t].status = "processing" /\ rows'[t].status = "processing"
           /\ rows'[t].done = rows[t].done /\ rows'[t].total = rows[t].total
           /\ \A u \in Tasks : u # t => rows'[u] = rows[u]
           /\ UNCHANGED <<upload, arrivals, disk, inst, work, stored>>
  BY DEF AgeRow, TypeOK, Row

-----------------------------------------------------------------------------
(* Uploads and their files                                                 *)

\* What holds of an upload whatever fails and however slow the workers are:
\* its row comes after its file, and its file is nowhere but where the handler
\* put it.
UploadOK(t) ==
    /\ upload[t].path \in {Plain(t), Suffixed(t)}
    /\ upload[t].pc \in {"new", "stored"} => rows[t].status = "none"
    /\ "lost" \notin Faults /\ rows[t].status # "none" =>
          upload[t].pc = "accepted"
    /\ rows[t].status = "none" => /\ rows[t] = NoRow
                                  /\ \A i \in Instances : ~Busy(i, t)
    /\ \A d \in Disks, p \in Paths : disk[d][p] = t =>
          /\ d = DiskOfUpload(t) /\ p = upload[t].path
          /\ upload[t].pc # "new"

BaseInv == TypeInv /\ \A t \in Tasks : UploadOK(t)

LEMMA InitBase == ASSUME Init PROVE BaseInv
  <1>1. TypeInv
    BY InitType
  <1>2. ASSUME NEW t \in Tasks PROVE UploadOK(t)
    <2>1. upload[t].path = Plain(t) /\ upload[t].pc = "new"
      BY DEF Init
    <2>2. rows[t] = NoRow /\ rows[t].status = "none"
      BY DEF Init, NoRow
    <2>3. \A i \in Instances : ~Busy(i, t)
      BY DEF Init, Busy, Idle
    <2>4. \A d \in Disks, p \in Paths : disk[d][p] # t
      BY ConstantsAssumption DEF Init, ConstantsAssumption
    <2> QED BY <2>1, <2>2, <2>3, <2>4 DEF UploadOK
  <1> QED BY <1>1, <1>2 DEF BaseInv

\* A step that leaves the request of an upload alone, adds no copy of its file
\* and keeps its row present or absent.
LEMMA UploadFrame ==
    ASSUME NEW t \in Tasks, UploadOK(t), upload'[t] = upload[t],
           \A d \in Disks, p \in Paths : disk'[d][p] = t => disk[d][p] = t,
           \/ /\ rows'[t] = rows[t]
              /\ \A i \in Instances : Busy(i, t)' => Busy(i, t)
           \/ rows[t].status # "none" /\ rows'[t].status # "none"
    PROVE  UploadOK(t)'
  <1>1. DiskOfUpload(t)' = DiskOfUpload(t)
    BY DEF DiskOfUpload
  <1> QED BY <1>1 DEF UploadOK

LEMMA HandlerStepBase ==
    ASSUME BaseInv, NEW t \in Tasks,
           StoreFile(t) \/ InsertRow(t) \/ InsertError(t) \/ UndoFile(t),
           NEW u \in Tasks
    PROVE  UploadOK(u)'
  <1>t. TypeOK /\ UploadOK(u) /\ UploadOK(t)
    BY DEF BaseInv, TypeInv
  <1>n. NoTask \notin Tasks
    BY ConstantsAssumption DEF ConstantsAssumption
  <1>1. CASE StoreFile(t)
    <2>1. /\ upload[t].pc = "new" /\ upload'[t].pc = "stored"
          /\ upload'[t].host = upload[t].host
          /\ \A v \in Tasks : v # t => upload'[v] = upload[v]
          /\ upload'[t].path \in {Plain(t), Suffixed(t)}
          /\ disk'[DiskOfUpload(t)][upload'[t].path] = t
          /\ \A e \in Disks, q \in Paths :
                e # DiskOfUpload(t) \/ q # upload'[t].path =>
                   disk'[e][q] = disk[e][q]
          /\ UNCHANGED <<rows, work>>
      BY <1>1, <1>t, StoreFileEffect
    <2>2. CASE u # t
      <3>1. \A d \in Disks, p \in Paths : disk'[d][p] = u => disk[d][p] = u
        BY <2>1, <2>2
      <3> QED BY <1>t, <2>1, <2>2, <3>1, UploadFrame DEF Busy
    <2>3. CASE u = t
      <3>1. \A d \in Disks, p \in Paths : disk[d][p] # t
        BY <1>t, <2>1 DEF UploadOK
      <3>2. DiskOfUpload(t)' = DiskOfUpload(t)
        BY <2>1 DEF DiskOfUpload
      <3>3. \A d \in Disks, p \in Paths : disk'[d][p] = t =>
               d = DiskOfUpload(t)' /\ p = upload'[t].path
        BY <2>1, <3>1, <3>2
      <3>4. rows[t].status = "none"
        BY <1>t, <2>1 DEF UploadOK
      <3> QED BY <1>t, <2>1, <2>3, <3>3, <3>4 DEF UploadOK, Busy
    <2> QED BY <2>2, <2>3
  <1>2. CASE InsertRow(t)
    <2>1. /\ upload[t].pc = "stored" /\ Insert(t) /\ SetUpload(t, "accepted")
          /\ UNCHANGED <<disk, work>>
      BY <1>2 DEF InsertRow
    <2>2. /\ upload'[t].pc = "accepted" /\ upload'[t].path = upload[t].path
          /\ upload'[t].host = upload[t].host
          /\ \A v \in Tasks : v # t => upload'[v] = upload[v]
      BY <1>t, <2>1, UploadEffect
    <2>3. /\ rows'[t].status = "pending"
          /\ \A v \in Tasks : v # t => rows'[v] = rows[v]
      BY <1>t, <2>1, InsertEffect
    <2>4. CASE u # t
      BY <1>t, <2>1, <2>2, <2>3, <2>4, UploadFrame DEF Busy
    <2>5. CASE u = t
      BY <1>t, <2>1, <2>2, <2>3, <2>5 DEF UploadOK, DiskOfUpload
    <2> QED BY <2>4, <2>5
  <1>3. CASE InsertError(t)
    <2>1. /\ upload[t].pc = "stored" /\ SetUpload(t, "undo")
          /\ UNCHANGED <<disk, work>>
          /\ UNCHANGED rows \/ ("lost" \in Faults /\ Insert(t))
      BY <1>3 DEF InsertError
    <2>2. /\ upload'[t].pc = "undo" /\ upload'[t].path = upload[t].path
          /\ upload'[t].host = upload[t].host
          /\ \A v \in Tasks : v # t => upload'[v] = upload[v]
      BY <1>t, <2>1, UploadEffect
    <2>3. /\ \/ UNCHANGED rows
             \/ "lost" \in Faults /\ rows'[t].status = "pending"
          /\ \A v \in Tasks : v # t => rows'[v] = rows[v]
      BY <1>t, <2>1, InsertEffect
    <2>4. CASE u # t
      BY <1>t, <2>1, <2>2, <2>3, <2>4, UploadFrame DEF Busy
    <2>5. CASE u = t
      <3>1. rows[t].status = "none"
        BY <1>t, <2>1 DEF UploadOK
      <3> QED BY <1>t, <2>1, <2>2, <2>3, <2>5, <3>1
              DEF UploadOK, DiskOfUpload, Busy
    <2> QED BY <2>4, <2>5
  <1>4. CASE UndoFile(t)
    <2>1. /\ upload[t].pc = "undo" /\ SetUpload(t, "rejected")
          /\ UNCHANGED <<rows, work>>
          /\ Remove(DiskOfUpload(t), upload[t].path) \/ UNCHANGED disk
      BY <1>4 DEF UndoFile
    <2>2. /\ upload'[t].pc = "rejected" /\ upload'[t].path = upload[t].path
          /\ upload'[t].host = upload[t].host
          /\ \A v \in Tasks : v # t => upload'[v] = upload[v]
      BY <1>t, <2>1, UploadEffect
    <2>3. \A v \in Tasks, d \in Disks, p \in Paths :
             disk'[d][p] = v => disk[d][p] = v
      BY <1>t, <1>n, <2>1, RemoveEffect, PlacesTyped
    <2>4. CASE u # t
      BY <1>t, <2>1, <2>2, <2>3, <2>4, UploadFrame DEF Busy
    <2>5. CASE u = t
      BY <1>t, <2>1, <2>2, <2>3, <2>5 DEF UploadOK, DiskOfUpload, Busy
    <2> QED BY <2>4, <2>5
  <1> QED BY <1>1, <1>2, <1>3, <1>4

LEMMA ProcessStepBase ==
    ASSUME BaseInv, NEW i \in Instances,
           \/ StartProcess(i) \/ ResetProcessing(i) \/ ResetError(i)
           \/ FetchPending(i) \/ Shutdown(i) \/ Stop(i),
           NEW t \in Tasks
    PROVE  UploadOK(t)'
  <1>t. TypeOK /\ UploadOK(t)
    BY DEF BaseInv, TypeInv
  <1>1. CASE StartProcess(i) \/ Shutdown(i)
    BY <1>t, <1>1, UploadFrame DEF StartProcess, Shutdown, Busy
  <1>2. CASE ResetProcessing(i) \/ ResetError(i)
    <2>1. \/ rows'[t] = rows[t]
          \/ rows[t].status = "processing" /\ rows'[t].status = "pending"
      BY <1>t, <1>2, ResetEffect
    <2>2. UNCHANGED <<upload, disk, work>>
      BY <1>2 DEF ResetProcessing, ResetError
    <2> QED BY <1>t, <2>1, <2>2, UploadFrame DEF Busy
  <1>3. CASE FetchPending(i)
    <2>1. /\ \A j \in Instances : j # i => work'[j][t] = work[j][t]
          /\ \/ rows'[t] = rows[t] /\ ~Busy(i, t)'
             \/ rows[t].status = "pending" /\ rows'[t].status = "processing"
      BY <1>t, <1>3, FetchEffect
    <2>2. UNCHANGED <<upload, disk>>
      BY <1>3 DEF FetchPending
    <2> QED BY <1>t, <2>1, <2>2, UploadFrame DEF Busy
  <1>4. CASE Stop(i)
    <2>1. /\ \A j \in Instances : work'[j][t] = work[j][t] \/ work'[j][t] = Idle
          /\ upload'[t].host = upload[t].host /\ upload'[t].path = upload[t].path
          /\ \/ upload'[t].pc = upload[t].pc
             \/ upload[t].pc \in {"stored", "undo"} /\ upload'[t].pc = "rejected"
          /\ UNCHANGED <<rows, disk>>
      BY <1>t, <1>4, StopEffect
    <2>2. \A j \in Instances : Busy(j, t)' => Busy(j, t)
      BY <2>1 DEF Busy, Idle
    <2> QED BY <1>t, <2>1, <2>2 DEF UploadOK, DiskOfUpload
  <1> QED BY <1>1, <1>2, <1>3, <1>4

LEMMA WorkerStepBase ==
    ASSUME BaseInv, NEW i \in Instances, NEW t \in Tasks, WorkerStep(i, t),
           NEW u \in Tasks
    PROVE  UploadOK(u)'
  <1>t. TypeOK /\ TypeInv /\ UploadOK(u) /\ UploadOK(t)
    BY DEF BaseInv, TypeInv
  <1>n. NoTask \notin Tasks
    BY ConstantsAssumption DEF ConstantsAssumption
  <1>1. Outcome(i, t)
    BY <1>t, WorkerOutcome
  <1>2. OnlyThat(i, t)
    BY <1>1 DEF Outcome
  <1>3. \A v \in Tasks, d \in Disks, p \in Paths :
           disk'[d][p] = v => disk[d][p] = v
    <2>1. UNCHANGED disk \/ Remove(DiskOf[i], upload[t].path)
      BY <1>1 DEF Outcome, Opening, Counting, Ingesting, Ending, Cleaning
    <2> QED BY <1>t, <1>n, <2>1, RemoveEffect, PlacesTyped
  <1>4. CASE u # t
    BY <1>t, <1>2, <1>3, <1>4, UploadFrame DEF OnlyThat, Busy
  <1>5. CASE u = t
    <2>1. Busy(i, t)
      BY <1>1 DEF Outcome, Opening, Counting, Ingesting, Ending, Cleaning, Busy
    <2>2. rows[t].status # "none"
      BY <1>t, <2>1 DEF UploadOK
    <2>3. rows'[t].status \in {rows[t].status, "done", "failed", "pending"}
      BY <1>1 DEF Outcome, Opening, Counting, Ingesting, Ending, Cleaning
    <2> QED BY <1>t, <1>2, <1>3, <1>5, <2>2, <2>3, UploadFrame DEF OnlyThat
  <1> QED BY <1>4, <1>5

LEMMA BaseStep == BaseInv /\ [Next]_vars => BaseInv'
  <1> SUFFICES ASSUME BaseInv, [Next]_vars, NEW t \in Tasks PROVE UploadOK(t)'
    BY TypeStep DEF BaseInv
  <1>t. TypeOK /\ UploadOK(t)
    BY DEF BaseInv, TypeInv
  <1>1. CASE UNCHANGED vars
    BY <1>t, <1>1, UploadFrame DEF vars, Busy
  <1>2. ASSUME NEW u \in Tasks, AgeRow(u) PROVE UploadOK(t)'
    BY <1>t, <1>2, AgeRowEffect, UploadFrame DEF Busy
  <1>3. ASSUME NEW i \in Instances, NEW u \in Tasks, Expire(i, u)
        PROVE  UploadOK(t)'
    BY <1>t, <1>3, ExpireEffect, UploadFrame DEF Busy
  <1> QED BY <1>1, <1>2, <1>3, HandlerStepBase, ProcessStepBase, WorkerStepBase
          DEF Next

\* When no two uploads ask for the same name, or every instance uses the same
\* directory and no upload gives its file up while its row exists.
NamesApart == \A t, u \in Tasks : NameOf[t] = NameOf[u] => t = u
OneDisk == \A i, j \in Instances : DiskOf[i] = DiskOf[j]
FilesApart == NamesApart \/ (OneDisk /\ Prompt /\ "lost" \notin Faults)

LEMMA PathsApart ==
    ASSUME NamesApart, NEW t \in Tasks, NEW u \in Tasks, UploadOK(t), UploadOK(u),
           upload[t].path = upload[u].path
    PROVE  t = u
  BY DEF NamesApart, UploadOK, Plain, Suffixed

-----------------------------------------------------------------------------
(* The file of an upload stays until its task has ended                    *)

\* An upload has a claim to its file from storing it to the end of the task
\* and of the goroutine that removes it.
Claims(t) ==
    \/ upload[t].pc = "stored"
    \/ upload[t].pc = "undo" /\ rows[t].status = "none"
    \/ /\ upload[t].pc = "accepted"
       /\ ~Terminal(t) \/ \E i \in Instances : work[i][t].pc = "clean"

HasFile(t) == disk[DiskOfUpload(t)][upload[t].path] = t

ClaimInv == \A t \in Tasks : Claims(t) => HasFile(t)

FileInv == BaseInv /\ OwnerInv /\ ClaimInv

LEMMA ClaimFrame ==
    ASSUME NEW t \in Tasks, Claims(t) => HasFile(t), Claims(t)' => Claims(t),
           upload'[t].host = upload[t].host, upload'[t].path = upload[t].path,
           Claims(t)' /\ HasFile(t) =>
              disk'[DiskOfUpload(t)][upload[t].path] = t
    PROVE  Claims(t)' => HasFile(t)'
  <1>1. DiskOfUpload(t)' = DiskOfUpload(t)
    BY DEF DiskOfUpload
  <1> QED BY <1>1 DEF HasFile

\* Removing the file of one upload leaves those of the others in place.
LEMMA RemoveOther ==
    ASSUME FileInv, FilesApart, NEW u \in Tasks, NEW d \in Disks,
           Remove(d, upload[u].path),
           \E i \in Instances : d = DiskOf[i],
           "lost" \notin Faults => Claims(u),
           NEW t \in Tasks, t # u, HasFile(t)
    PROVE  disk'[DiskOfUpload(t)][upload[t].path] = t
  <1>t. TypeOK /\ UploadOK(t) /\ UploadOK(u)
    BY DEF FileInv, BaseInv, TypeInv
  <1>1. d # DiskOfUpload(t) \/ upload[t].path # upload[u].path
    <2>1. CASE NamesApart
      BY <1>t, <2>1, PathsApart
    <2>2. CASE OneDisk /\ "lost" \notin Faults
      <3>1. d = DiskOfUpload(t) /\ d = DiskOfUpload(u)
        BY <1>t, <2>2 DEF OneDisk, DiskOfUpload, TypeOK, Upload
      <3>2. disk[d][upload[u].path] = u
        BY <2>2, <3>1 DEF FileInv, ClaimInv, HasFile
      <3> QED BY <3>1, <3>2 DEF HasFile
    <2> QED BY <2>1, <2>2 DEF FilesApart
  <1> QED BY <1>t, <1>1, RemoveEffect, PlacesTyped DEF HasFile

LEMMA HandlerStepClaim ==
    ASSUME FileInv, FilesApart, NEW u \in Tasks,
           StoreFile(u) \/ InsertRow(u) \/ InsertError(u) \/ UndoFile(u),
           NEW t \in Tasks
    PROVE  Claims(t)' => HasFile(t)'
  <1>t. TypeOK /\ UploadOK(t) /\ UploadOK(u) /\ (Claims(t) => HasFile(t))
    BY DEF FileInv, BaseInv, TypeInv, ClaimInv
  <1>1. CASE StoreFile(u)
    <2>1. /\ upload'[u].host = upload[u].host
          /\ \A v \in Tasks : v # u => upload'[v] = upload[v]
          /\ upload'[u].path \in Paths
          /\ \/ /\ upload'[u].path = Plain(u)
                /\ disk[DiskOfUpload(u)][Plain(u)] = NoTask
             \/ upload'[u].path = Suffixed(u)
          /\ disk'[DiskOfUpload(u)][upload'[u].path] = u
          /\ \A e \in Disks, q \in Paths :
                e # DiskOfUpload(u) \/ q # upload'[u].path =>
                   disk'[e][q] = disk[e][q]
          /\ UNCHANGED <<rows, work>>
      BY <1>t, <1>1, StoreFileEffect
    <2>2. CASE t = u
      BY <2>1, <2>2 DEF HasFile, DiskOfUpload
    <2>3. CASE t # u
      <3>1. Claims(t)' => Claims(t)
        BY <2>1, <2>3 DEF Claims, Terminal
      <3>2. upload[t].path # Suffixed(u)
        BY <1>t, <2>3, ConstantsAssumption
           DEF UploadOK, Plain, Suffixed, ConstantsAssumption
      <3>3. HasFile(t) => /\ DiskOfUpload(t) # DiskOfUpload(u)
                             \/ upload[t].path # upload'[u].path
        BY <2>1, <3>2, ConstantsAssumption DEF HasFile, ConstantsAssumption
      <3>4. HasFile(t) => disk'[DiskOfUpload(t)][upload[t].path] = t
        BY <1>t, <2>1, <3>3, PlacesTyped DEF HasFile
      <3> QED BY <1>t, <2>1, <2>3, <3>1, <3>4, ClaimFrame
    <2> QED BY <2>2, <2>3
  <1>2. CASE InsertRow(u) \/ InsertError(u)
    <2>1. /\ upload[u].pc = "stored"
          /\ SetUpload(u, "accepted") \/ SetUpload(u, "undo")
          /\ UNCHANGED <<disk, work>>
          /\ UNCHANGED rows \/ Insert(u)
      BY <1>2 DEF InsertRow, InsertError
    <2>2. /\ upload'[u].path = upload[u].path /\ upload'[u].host = upload[u].host
          /\ \A v \in Tasks : v # u => upload'[v] = upload[v]
      BY <1>t, <2>1, UploadEffect
    <2>3. \A v \in Tasks : v # u => rows'[v] = rows[v]
      BY <1>t, <2>1, InsertEffect
    <2>4. Claims(t)' => Claims(t)
      BY <2>1, <2>2, <2>3 DEF Claims, Terminal
    <2> QED BY <1>t, <2>1, <2>2, <2>4, ClaimFrame DEF HasFile
  <1>3. CASE UndoFile(u)
    <2>1. /\ upload[u].pc = "undo" /\ SetUpload(u, "rejected")
          /\ UNCHANGED <<rows, work>>
          /\ Remove(DiskOfUpload(u), upload[u].path) \/ UNCHANGED disk
      BY <1>3 DEF UndoFile
    <2>2. /\ upload'[u].pc = "rejected"
          /\ \A v \in Tasks : v # u => upload'[v] = upload[v]
      BY <1>t, <2>1, UploadEffect
    <2>3. CASE t = u
      BY <2>2, <2>3 DEF Claims
    <2>4. CASE t # u
      <3>1. Claims(t)' => Claims(t)
        BY <2>1, <2>2, <2>4 DEF Claims, Terminal
      <3>2. "lost" \notin Faults => Claims(u)
        BY <1>t, <2>1 DEF UploadOK, Claims
      <3>3. /\ DiskOfUpload(u) \in Disks
            /\ \E i \in Instances : DiskOfUpload(u) = DiskOf[i]
        BY <1>t, PlacesTyped DEF DiskOfUpload, TypeOK, Upload
      <3>4. HasFile(t) => disk'[DiskOfUpload(t)][upload[t].path] = t
        BY <2>1, <2>4, <3>2, <3>3, RemoveOther DEF HasFile
      <3> QED BY <1>t, <2>2, <2>4, <3>1, <3>4, ClaimFrame
    <2> QED BY <2>3, <2>4
  <1> QED BY <1>1, <1>2, <1>3

LEMMA ProcessStepClaim ==
    ASSUME FileInv, NEW i \in Instances,
           \/ StartProcess(i) \/ ResetProcessing(i) \/ ResetError(i)
           \/ FetchPending(i) \/ Shutdown(i) \/ Stop(i),
           NEW t \in Tasks
    PROVE  Claims(t)' => HasFile(t)'
  <1>t. TypeOK /\ (Claims(t) => HasFile(t))
    BY DEF FileInv, BaseInv, TypeInv, ClaimInv
  <1>1. CASE StartProcess(i) \/ Shutdown(i)
    BY <1>t, <1>1 DEF StartProcess, Shutdown, Claims, HasFile, Terminal,
                      DiskOfUpload
  <1>2. CASE ResetProcessing(i) \/ ResetError(i)
    <2>1. \/ rows'[t] = rows[t]
          \/ rows[t].status = "processing" /\ rows'[t].status = "pending"
      BY <1>t, <1>2, ResetEffect
    <2>2. UNCHANGED <<upload, disk, work>>
      BY <1>2 DEF ResetProcessing, ResetError
    <2>3. Claims(t)' => Claims(t)
      BY <2>1, <2>2 DEF Claims, Terminal
    <2> QED BY <1>t, <2>2, <2>3, ClaimFrame DEF HasFile
  <1>3. CASE FetchPending(i)
    <2>1. /\ \A j \in Instances : j # i => work'[j][t] = work[j][t]
          /\ work'[i][t].pc # "clean"
          /\ \/ rows'[t] = rows[t]
             \/ rows[t].status = "pending" /\ rows'[t].status = "processing"
      BY <1>t, <1>3, FetchEffect DEF Busy
    <2>2. UNCHANGED <<upload, disk>>
      BY <1>3 DEF FetchPending
    <2>3. Claims(t)' => Claims(t)
      BY <2>1, <2>2 DEF Claims, Terminal
    <2> QED BY <1>t, <2>2, <2>3, ClaimFrame DEF HasFile
  <1>4. CASE Stop(i)
    <2>1. /\ \A j \in Instances : work'[j][t] = work[j][t] \/ work'[j][t] = Idle
          /\ upload'[t].host = upload[t].host /\ upload'[t].path = upload[t].path
          /\ \/ upload'[t].pc = upload[t].pc
             \/ upload'[t].pc = "rejected"
          /\ UNCHANGED <<rows, disk>>
      BY <1>t, <1>4, StopEffect
    <2>2. \A j \in Instances : work'[j][t].pc = "clean" => work[j][t].pc = "clean"
      BY <2>1 DEF Idle
    <2>3. Claims(t)' => Claims(t)
      BY <2>1, <2>2 DEF Claims, Terminal
    <2> QED BY <1>t, <2>1, <2>3, ClaimFrame DEF HasFile
  <1> QED BY <1>1, <1>2, <1>3, <1>4

LEMMA WorkerStepClaim ==
    ASSUME FileInv, FilesApart, NEW i \in Instances, NEW u \in Tasks,
           WorkerStep(i, u), NEW t \in Tasks
    PROVE  Claims(t)' => HasFile(t)'
  <1>t. /\ TypeOK /\ TypeInv /\ UploadOK(u) /\ (Claims(t) => HasFile(t))
        /\ SingleOwner
    BY DEF FileInv, BaseInv, TypeInv, ClaimInv, OwnerInv
  <1>1. Outcome(i, u)
    BY <1>t, WorkerOutcome
  <1>2. OnlyThat(i, u)
    BY <1>1 DEF Outcome
  <1>3. \/ UNCHANGED disk /\ work[i][u].pc # "clean"
        \/ /\ work[i][u].pc = "clean" /\ work'[i][u] = Idle
           /\ rows'[u] = rows[u]
           /\ UNCHANGED disk \/ Remove(DiskOf[i], upload[u].path)
    BY <1>1 DEF Outcome, Opening, Counting, Ingesting, Ending, Cleaning
  <1>4. /\ Busy(i, u) /\ \A j \in Instances : Busy(j, u) => i = j
        /\ IF work[i][u].pc = "clean" THEN Terminal(u) ELSE ~Terminal(u)
    <2>1. Busy(i, u)
      BY <1>1 DEF Outcome, Opening, Counting, Ingesting, Ending, Cleaning, Busy
    <2> QED BY <1>t, <2>1 DEF SingleOwner, Owners, Terminal
  <1>5. CASE t = u
    <2>1. CASE work[i][u].pc # "clean"
      <3>0. rows'[u].status = "none" => rows[u].status = "none"
        BY <1>1 DEF Outcome, Opening, Counting, Ingesting, Ending, Cleaning
      <3>1. Claims(t)' => Claims(t)
        BY <1>2, <1>4, <1>5, <2>1, <3>0 DEF Claims, OnlyThat, Terminal
      <3> QED BY <1>t, <1>2, <1>3, <2>1, <3>1, ClaimFrame DEF OnlyThat, HasFile
    <2>2. CASE work[i][u].pc = "clean"
      <3>1. \A j \in Instances : work'[j][u].pc # "clean"
        BY <1>2, <1>3, <1>4, <2>2 DEF OnlyThat, Busy, Idle
      <3>2. Terminal(t)'
        BY <1>3, <1>4, <1>5, <2>2 DEF Terminal
      <3>3. upload'[t].pc = "accepted" \/ ~Claims(t)'
        <4>1. rows[u].status # "none"
          BY <1>4, <2>2 DEF Terminal
        <4>2. upload[u].pc # "stored"
          BY <1>t, <4>1 DEF UploadOK
        <4> QED BY <1>2, <1>3, <1>5, <2>2, <4>1, <4>2 DEF Claims, OnlyThat
      <3> QED BY <1>5, <3>1, <3>2, <3>3 DEF Claims
    <2> QED BY <2>1, <2>2
  <1>6. CASE t # u
    <2>1. Claims(t)' => Claims(t)
      BY <1>2, <1>6 DEF Claims, OnlyThat, Terminal
    <2>2. HasFile(t) => disk'[DiskOfUpload(t)][upload[t].path] = t
      <3>1. CASE UNCHANGED disk
        BY <3>1 DEF HasFile
      <3>2. CASE Remove(DiskOf[i], upload[u].path) /\ work[i][u].pc = "clean"
        <4>1. rows[u].status # "none"
          BY <1>4, <3>2 DEF Terminal
        <4>2. "lost" \notin Faults => Claims(u)
          BY <1>t, <3>2, <4>1 DEF UploadOK, Claims
        <4> QED BY <1>t, <1>6, <3>2, <4>2, RemoveOther, PlacesTyped
      <3> QED BY <1>3, <3>1, <3>2
    <2> QED BY <1>t, <1>2, <2>1, <2>2, ClaimFrame DEF OnlyThat
  <1> QED BY <1>5, <1>6

LEMMA FileStep ==
    ASSUME Prompt, FilesApart PROVE FileInv /\ [Next]_vars => FileInv'
  <1> SUFFICES ASSUME FileInv, [Next]_vars, NEW t \in Tasks
               PROVE  Claims(t)' => HasFile(t)'
    BY BaseStep, OwnerStep DEF FileInv, ClaimInv
  <1>t. TypeOK /\ (Claims(t) => HasFile(t))
    BY DEF FileInv, BaseInv, TypeInv, ClaimInv
  <1>1. CASE UNCHANGED vars
    BY <1>t, <1>1 DEF vars, Claims, HasFile, Terminal, DiskOfUpload
  <1>2. ASSUME NEW u \in Tasks, AgeRow(u) PROVE Claims(t)' => HasFile(t)'
    <2>1. Claims(t)' => Claims(t)
      BY <1>t, <1>2, AgeRowEffect DEF Claims, Terminal
    <2> QED BY <1>t, <1>2, <2>1, AgeRowEffect DEF HasFile, DiskOfUpload
  <1>3. ASSUME NEW i \in Instances, NEW u \in Tasks, Expire(i, u)
        PROVE  Claims(t)' => HasFile(t)'
    <2>1. Claims(t)' => Claims(t)
      BY <1>t, <1>3, ExpireEffect DEF Claims, Terminal
    <2> QED BY <1>t, <1>3, <2>1, ExpireEffect DEF HasFile, DiskOfUpload
  <1> QED BY <1>1, <1>2, <1>3, HandlerStepClaim, ProcessStepClaim,
             WorkerStepClaim DEF Next

LEMMA InitFile == ASSUME Init PROVE FileInv
  BY InitBase, InitOwner DEF FileInv, ClaimInv, Claims, Init

\* An accepted upload has its file where the handler put it until its task has
\* ended, over all instances, crashes and requeues, as long as workers report
\* in time and no two uploads can end up at one path of two directories.
THEOREM FilesKept == ASSUME Prompt, FilesApart PROVE Spec => []FileKept
  <1>1. Init => FileInv
    BY InitFile
  <1>2. FileInv /\ [Next]_vars => FileInv'
    BY FileStep
  <1>3. FileInv => FileKept
    BY DEF FileInv, ClaimInv, FileKept, Claims, HasFile
  <1> QED BY <1>1, <1>2, <1>3, PTL DEF Spec

-----------------------------------------------------------------------------
(* A worker reads its own file, and a finished one leaves none             *)

\* What a goroutine would read now.
ReadsOwn == \A i \in Instances, t \in Tasks :
    work[i][t].pc = "open" /\ FileAt(i, t) # NoTask => FileAt(i, t) = t

LEMMA FileAtType ==
    ASSUME TypeOK, NEW i \in Instances, NEW t \in Tasks
    PROVE  FileAt(i, t) \in Tasks \cup {NoTask}
  <1>1. disk[DiskOf[i]] \in [Paths -> Tasks \cup {NoTask}]
    BY PlacesTyped DEF TypeOK
  <1> QED BY <1>1, PlacesTyped DEF FileAt

LEMMA ReadsOwnByName == ASSUME NamesApart, BaseInv PROVE ReadsOwn
  <1> SUFFICES ASSUME NEW i \in Instances, NEW t \in Tasks, FileAt(i, t) # NoTask
               PROVE  FileAt(i, t) = t
    BY DEF ReadsOwn
  <1>t. TypeOK /\ \A u \in Tasks : UploadOK(u)
    BY DEF BaseInv, TypeInv
  <1>1. PICK c \in Tasks : c = FileAt(i, t)
    BY <1>t, FileAtType
  <1>2. upload[c].path = upload[t].path
    BY <1>t, <1>1, PlacesTyped DEF FileAt, UploadOK
  <1> QED BY <1>t, <1>1, <1>2, PathsApart

LEMMA ReadsOwnByClaim ==
    ASSUME OneDisk, "lost" \notin Faults, FileInv PROVE ReadsOwn
  <1> SUFFICES ASSUME NEW i \in Instances, NEW t \in Tasks,
                      work[i][t].pc = "open"
               PROVE  FileAt(i, t) = t
    BY DEF ReadsOwn
  <1>t. TypeOK /\ UploadOK(t) /\ SingleOwner
    BY DEF FileInv, BaseInv, TypeInv, OwnerInv
  <1>1. rows[t].status = "processing"
    BY <1>t DEF SingleOwner, Busy
  <1>2. Claims(t)
    BY <1>t, <1>1 DEF UploadOK, Claims, Terminal
  <1>3. DiskOf[i] = DiskOfUpload(t)
    BY <1>t DEF OneDisk, DiskOfUpload, TypeOK, Upload
  <1> QED BY <1>2, <1>3 DEF FileInv, ClaimInv, HasFile, FileAt

LEMMA ContentStep ==
    ASSUME TypeInv, ReadsOwn, OwnContent, [Next]_vars PROVE OwnContent'
  <1>t. TypeOK
    BY DEF TypeInv
  <1> SUFFICES ASSUME NEW j \in Instances, NEW u \in Tasks
               PROVE  work'[j][u].content \in {u, NoTask}
    BY DEF OwnContent
  <1>i. Idle.content = NoTask
    BY DEF Idle
  <1>0. CASE UNCHANGED work
    BY <1>0 DEF OwnContent
  <1>1. ASSUME NEW i \in Instances, NEW t \in Tasks, WorkerStep(i, t)
        PROVE  work'[j][u].content \in {u, NoTask}
    <2>1. Outcome(i, t)
      BY <1>1, WorkerOutcome
    <2>2. \/ work'[i][t].content \in {work[i][t].content, NoTask}
          \/ /\ work[i][t].pc = "open" /\ work'[i][t].content \in Tasks
             /\ work'[i][t].content = FileAt(i, t)
      BY <1>i, <2>1 DEF Outcome, Opening, Counting, Ingesting, Ending, Cleaning,
                  Carries
    <2>3. work'[i][t].content \in {t, NoTask}
      BY <2>2, ConstantsAssumption DEF OwnContent, ReadsOwn, ConstantsAssumption
    <2>4. j # i \/ u # t => work'[j][u] = work[j][u]
      BY <2>1 DEF Outcome, OnlyThat
    <2> QED BY <2>3, <2>4 DEF OwnContent
  <1>2. ASSUME NEW i \in Instances, NEW t \in Tasks, Expire(i, t)
        PROVE  work'[j][u].content \in {u, NoTask}
    BY <1>t, <1>2, ExpireEffect DEF OwnContent
  <1>3. ASSUME NEW i \in Instances, FetchPending(i)
        PROVE  work'[j][u].content \in {u, NoTask}
    <2>1. PICK S \in SUBSET Tasks :
             \/ work' = [work EXCEPT ![i] =
                          [t \in Tasks |-> IF t \in S THEN Snapshot(t)
                                                      ELSE Idle]]
             \/ UNCHANGED work
      BY <1>3 DEF FetchPending, PendingRows
    <2>2. \/ work'[j][u] \in {work[j][u], Idle}
          \/ work'[j][u] = Snapshot(u)
      BY <1>t, <2>1 DEF TypeOK
    <2>3. Snapshot(u).content = NoTask
      BY DEF Snapshot, Idle
    <2> QED BY <1>i, <2>2, <2>3 DEF OwnContent
  <1>4. ASSUME NEW i \in Instances, Stop(i)
        PROVE  work'[j][u].content \in {u, NoTask}
    BY <1>t, <1>4, <1>i, StopEffect DEF OwnContent
  <1>5. ASSUME NEW t \in Tasks,
               StoreFile(t) \/ InsertRow(t) \/ InsertError(t) \/ UndoFile(t)
                  \/ AgeRow(t)
        PROVE  UNCHANGED work
    BY <1>5 DEF StoreFile, InsertRow, InsertError, UndoFile, AgeRow
  <1>6. ASSUME NEW i \in Instances,
               StartProcess(i) \/ ResetProcessing(i) \/ ResetError(i)
                  \/ Shutdown(i)
        PROVE  UNCHANGED work
    BY <1>6 DEF StartProcess, ResetProcessing, ResetError, Shutdown
  <1>7. CASE UNCHANGED vars
    BY <1>0, <1>7 DEF vars
  <1> QED BY <1>0, <1>1, <1>2, <1>3, <1>4, <1>5, <1>6, <1>7 DEF Next

LEMMA InitContent == ASSUME Init PROVE OwnContent
  BY DEF Init, Idle, OwnContent

\* A worker ingests the file that was uploaded for the row it processes, on
\* whatever directory the file and the worker are.
THEOREM ContentIsOwn == ASSUME FilesApart PROVE Spec => []OwnContent
  <1>1. CASE NamesApart
    <2> DEFINE Inv == BaseInv /\ OwnContent
    <2>1. Init => Inv
      BY InitBase, InitContent
    <2>2. Inv /\ [Next]_vars => Inv'
      BY <1>1, BaseStep, ReadsOwnByName, ContentStep DEF BaseInv
    <2>3. Inv => OwnContent
      OBVIOUS
    <2> QED BY <2>1, <2>2, <2>3, PTL DEF Spec
  <1>2. CASE OneDisk /\ Prompt /\ "lost" \notin Faults
    <2> DEFINE Inv == FileInv /\ OwnContent
    <2>1. Init => Inv
      BY InitFile, InitContent
    <2>2. Inv /\ [Next]_vars => Inv'
      BY <1>2, FileStep, ReadsOwnByClaim, ContentStep DEF FileInv, BaseInv
    <2>3. Inv => OwnContent
      OBVIOUS
    <2> QED BY <2>1, <2>2, <2>3, PTL DEF Spec
  <1> QED BY <1>1, <1>2 DEF FilesApart

\* With one directory and no process that ends while it works, a task that has
\* ended either has no file or a goroutine about to remove it.
LeakInv ==
    /\ \A i \in Instances : inst[i] # "stopping"
    /\ \A t \in Tasks, d \in Disks, p \in Paths :
          Terminal(t) /\ disk[d][p] = t =>
             \E i \in Instances : work[i][t].pc = "clean"

LEMMA LeakStep ==
    ASSUME OneDisk, Faults \cap {"lost", "crash", "shutdown", "fs"} = {}
    PROVE  BaseInv /\ LeakInv /\ [Next]_vars => LeakInv'
  <1> SUFFICES ASSUME BaseInv, LeakInv, [Next]_vars PROVE LeakInv'
    OBVIOUS
  <1>t. TypeOK /\ TypeInv /\ \A t \in Tasks : UploadOK(t)
    BY DEF BaseInv, TypeInv
  <1>n. NoTask \notin Tasks
    BY ConstantsAssumption DEF ConstantsAssumption
  <1>s. ASSUME NEW i \in Instances PROVE ~Shutdown(i) /\ ~Stop(i)
    BY DEF Shutdown, Stop, LeakInv
  <1>1. \A i \in Instances : inst'[i] # "stopping"
    <2>1. ASSUME NEW i \in Instances,
                 StartProcess(i) \/ ResetProcessing(i) \/ ResetError(i)
                    \/ FetchPending(i)
          PROVE  \A j \in Instances : inst'[j] # "stopping"
      BY <1>t, <2>1 DEF StartProcess, ResetProcessing, ResetError, FetchPending,
                        LeakInv, TypeOK
    <2>2. CASE UNCHANGED inst
      BY <2>2 DEF LeakInv
    <2>3. ASSUME NEW t \in Tasks,
                 StoreFile(t) \/ InsertRow(t) \/ InsertError(t) \/ UndoFile(t)
                    \/ AgeRow(t)
          PROVE  UNCHANGED inst
      BY <2>3 DEF StoreFile, InsertRow, InsertError, UndoFile, AgeRow
    <2>4. ASSUME NEW i \in Instances, NEW t \in Tasks, WorkerStep(i, t)
          PROVE  UNCHANGED inst
      BY <1>t, <2>4, WorkerOutcome DEF Outcome, OnlyThat
    <2>5. ASSUME NEW i \in Instances, NEW t \in Tasks, Expire(i, t)
          PROVE  UNCHANGED inst
      BY <2>5 DEF Expire
    <2> QED BY <1>s, <2>1, <2>2, <2>3, <2>4, <2>5 DEF Next, vars
  <1>2. ASSUME NEW t \in Tasks, NEW d \in Disks, NEW p \in Paths,
               Terminal(t)', disk'[d][p] = t
        PROVE  \E i \in Instances : work'[i][t].pc = "clean"
    <2>f. CASE /\ Terminal(t) /\ disk[d][p] = t
               /\ \A i \in Instances :
                     work[i][t].pc = "clean" => work'[i][t].pc = "clean"
      BY <2>f DEF LeakInv
    <2>1. ASSUME NEW u \in Tasks,
                 StoreFile(u) \/ InsertRow(u) \/ InsertError(u) \/ UndoFile(u)
          PROVE  \E i \in Instances : work'[i][t].pc = "clean"
      <3>1. CASE StoreFile(u)
        <4>1. rows[u].status = "none" /\ UNCHANGED <<rows, work>>
          BY <1>t, <3>1 DEF UploadOK, StoreFile
        <4>2. u # t
          BY <1>2, <4>1 DEF Terminal
        <4>3. disk[d][p] = t
          BY <1>t, <1>2, <3>1, <4>2, StoreFileEffect
        <4> QED BY <1>2, <2>f, <4>1, <4>3 DEF Terminal
      <3>2. CASE InsertRow(u) \/ InsertError(u)
        <4>1. UNCHANGED <<disk, work>> /\ (UNCHANGED rows \/ Insert(u))
          BY <3>2 DEF InsertRow, InsertError
        <4>2. rows'[t] = rows[t]
          <5>1. UNCHANGED rows \/ (rows'[u].status = "pending" /\
                   \A v \in Tasks : v # u => rows'[v] = rows[v])
            BY <1>t, <4>1, InsertEffect
          <5> QED BY <1>2, <5>1 DEF Terminal
        <4> QED BY <1>2, <2>f, <4>1, <4>2 DEF Terminal
      <3>3. CASE UndoFile(u)
        <4>1. /\ UNCHANGED <<rows, work>>
              /\ Remove(DiskOfUpload(u), upload[u].path) \/ UNCHANGED disk
          BY <3>3 DEF UndoFile
        <4>2. disk[d][p] = t
          BY <1>t, <1>n, <1>2, <4>1, RemoveEffect, PlacesTyped
        <4> QED BY <1>2, <2>f, <4>1, <4>2 DEF Terminal
      <3> QED BY <2>1, <3>1, <3>2, <3>3
    <2>2. ASSUME NEW u \in Tasks, AgeRow(u)
          PROVE  \E i \in Instances : work'[i][t].pc = "clean"
      BY <1>t, <1>2, <2>2, <2>f, AgeRowEffect DEF Terminal
    <2>3. ASSUME NEW i \in Instances, NEW u \in Tasks, Expire(i, u)
          PROVE  \E k \in Instances : work'[k][t].pc = "clean"
      BY <1>t, <1>2, <2>3, <2>f, ExpireEffect DEF Terminal
    <2>4. ASSUME NEW i \in Instances,
                 \/ StartProcess(i) \/ ResetProcessing(i) \/ ResetError(i)
                 \/ FetchPending(i)
          PROVE  \E k \in Instances : work'[k][t].pc = "clean"
      <3>1. CASE StartProcess(i)
        BY <1>2, <2>f, <3>1 DEF StartProcess, Terminal
      <3>2. CASE ResetProcessing(i) \/ ResetError(i)
        <4>1. UNCHANGED <<disk, work>>
          BY <3>2 DEF ResetProcessing, ResetError
        <4>2. rows'[t] = rows[t]
          BY <1>t, <1>2, <3>2, ResetEffect DEF Terminal
        <4> QED BY <1>2, <2>f, <4>1, <4>2 DEF Terminal
      <3>3. CASE FetchPending(i)
        <4>1. UNCHANGED disk
          BY <3>3 DEF FetchPending
        <4>2. /\ ~Busy(i, t)
              /\ \A j \in Instances : j # i => work'[j][t] = work[j][t]
              /\ rows'[t] = rows[t]
          BY <1>t, <1>2, <3>3, FetchEffect DEF Terminal
        <4> QED BY <1>2, <2>f, <4>1, <4>2 DEF Terminal, Busy
      <3> QED BY <2>4, <3>1, <3>2, <3>3
    <2>5. ASSUME NEW i \in Instances, NEW u \in Tasks, WorkerStep(i, u)
          PROVE  \E k \in Instances : work'[k][t].pc = "clean"
      <3>1. Outcome(i, u) /\ OnlyThat(i, u)
        BY <1>t, <2>5, WorkerOutcome DEF Outcome
      <3>2. \/ /\ UNCHANGED disk
               /\ \/ rows'[u].status = rows[u].status /\ work[i][u].pc # "clean"
                  \/ work'[i][u].pc = "clean"
                  \/ ~Terminal(u)'
            \/ Remove(DiskOf[i], upload[u].path)
        BY <3>1 DEF Outcome, Opening, Counting, Ingesting, Ending, Cleaning,
                    Terminal
      <3>3. CASE u # t
        <4>1. disk[d][p] = t
          BY <1>t, <1>n, <1>2, <3>2, RemoveEffect, PlacesTyped
        <4> QED BY <1>2, <2>f, <3>1, <3>3, <4>1 DEF OnlyThat, Terminal
      <3>4. CASE u = t
        <4>1. CASE Remove(DiskOf[i], upload[u].path)
          <5>1. DiskOf[i] = DiskOfUpload(t)
            BY <1>t DEF OneDisk, DiskOfUpload, TypeOK, Upload
          <5>2. disk[d][p] = t => d = DiskOf[i] /\ p = upload[t].path
            BY <1>t, <5>1 DEF UploadOK
          <5>3. disk'[d][p] # t
            BY <1>t, <1>n, <3>4, <4>1, <5>2, RemoveEffect, PlacesTyped
          <5> QED BY <1>2, <5>3
        <4>2. CASE work'[i][u].pc = "clean" \/ ~Terminal(u)'
          BY <1>2, <3>4, <4>2
        <4>3. CASE /\ UNCHANGED disk
                   /\ rows'[u].status = rows[u].status /\ work[i][u].pc # "clean"
          BY <1>2, <2>f, <3>1, <3>4, <4>3 DEF OnlyThat, Terminal
        <4> QED BY <3>2, <4>1, <4>2, <4>3
      <3> QED BY <3>3, <3>4
    <2>6. CASE UNCHANGED vars
      BY <1>2, <2>6, <2>f DEF vars, Terminal
    <2> QED BY <1>s, <2>1, <2>2, <2>3, <2>4, <2>5, <2>6 DEF Next
  <1> QED BY <1>1, <1>2 DEF LeakInv

\* A goroutine that ran to its end leaves no file of its task on disk: what is
\* left over comes only from a process that ended, a lost answer, or a failing
\* remove.
THEOREM NothingLeaked ==
    ASSUME OneDisk, Faults \cap {"lost", "crash", "shutdown", "fs"} = {}
    PROVE  Spec => []NoFileLeaked
  <1>1. Init => BaseInv /\ LeakInv
    BY InitBase, ConstantsAssumption
       DEF Init, LeakInv, ConstantsAssumption
  <1>2. BaseInv /\ LeakInv /\ [Next]_vars => BaseInv' /\ LeakInv'
    BY BaseStep, LeakStep
  <1>3. LeakInv => NoFileLeaked
    BY DEF LeakInv, NoFileLeaked, Owners, Busy
  <1> QED BY <1>1, <1>2, <1>3, PTL DEF Spec

-----------------------------------------------------------------------------
(* Chunks are taken and stored once                                        *)

\* What a goroutine has behind it is covered by the checkpoint of its row, and
\* the chunk it is about to store is not in the store and nobody else's.
Trail(i, t) ==
    /\ work[i][t].pc \in {"open", "total", "loop"} =>
          work[i][t].next <= rows[t].done
    /\ work[i][t].pc = "ingest" =>
          /\ work[i][t].next + 1 <= rows[t].done
          /\ stored[t][work[i][t].next + 1] = 0
          /\ \A j \in Instances : j # i /\ work[j][t].pc = "ingest" =>
                work[j][t].next # work[i][t].next
    /\ work[i][t].pc \in {"loop", "ingest", "finish"} =>
          rows[t].total = ChunksOf[t]
    /\ work[i][t].pc = "finish" => rows[t].done = ChunksOf[t]

\* The checkpoint of a row covers what was stored of its file.
Ledger(t) ==
    /\ rows[t].done <= ChunksOf[t]
    /\ rows[t].status = "done" =>
          rows[t].done = ChunksOf[t] /\ rows[t].total = ChunksOf[t]
    /\ \A k \in 1..MaxChunks : stored[t][k] <= 1
    /\ \A k \in 1..MaxChunks : stored[t][k] > 0 => k <= rows[t].done

ProgressInv == \A t \in Tasks : Ledger(t) /\ \A i \in Instances : Trail(i, t)

\* A goroutine that may still write the checkpoint has its row's.
Level == \A i \in Instances, t \in Tasks :
    work[i][t].pc = "loop" /\ ~work[i][t].expired =>
        work[i][t].next = rows[t].done

LEMMA StoreEffect ==
    ASSUME TypeOK, NEW c \in Tasks, NEW k \in 1..MaxChunks, Store(c, k)
    PROVE  /\ stored'[c][k] = IF stored[c][k] = 0 THEN 1 ELSE 2
           /\ \A l \in 1..MaxChunks : l # k => stored'[c][l] = stored[c][l]
           /\ \A d \in Tasks : d # c => stored'[d] = stored[d]
  <1>1. stored \in [Tasks -> [1..MaxChunks -> 0..2]]
    BY DEF TypeOK
  <1>2. /\ stored'[c] = [stored[c] EXCEPT ![k] = IF @ = 0 THEN 1 ELSE 2]
        /\ \A d \in Tasks : d # c => stored'[d] = stored[d]
    BY <1>1 DEF Store
  <1>3. stored[c] \in [1..MaxChunks -> 0..2]
    BY <1>1
  <1> QED BY <1>2, <1>3

LEMMA ProgressTypes ==
    ASSUME TypeOK, NEW t \in Tasks
    PROVE  /\ rows[t].done \in Nat /\ rows[t].total \in Nat
           /\ ChunksOf[t] \in Nat /\ ChunksOf[t] <= MaxChunks /\ MaxChunks \in Nat
           /\ \A k \in 1..MaxChunks : stored[t][k] \in 0..2
           /\ \A i \in Instances : /\ work[i][t].next \in Nat
                                   /\ work[i][t].total \in Nat
  <1>1. /\ rows[t].done \in 0..MaxChunks /\ rows[t].total \in 0..MaxChunks
        /\ ChunksOf[t] \in 0..MaxChunks /\ MaxChunks \in Nat
    BY ConstantsAssumption DEF ConstantsAssumption, TypeOK, Row
  <1>2. \A k \in 1..MaxChunks : stored[t][k] \in 0..2
    BY DEF TypeOK
  <1>3. \A i \in Instances : /\ work[i][t].next \in 0..MaxChunks
                             /\ work[i][t].total \in 0..MaxChunks
    <2>1. \A i \in Instances : work[i][t] \in Worker
      BY DEF TypeOK
    <2> QED BY <2>1 DEF Worker
  <1> QED BY <1>1, <1>2, <1>3

\* A step that leaves the counters of a row and its chunks alone.
LEMMA ProgressFrame ==
    ASSUME TypeOK, NEW t \in Tasks, Ledger(t), \A i \in Instances : Trail(i, t),
           rows'[t].done = rows[t].done, rows'[t].total = rows[t].total,
           rows'[t].status = "done" => rows[t].status = "done",
           stored'[t] = stored[t],
           \A i \in Instances :
              \/ work'[i][t].pc = work[i][t].pc
                   /\ work'[i][t].next = work[i][t].next
              \/ work'[i][t].pc = "idle"
              \/ work'[i][t].pc = "open" /\ work'[i][t].next = rows[t].done
    PROVE  Ledger(t)' /\ \A i \in Instances : Trail(i, t)'
  <1>t. rows[t].done \in Nat
    BY ProgressTypes
  <1>1. Ledger(t)'
    BY DEF Ledger
  <1>2. ASSUME NEW i \in Instances PROVE Trail(i, t)'
    <2>1. CASE work'[i][t].pc \in {"idle", "open"}
      BY <1>t, <2>1 DEF Trail
    <2>2. CASE /\ work'[i][t].pc \notin {"idle", "open"}
               /\ work'[i][t].pc = work[i][t].pc
               /\ work'[i][t].next = work[i][t].next
      BY <2>2 DEF Trail
    <2> QED BY <2>1, <2>2
  <1> QED BY <1>1, <1>2

\* What a step of a goroutine does to the progress of its task.
LEMMA ProgressMove ==
    ASSUME BaseInv, OwnContent, Level, ProgressInv,
           NEW i \in Instances, NEW t \in Tasks, Outcome(i, t)
    PROVE  /\ rows'[t].done \in {rows[t].done, rows[t].done + 1}
           /\ rows'[t].done <= ChunksOf[t]
           /\ rows'[t].total \in {rows[t].total, ChunksOf[t]}
           /\ rows'[t].status = "done" =>
                 rows[t].status = "done" \/ work[i][t].pc = "finish"
           /\ \/ UNCHANGED stored
              \/ /\ work[i][t].pc = "ingest" /\ work'[i][t].pc # "ingest"
                 /\ work[i][t].next + 1 \in 1..MaxChunks
                 /\ Store(t, work[i][t].next + 1)
           /\ work'[i][t].pc \in {"open", "total", "loop"} =>
                 work'[i][t].next <= rows'[t].done
           /\ work'[i][t].pc = "ingest" =>
                 /\ work'[i][t].next + 1 = rows'[t].done
                 /\ rows'[t].done = rows[t].done + 1
           /\ work'[i][t].pc \in {"loop", "ingest", "finish"} =>
                 rows'[t].total = ChunksOf[t]
           /\ work'[i][t].pc = "finish" => rows'[t].done = ChunksOf[t]
  <1> DEFINE w == work[i][t]
             w1 == work'[i][t]
             r == rows[t]
             r1 == rows'[t]
  <1>t. /\ r.done \in Nat /\ r.total \in Nat /\ w.next \in Nat /\ w.total \in Nat
        /\ ChunksOf[t] \in Nat /\ ChunksOf[t] <= MaxChunks /\ MaxChunks \in Nat
    BY ProgressTypes DEF BaseInv, TypeInv
  <1>l. Ledger(t) /\ Trail(i, t)
    BY DEF ProgressInv
  <1>c. /\ w.pc \in {"total", "loop", "ingest", "finish"} =>
              w.content = t /\ w.total = ChunksOf[t]
        /\ w.pc = "ingest" => w.next < w.total
    <2>1. LoopOf(w)
      BY DEF BaseInv, TypeInv, LoopInv
    <2> QED BY <2>1, ConstantsAssumption
            DEF LoopOf, OwnContent, ConstantsAssumption
  <1>i. Idle.pc = "idle"
    BY DEF Idle
  <1>1. CASE Opening(i, t, w, w1, r, r1)
    BY <1>t, <1>l, <1>1 DEF Opening, Carries, Trail, Ledger
  <1>2. CASE Counting(w, w1, r, r1)
    <2>1. CASE w1.pc = "fail" /\ r1 = r
      BY <1>t, <1>l, <1>2, <2>1 DEF Counting, Ledger
    <2>2. CASE w.pc = "total" /\ w1.pc \in {"loop", "fail"}
                 /\ r1.total = w.total /\ r1.done = r.done
      BY <1>t, <1>l, <1>c, <1>2, <2>2 DEF Counting, Carries, Trail, Ledger
    <2>3. CASE w.pc = "loop" /\ w1.pc \in {"ingest", "fail"} /\ ~w.expired
                 /\ w.next < w.total /\ r1.done = w.next + 1
                 /\ r1.total = r.total
      <3>1. w.next = r.done
        BY <2>3 DEF Level
      <3> QED BY <1>t, <1>l, <1>c, <1>2, <2>3, <3>1
              DEF Counting, Carries, Trail, Ledger
    <2>4. CASE w.pc = "loop" /\ w1.pc = "finish" /\ w.next >= w.total /\ r1 = r
      BY <1>t, <1>l, <1>c, <1>2, <2>4 DEF Counting, Carries, Trail, Ledger
    <2> QED BY <1>2, <2>1, <2>2, <2>3, <2>4 DEF Counting
  <1>3. CASE Ingesting(w, w1, r, r1)
    <2>1. w.next + 1 \in 1..MaxChunks /\ w.content = t
      BY <1>t, <1>c, <1>3 DEF Ingesting
    <2>2. UNCHANGED stored \/ Store(t, w.next + 1)
      BY <1>3, <2>1 DEF Ingesting
    <2> QED BY <1>t, <1>l, <1>3, <2>1, <2>2 DEF Ingesting, Trail, Ledger
  <1>4. CASE Ending(w, w1, r, r1)
    BY <1>t, <1>l, <1>i, <1>4 DEF Ending, Ledger
  <1>5. CASE Cleaning(i, t, w, w1, r, r1)
    BY <1>t, <1>l, <1>i, <1>5 DEF Cleaning, Ledger
  <1> QED BY <1>1, <1>2, <1>3, <1>4, <1>5 DEF Outcome

LEMMA WorkerStepProgress ==
    ASSUME BaseInv, OwnContent, Level, ProgressInv,
           NEW i \in Instances, NEW t \in Tasks, WorkerStep(i, t),
           NEW u \in Tasks
    PROVE  Ledger(u)' /\ \A j \in Instances : Trail(j, u)'
  <1>t. TypeOK /\ TypeInv /\ Ledger(u) /\ \A j \in Instances : Trail(j, u)
    BY DEF BaseInv, TypeInv, ProgressInv
  <1>1. Outcome(i, t) /\ OnlyThat(i, t)
    BY <1>t, WorkerOutcome DEF Outcome
  <1>2. /\ rows'[t].done \in {rows[t].done, rows[t].done + 1}
        /\ rows'[t].done <= ChunksOf[t]
        /\ rows'[t].total \in {rows[t].total, ChunksOf[t]}
        /\ rows'[t].status = "done" =>
              rows[t].status = "done" \/ work[i][t].pc = "finish"
        /\ \/ UNCHANGED stored
           \/ /\ work[i][t].pc = "ingest" /\ work'[i][t].pc # "ingest"
              /\ work[i][t].next + 1 \in 1..MaxChunks
              /\ Store(t, work[i][t].next + 1)
        /\ work'[i][t].pc \in {"open", "total", "loop"} =>
              work'[i][t].next <= rows'[t].done
        /\ work'[i][t].pc = "ingest" =>
              /\ work'[i][t].next + 1 = rows'[t].done
              /\ rows'[t].done = rows[t].done + 1
        /\ work'[i][t].pc \in {"loop", "ingest", "finish"} =>
              rows'[t].total = ChunksOf[t]
        /\ work'[i][t].pc = "finish" => rows'[t].done = ChunksOf[t]
    BY <1>1, ProgressMove
  <1>3. CASE u # t
    <2>1. stored'[u] = stored[u]
      BY <1>t, <1>2, <1>3, StoreEffect
    <2> QED BY <1>t, <1>1, <1>3, <2>1, ProgressFrame DEF OnlyThat
  <1>4. CASE u = t
    <2>t. /\ rows[t].done \in Nat /\ ChunksOf[t] \in Nat
          /\ ChunksOf[t] <= MaxChunks /\ MaxChunks \in Nat
          /\ \A k \in 1..MaxChunks : stored[t][k] \in 0..2
          /\ \A j \in Instances : work[j][t].next \in Nat
      BY <1>t, ProgressTypes
    <2>l. Ledger(t) /\ \A j \in Instances : Trail(j, t)
      BY <1>t, <1>4
    <2>1. \A k \in 1..MaxChunks :
             \/ stored'[t][k] = stored[t][k]
             \/ /\ work[i][t].pc = "ingest" /\ work'[i][t].pc # "ingest"
                /\ k = work[i][t].next + 1
                /\ stored'[t][k] = 1 /\ k <= rows[t].done
      <3>1. CASE UNCHANGED stored
        BY <3>1
      <3>2. CASE /\ work[i][t].pc = "ingest" /\ work'[i][t].pc # "ingest"
                 /\ work[i][t].next + 1 \in 1..MaxChunks
                 /\ Store(t, work[i][t].next + 1)
        <4>1. /\ stored'[t][work[i][t].next + 1] =
                    IF stored[t][work[i][t].next + 1] = 0 THEN 1 ELSE 2
              /\ \A l \in 1..MaxChunks :
                    l # work[i][t].next + 1 => stored'[t][l] = stored[t][l]
          BY <1>t, <3>2, StoreEffect
        <4>2. /\ stored[t][work[i][t].next + 1] = 0
              /\ work[i][t].next + 1 <= rows[t].done
          BY <2>l, <3>2 DEF Trail
        <4> QED BY <3>2, <4>1, <4>2
      <3> QED BY <1>2, <3>1, <3>2
    <2>2. Ledger(t)'
      <3>1. /\ \A k \in 1..MaxChunks : stored'[t][k] <= 1
            /\ \A k \in 1..MaxChunks : stored'[t][k] > 0 => k <= rows'[t].done
        BY <1>2, <2>t, <2>l, <2>1 DEF Ledger
      <3>2. rows'[t].status = "done" =>
               rows'[t].done = ChunksOf[t] /\ rows'[t].total = ChunksOf[t]
        BY <1>2, <2>t, <2>l DEF Ledger, Trail
      <3> QED BY <1>2, <3>1, <3>2 DEF Ledger
    <2>3. Trail(i, t)'
      <3>1. CASE work'[i][t].pc = "ingest"
        <4>1. stored'[t][work'[i][t].next + 1] = 0
          <5>1. work'[i][t].next + 1 \in 1..MaxChunks
            BY <1>2, <2>t, <3>1
          <5>2. stored[t][work'[i][t].next + 1] = 0
            BY <1>2, <2>t, <2>l, <3>1, <5>1 DEF Ledger
          <5> QED BY <2>1, <3>1, <5>1, <5>2
        <4>2. \A j \in Instances : j # i /\ work'[j][t].pc = "ingest" =>
                 work'[j][t].next # work'[i][t].next
          <5>1. \A j \in Instances : j # i => work'[j][t] = work[j][t]
            BY <1>1 DEF OnlyThat
          <5>2. \A j \in Instances : work[j][t].pc = "ingest" =>
                   work[j][t].next + 1 <= rows[t].done
            BY <2>l DEF Trail
          <5> QED BY <1>2, <2>t, <3>1, <5>1, <5>2
        <4> QED BY <1>2, <2>t, <3>1, <4>1, <4>2 DEF Trail
      <3>2. CASE work'[i][t].pc # "ingest"
        BY <1>2, <3>2 DEF Trail
      <3> QED BY <3>1, <3>2
    <2>4. ASSUME NEW j \in Instances, j # i PROVE Trail(j, t)'
      <3>1. work'[j][t] = work[j][t]
        BY <1>1, <2>4 DEF OnlyThat
      <3>2. /\ rows'[t].done >= rows[t].done
            /\ rows[t].done = ChunksOf[t] => rows'[t].done = ChunksOf[t]
            /\ rows[t].total = ChunksOf[t] => rows'[t].total = ChunksOf[t]
        BY <1>2, <2>t
      <3>3. work[j][t].pc = "ingest" =>
               /\ stored'[t][work[j][t].next + 1] = 0
               /\ \A k \in Instances : k # j /\ work'[k][t].pc = "ingest" =>
                     work'[k][t].next # work[j][t].next
        <4> SUFFICES ASSUME work[j][t].pc = "ingest"
                     PROVE  /\ stored'[t][work[j][t].next + 1] = 0
                            /\ \A k \in Instances :
                                  k # j /\ work'[k][t].pc = "ingest" =>
                                     work'[k][t].next # work[j][t].next
          OBVIOUS
        <4>1. /\ work[j][t].next + 1 <= rows[t].done
              /\ stored[t][work[j][t].next + 1] = 0
              /\ \A k \in Instances : k # j /\ work[k][t].pc = "ingest" =>
                    work[k][t].next # work[j][t].next
          BY <2>l DEF Trail
        <4>2. work[j][t].next + 1 \in 1..MaxChunks
          BY <2>t, <2>l, <4>1 DEF Ledger
        <4>3. stored'[t][work[j][t].next + 1] = 0
          BY <2>1, <2>4, <2>t, <4>1, <4>2
        <4>4. ASSUME NEW k \in Instances, k # j, work'[k][t].pc = "ingest"
              PROVE  work'[k][t].next # work[j][t].next
          <5>1. CASE k = i
            BY <1>2, <2>t, <4>1, <4>4, <5>1
          <5>2. CASE k # i
            BY <1>1, <4>1, <4>4, <5>2 DEF OnlyThat
          <5> QED BY <5>1, <5>2
        <4> QED BY <4>3, <4>4
      <3>4. /\ rows'[t].done \in Nat /\ work[j][t].next \in Nat
        BY <1>2, <2>t
      <3> QED BY <2>l, <2>t, <3>1, <3>2, <3>3, <3>4 DEF Trail
    <2> QED BY <1>4, <2>2, <2>3, <2>4
  <1> QED BY <1>3, <1>4

LEMMA ProgressStep ==
    ASSUME BaseInv, OwnContent, Level, ProgressInv, [Next]_vars
    PROVE  ProgressInv'
  <1> SUFFICES ASSUME NEW t \in Tasks
               PROVE  Ledger(t)' /\ \A i \in Instances : Trail(i, t)'
    BY DEF ProgressInv
  <1>t. /\ TypeOK /\ UploadOK(t) /\ Ledger(t) /\ \A i \in Instances : Trail(i, t)
    BY DEF BaseInv, TypeInv, ProgressInv
  <1>f. CASE UNCHANGED <<rows, work, stored>>
    BY <1>t, <1>f, ProgressFrame
  <1>1. ASSUME NEW u \in Tasks, InsertRow(u) \/ InsertError(u)
        PROVE  Ledger(t)' /\ \A i \in Instances : Trail(i, t)'
    <2>1. /\ UNCHANGED <<work, stored>> /\ upload[u].pc = "stored"
          /\ UNCHANGED rows \/ Insert(u)
      BY <1>1 DEF InsertRow, InsertError
    <2>2. CASE Insert(u) /\ u = t
      <3>1. rows[t].done = 0 /\ rows[t].total = 0
        BY <1>t, <2>1, <2>2 DEF UploadOK, NoRow
      <3>2. /\ rows'[t].done = 0 /\ rows'[t].total = 0
            /\ rows'[t].status = "pending"
        BY <1>t, <2>2, InsertEffect
      <3> QED BY <1>t, <2>1, <3>1, <3>2, ProgressFrame
    <2>3. CASE Insert(u) /\ u # t
      <3>1. rows'[t] = rows[t]
        BY <1>t, <2>3, InsertEffect
      <3> QED BY <1>t, <2>1, <3>1, ProgressFrame
    <2> QED BY <1>f, <2>1, <2>2, <2>3
  <1>2. ASSUME NEW u \in Tasks, AgeRow(u)
        PROVE  Ledger(t)' /\ \A i \in Instances : Trail(i, t)'
    <2>1. /\ UNCHANGED <<work, stored>>
          /\ rows'[t].done = rows[t].done /\ rows'[t].total = rows[t].total
          /\ rows'[t].status = "done" => rows[t].status = "done"
      BY <1>t, <1>2, AgeRowEffect
    <2> QED BY <1>t, <2>1, ProgressFrame
  <1>3. ASSUME NEW i \in Instances, NEW u \in Tasks, Expire(i, u)
        PROVE  Ledger(t)' /\ \A j \in Instances : Trail(j, t)'
    <2>1. /\ UNCHANGED <<rows, stored>>
          /\ \A j \in Instances : /\ work'[j][t].pc = work[j][t].pc
                                  /\ work'[j][t].next = work[j][t].next
      BY <1>t, <1>3, ExpireEffect
    <2> QED BY <1>t, <2>1, ProgressFrame
  <1>4. ASSUME NEW i \in Instances, ResetProcessing(i) \/ ResetError(i)
        PROVE  Ledger(t)' /\ \A j \in Instances : Trail(j, t)'
    <2>1. /\ rows'[t].done = rows[t].done /\ rows'[t].total = rows[t].total
          /\ rows'[t].status = "done" => rows[t].status = "done"
      BY <1>t, <1>4, ResetEffect
    <2>2. UNCHANGED <<work, stored>>
      BY <1>4 DEF ResetProcessing, ResetError
    <2> QED BY <1>t, <2>1, <2>2, ProgressFrame
  <1>5. ASSUME NEW i \in Instances, FetchPending(i)
        PROVE  Ledger(t)' /\ \A j \in Instances : Trail(j, t)'
    <2>1. /\ \A j \in Instances : j # i => work'[j][t] = work[j][t]
          /\ rows'[t].done = rows[t].done /\ rows'[t].total = rows[t].total
          /\ rows'[t].status = "done" => rows[t].status = "done"
          /\ \/ work'[i][t].pc = "idle"
             \/ work'[i][t].pc = "open" /\ work'[i][t].next = rows[t].done
      BY <1>t, <1>5, FetchEffect DEF Busy
    <2>2. UNCHANGED stored
      BY <1>5 DEF FetchPending
    <2> QED BY <1>t, <2>1, <2>2, ProgressFrame
  <1>6. ASSUME NEW i \in Instances, Stop(i)
        PROVE  Ledger(t)' /\ \A j \in Instances : Trail(j, t)'
    <2>1. /\ \A j \in Instances : work'[j][t] = work[j][t] \/ work'[j][t].pc = "idle"
          /\ UNCHANGED <<rows, stored>>
      BY <1>t, <1>6, StopEffect DEF Idle
    <2> QED BY <1>t, <2>1, ProgressFrame
  <1>7. ASSUME NEW u \in Tasks, StoreFile(u) \/ UndoFile(u)
        PROVE  UNCHANGED <<rows, work, stored>>
    BY <1>7 DEF StoreFile, UndoFile
  <1>8. ASSUME NEW i \in Instances, StartProcess(i) \/ Shutdown(i)
        PROVE  UNCHANGED <<rows, work, stored>>
    BY <1>8 DEF StartProcess, Shutdown
  <1>9. CASE UNCHANGED vars
    BY <1>f, <1>9 DEF vars
  <1> QED BY <1>f, <1>1, <1>2, <1>3, <1>4, <1>5, <1>6, <1>7, <1>8, <1>9,
             WorkerStepProgress DEF Next

\* With one owner per row, a goroutine's index is exactly its row's checkpoint.
ExactAt(i, t) ==
    /\ work[i][t].pc \in {"open", "total", "loop"} =>
          work[i][t].next = rows[t].done
    /\ work[i][t].pc = "ingest" => work[i][t].next + 1 = rows[t].done

Exact == \A i \in Instances, t \in Tasks : ExactAt(i, t)

LEMMA ExactFrame ==
    ASSUME NEW i \in Instances, NEW t \in Tasks, ExactAt(i, t),
           rows'[t].done = rows[t].done,
           \/ work'[i][t].pc = work[i][t].pc
                /\ work'[i][t].next = work[i][t].next
           \/ work'[i][t].pc = "idle"
           \/ work'[i][t].pc = "open" /\ work'[i][t].next = rows[t].done
    PROVE  ExactAt(i, t)'
  BY DEF ExactAt

LEMMA WorkerStepExact ==
    ASSUME OwnerInv, Exact, NEW i \in Instances, NEW t \in Tasks, WorkerStep(i, t),
           NEW j \in Instances, NEW u \in Tasks
    PROVE  ExactAt(j, u)'
  <1>t. TypeInv /\ TypeOK /\ ExactAt(i, t) /\ ExactAt(j, u)
    BY DEF OwnerInv, TypeInv, Exact
  <1>1. Outcome(i, t) /\ OnlyThat(i, t)
    BY <1>t, WorkerOutcome DEF Outcome
  <1>2. CASE u # t
    BY <1>t, <1>1, <1>2, ExactFrame DEF OnlyThat
  <1>3. CASE u = t /\ j # i
    <2>1. Busy(i, t)
      BY <1>1 DEF Outcome, Opening, Counting, Ingesting, Ending, Cleaning, Busy
    <2>2. ~Busy(j, t)
      BY <1>3, <2>1 DEF OwnerInv, SingleOwner, Owners
    <2> QED BY <1>1, <1>3, <2>2 DEF OnlyThat, Busy, ExactAt
  <1>4. CASE u = t /\ j = i
    <2>i. Idle.pc = "idle"
      BY DEF Idle
    <2> QED BY <1>t, <1>1, <1>4, <2>i
            DEF Outcome, Opening, Counting, Ingesting, Ending, Cleaning, Carries,
                ExactAt
  <1> QED BY <1>2, <1>3, <1>4

LEMMA ExactStep ==
    ASSUME BaseInv, OwnerInv, Exact, [Next]_vars PROVE Exact'
  <1> SUFFICES ASSUME NEW j \in Instances, NEW t \in Tasks PROVE ExactAt(j, t)'
    BY DEF Exact
  <1>t. TypeOK /\ UploadOK(t) /\ ExactAt(j, t)
    BY DEF BaseInv, TypeInv, Exact
  <1>f. CASE UNCHANGED <<rows, work>>
    BY <1>t, <1>f, ExactFrame
  <1>1. ASSUME NEW u \in Tasks, InsertRow(u) \/ InsertError(u)
        PROVE  ExactAt(j, t)'
    <2>1. /\ UNCHANGED work /\ upload[u].pc = "stored"
          /\ UNCHANGED rows \/ Insert(u)
      BY <1>1 DEF InsertRow, InsertError
    <2>2. CASE Insert(u) /\ u = t
      BY <1>t, <2>1, <2>2 DEF UploadOK, Busy, ExactAt
    <2>3. CASE Insert(u) /\ u # t
      BY <1>t, <2>1, <2>3, InsertEffect, ExactFrame
    <2> QED BY <1>f, <2>1, <2>2, <2>3
  <1>2. ASSUME NEW u \in Tasks, AgeRow(u) PROVE ExactAt(j, t)'
    BY <1>t, <1>2, AgeRowEffect, ExactFrame
  <1>3. ASSUME NEW i \in Instances, NEW u \in Tasks, Expire(i, u)
        PROVE  ExactAt(j, t)'
    BY <1>t, <1>3, ExpireEffect, ExactFrame
  <1>4. ASSUME NEW i \in Instances, ResetProcessing(i) \/ ResetError(i)
        PROVE  ExactAt(j, t)'
    <2>1. rows'[t].done = rows[t].done
      BY <1>t, <1>4, ResetEffect
    <2>2. UNCHANGED work
      BY <1>4 DEF ResetProcessing, ResetError
    <2> QED BY <1>t, <2>1, <2>2, ExactFrame
  <1>5. ASSUME NEW i \in Instances, FetchPending(i) PROVE ExactAt(j, t)'
    <2>1. /\ rows'[t].done = rows[t].done
          /\ \/ work'[j][t] = work[j][t]
             \/ work'[j][t].pc = "idle"
             \/ work'[j][t].pc = "open" /\ work'[j][t].next = rows[t].done
      BY <1>t, <1>5, FetchEffect DEF Busy
    <2> QED BY <1>t, <2>1, ExactFrame
  <1>6. ASSUME NEW i \in Instances, Stop(i) PROVE ExactAt(j, t)'
    <2>1. /\ work'[j][t] = work[j][t] \/ work'[j][t].pc = "idle"
          /\ UNCHANGED rows
      BY <1>t, <1>6, StopEffect DEF Idle
    <2> QED BY <1>t, <2>1, ExactFrame
  <1>7. ASSUME NEW u \in Tasks, StoreFile(u) \/ UndoFile(u)
        PROVE  UNCHANGED <<rows, work>>
    BY <1>7 DEF StoreFile, UndoFile
  <1>8. ASSUME NEW i \in Instances, StartProcess(i) \/ Shutdown(i)
        PROVE  UNCHANGED <<rows, work>>
    BY <1>8 DEF StartProcess, Shutdown
  <1>9. CASE UNCHANGED vars
    BY <1>f, <1>9 DEF vars
  <1> QED BY <1>f, <1>1, <1>2, <1>3, <1>4, <1>5, <1>6, <1>7, <1>8, <1>9,
             WorkerStepExact DEF Next

\* The invariant of a pipeline whose workers report in time.
PromptInv == FileInv /\ OwnContent /\ Exact /\ ProgressInv

LEMMA InitProgress == ASSUME Init PROVE Exact /\ ProgressInv
  <1>1. \A i \in Instances, t \in Tasks : work[i][t].pc = "idle"
    BY DEF Init, Idle
  <1>2. \A t \in Tasks : /\ rows[t].status = "none" /\ rows[t].done = 0
                         /\ \A k \in 1..MaxChunks : stored[t][k] = 0
    BY DEF Init, NoRow
  <1>3. \A t \in Tasks : ChunksOf[t] \in Nat
    BY ConstantsAssumption DEF ConstantsAssumption
  <1> QED BY <1>1, <1>2, <1>3 DEF Exact, ExactAt, ProgressInv, Ledger, Trail

LEMMA PromptStep ==
    ASSUME Prompt, FilesApart PROVE PromptInv /\ [Next]_vars => PromptInv'
  <1> SUFFICES ASSUME PromptInv, [Next]_vars PROVE PromptInv'
    OBVIOUS
  <1>t. FileInv /\ BaseInv /\ TypeInv /\ OwnerInv
    BY DEF PromptInv, FileInv, BaseInv
  <1>1. FileInv'
    BY <1>t, FileStep
  <1>2. OwnContent'
    <2>1. ReadsOwn
      BY <1>t, ReadsOwnByName, ReadsOwnByClaim DEF FilesApart
    <2> QED BY <1>t, <2>1, ContentStep DEF PromptInv
  <1>3. Exact'
    BY <1>t, ExactStep DEF PromptInv
  <1>4. ProgressInv'
    <2>1. Level
      BY DEF PromptInv, Exact, ExactAt, Level
    <2> QED BY <1>t, <2>1, ProgressStep DEF PromptInv
  <1> QED BY <1>1, <1>2, <1>3, <1>4 DEF PromptInv

-----------------------------------------------------------------------------
(* Chunks are taken once though workers are slow                           *)

\* A slow worker outlives the context of its task and meets the next owner of
\* its row.  Without a live context it can write no checkpoint: what matters is
\* that at most one goroutine of a task is live and has read, or can still
\* read, the file.
Live(i, t) == /\ work[i][t].pc \in {"open", "total", "loop", "ingest"}
              /\ ~work[i][t].expired
Able(i, t) == Live(i, t) /\ (work[i][t].pc = "open" => FileAt(i, t) # NoTask)

\* Where the file is gone, a goroutine with an expired context may have queued
\* the row again; whoever fetches it then finds no file either.
AloneAt(t) == \A i \in Instances :
    /\ Able(i, t) =>
          /\ \A j \in Instances : Able(j, t) => i = j
          /\ FileAt(i, t) # NoTask => rows[t].status # "pending"
          /\ ~rows[t].stale
          /\ ExactAt(i, t)
    /\ work[i][t].pc = "requeue" => FileAt(i, t) = NoTask

AloneInv == \A t \in Tasks : AloneAt(t)

\* Nobody puts a file where a goroutine found none.
LEMMA FileGoneStays ==
    ASSUME BaseInv, NamesApart, [Next]_vars, NEW i \in Instances, NEW t \in Tasks,
           Busy(i, t), FileAt(i, t) = NoTask
    PROVE  FileAt(i, t)' = NoTask
  <1>t. TypeOK /\ TypeInv /\ \A u \in Tasks : UploadOK(u)
    BY DEF BaseInv, TypeInv
  <1>b. rows[t].status # "none"
    BY <1>t DEF UploadOK
  <1>f. CASE upload'[t].path = upload[t].path /\ UNCHANGED disk
    BY <1>f DEF FileAt
  <1>1. ASSUME NEW u \in Tasks, StoreFile(u) PROVE FileAt(i, t)' = NoTask
    <2>1. /\ upload[u].pc = "new"
          /\ \A v \in Tasks : v # u => upload'[v] = upload[v]
          /\ upload'[u].path \in {Plain(u), Suffixed(u)}
          /\ \A e \in Disks, q \in Paths :
                e # DiskOfUpload(u) \/ q # upload'[u].path =>
                   disk'[e][q] = disk[e][q]
      BY <1>t, <1>1, StoreFileEffect
    <2>2. u # t
      BY <1>t, <1>b, <2>1 DEF UploadOK
    <2>3. upload[t].path # upload'[u].path
      BY <1>t, <2>1, <2>2 DEF NamesApart, UploadOK, Plain, Suffixed
    <2> QED BY <1>t, <2>1, <2>2, <2>3, PlacesTyped DEF FileAt
  <1>2. ASSUME NEW u \in Tasks, InsertRow(u) \/ InsertError(u)
        PROVE  upload'[t].path = upload[t].path /\ UNCHANGED disk
    BY <1>t, <1>2, UploadEffect DEF InsertRow, InsertError
  <1>3. ASSUME NEW d \in Disks, NEW p \in Paths, Remove(d, p),
               upload'[t].path = upload[t].path
        PROVE  FileAt(i, t)' = NoTask
    BY <1>t, <1>3, RemoveEffect, PlacesTyped DEF FileAt
  <1>4. ASSUME NEW u \in Tasks, UndoFile(u) PROVE FileAt(i, t)' = NoTask
    <2>1. upload'[t].path = upload[t].path
      BY <1>t, <1>4, UploadEffect DEF UndoFile
    <2>2. UNCHANGED disk \/ Remove(DiskOfUpload(u), upload[u].path)
      BY <1>4 DEF UndoFile
    <2> QED BY <1>f, <1>3, <1>t, <2>1, <2>2, PlacesTyped
  <1>5. ASSUME NEW u \in Tasks, AgeRow(u)
        PROVE  upload'[t].path = upload[t].path /\ UNCHANGED disk
    BY <1>5 DEF AgeRow
  <1>6. ASSUME NEW k \in Instances,
               \/ StartProcess(k) \/ ResetProcessing(k) \/ ResetError(k)
               \/ FetchPending(k) \/ Shutdown(k)
        PROVE  upload'[t].path = upload[t].path /\ UNCHANGED disk
    BY <1>6 DEF StartProcess, ResetProcessing, ResetError, FetchPending, Shutdown
  <1>7. ASSUME NEW k \in Instances, Stop(k)
        PROVE  upload'[t].path = upload[t].path /\ UNCHANGED disk
    BY <1>t, <1>7, StopEffect
  <1>8. ASSUME NEW k \in Instances, NEW u \in Tasks, WorkerStep(k, u)
        PROVE  FileAt(i, t)' = NoTask
    <2>1. Outcome(k, u)
      BY <1>t, <1>8, WorkerOutcome
    <2>2. /\ upload'[t].path = upload[t].path
          /\ UNCHANGED disk \/ Remove(DiskOf[k], upload[u].path)
      BY <2>1 DEF Outcome, OnlyThat, Opening, Counting, Ingesting, Ending, Cleaning
    <2> QED BY <1>f, <1>3, <1>t, <2>2, PlacesTyped
  <1>9. ASSUME NEW k \in Instances, NEW u \in Tasks, Expire(k, u)
        PROVE  upload'[t].path = upload[t].path /\ UNCHANGED disk
    BY <1>9 DEF Expire
  <1>10. CASE UNCHANGED vars
    BY <1>f, <1>10 DEF vars
  <1> QED BY <1>f, <1>1, <1>2, <1>4, <1>5, <1>6, <1>7, <1>8, <1>9, <1>10 DEF Next

\* A step that moves no goroutine of a task, except to end it or to expire it.
LEMMA AloneFrame ==
    ASSUME BaseInv, NamesApart, [Next]_vars, NEW t \in Tasks, AloneAt(t),
           rows'[t].done = rows[t].done,
           rows'[t].status = "pending" => rows[t].status = "pending" \/ rows[t].stale,
           rows'[t].stale =>
              rows[t].stale \/ \A i \in Instances : ~Able(i, t),
           \A i \in Instances :
              \/ /\ work'[i][t].pc = work[i][t].pc
                 /\ work'[i][t].next = work[i][t].next
                 /\ ~work'[i][t].expired => ~work[i][t].expired
              \/ work'[i][t].pc = "idle"
    PROVE  AloneAt(t)'
  <1>1. ASSUME NEW i \in Instances
        PROVE  /\ Live(i, t)' => Live(i, t)
               /\ Able(i, t)' => Able(i, t) /\ work'[i][t].next = work[i][t].next
                                   /\ work'[i][t].pc = work[i][t].pc
               /\ work'[i][t].pc = "requeue" => work[i][t].pc = "requeue"
               /\ Busy(i, t) /\ FileAt(i, t) = NoTask => FileAt(i, t)' = NoTask
    <2>1. Busy(i, t) /\ FileAt(i, t) = NoTask => FileAt(i, t)' = NoTask
      BY FileGoneStays
    <2>2. Live(i, t)' => /\ Live(i, t) /\ work'[i][t].pc = work[i][t].pc
                         /\ work'[i][t].next = work[i][t].next
      BY DEF Live
    <2>3. Able(i, t)' => Able(i, t)
      BY <2>1, <2>2 DEF Able, Live, Busy
    <2>4. work'[i][t].pc = "requeue" => work[i][t].pc = "requeue"
      OBVIOUS
    <2>5. Able(i, t)' => Live(i, t)'
      BY DEF Able
    <2> QED BY <2>1, <2>2, <2>3, <2>4, <2>5
  <1>2. ASSUME NEW i \in Instances, Able(i, t)'
        PROVE  /\ \A j \in Instances : Able(j, t)' => i = j
               /\ FileAt(i, t)' # NoTask => rows'[t].status # "pending"
               /\ ~rows'[t].stale
               /\ ExactAt(i, t)'
    <2>1. /\ Able(i, t) /\ work'[i][t].next = work[i][t].next
          /\ work'[i][t].pc = work[i][t].pc
      BY <1>1, <1>2
    <2>2. /\ \A j \in Instances : Able(j, t) => i = j
          /\ FileAt(i, t) # NoTask => rows[t].status # "pending"
          /\ ~rows[t].stale
          /\ ExactAt(i, t)
      BY <2>1 DEF AloneAt
    <2>3. ExactAt(i, t)'
      BY <2>1, <2>2 DEF ExactAt
    <2>4. FileAt(i, t)' # NoTask => FileAt(i, t) # NoTask
      BY <1>1, <2>1 DEF Able, Live, Busy
    <2> QED BY <1>1, <2>1, <2>2, <2>3, <2>4
  <1>3. ASSUME NEW i \in Instances, work'[i][t].pc = "requeue"
        PROVE  FileAt(i, t)' = NoTask
    BY <1>1, <1>3 DEF AloneAt, Busy
  <1> QED BY <1>2, <1>3 DEF AloneAt

LEMMA WorkerStepAlone ==
    ASSUME BaseInv, NamesApart, OneDisk, AloneInv, [Next]_vars,
           NEW i \in Instances, NEW t \in Tasks, WorkerStep(i, t)
    PROVE  AloneAt(t)'
  <1>t. TypeOK /\ TypeInv /\ AloneAt(t)
    BY DEF BaseInv, TypeInv, AloneInv
  <1>n. NoTask \notin Tasks /\ Idle.pc = "idle"
    BY ConstantsAssumption DEF ConstantsAssumption, Idle
  <1>1. Outcome(i, t) /\ OnlyThat(i, t)
    BY <1>t, WorkerOutcome DEF Outcome
  <1>2. rows'[t].stale => rows[t].stale
    BY <1>t, WorkerStepEffect DEF WorkerEffect
  <1>3. ASSUME NEW j \in Instances
        PROVE  Busy(j, t) /\ FileAt(j, t) = NoTask => FileAt(j, t)' = NoTask
    BY FileGoneStays
  <1>4. /\ Able(i, t)' => Able(i, t) /\ ExactAt(i, t)'
        /\ work'[i][t].pc = "requeue" => FileAt(i, t) = NoTask /\ Busy(i, t)
        /\ rows'[t].status = "pending" =>
              rows[t].status = "pending" \/ work[i][t].pc = "requeue"
        /\ rows'[t].done = rows[t].done \/ Able(i, t)
    <2>1. CASE Opening(i, t, work[i][t], work'[i][t], rows[t], rows'[t])
      <3>1. /\ Live(i, t)' => Live(i, t)
            /\ work'[i][t].pc # "open"
            /\ work'[i][t].pc = "total" =>
                  FileAt(i, t) # NoTask /\ work'[i][t].next = work[i][t].next
            /\ work'[i][t].pc = "requeue" => FileAt(i, t) = NoTask /\ Busy(i, t)
            /\ rows'[t] = rows[t] /\ work[i][t].pc = "open"
            /\ work'[i][t].pc \in {"fail", "requeue", "total"}
        BY <1>n, <2>1 DEF Opening, Live, Carries, Busy
      <3>2. Able(i, t)' => Able(i, t) /\ work'[i][t].pc = "total"
        BY <3>1 DEF Able, Live
      <3>3. Able(i, t)' => ExactAt(i, t)'
        BY <1>t, <3>1, <3>2 DEF AloneAt, ExactAt
      <3> QED BY <3>1, <3>2, <3>3
    <2>2. CASE Counting(work[i][t], work'[i][t], rows[t], rows'[t])
      <3>1. /\ Live(i, t)' => Able(i, t)
            /\ work'[i][t].pc # "requeue" /\ rows'[t].status = rows[t].status
            /\ rows'[t].done = rows[t].done \/ Able(i, t)
        BY <2>2 DEF Counting, Live, Able, Carries
      <3>2. Able(i, t)' => Able(i, t)
        BY <3>1 DEF Able
      <3>3. Able(i, t)' => ExactAt(i, t)'
        BY <1>t, <2>2, <3>2 DEF Counting, Carries, AloneAt, ExactAt, Able, Live
      <3> QED BY <3>1, <3>2, <3>3
    <2>3. CASE Ingesting(work[i][t], work'[i][t], rows[t], rows'[t])
      <3>1. /\ Live(i, t)' => Able(i, t)
            /\ work'[i][t].pc # "requeue" /\ rows'[t] = rows[t]
        BY <2>3 DEF Ingesting, Live, Able
      <3>2. Able(i, t)' => Able(i, t)
        BY <3>1 DEF Able
      <3>3. Able(i, t)' => ExactAt(i, t)'
        BY <1>t, <2>3, <3>2 DEF Ingesting, AloneAt, ExactAt, Able, Live
      <3> QED BY <3>1, <3>2, <3>3
    <2>4. CASE \/ Ending(work[i][t], work'[i][t], rows[t], rows'[t])
               \/ Cleaning(i, t, work[i][t], work'[i][t], rows[t], rows'[t])
      <3>1. /\ work'[i][t].pc \in {"idle", "clean"}
            /\ rows'[t].done = rows[t].done
            /\ rows'[t].status = "pending" =>
                  rows[t].status = "pending" \/ work[i][t].pc = "requeue"
        BY <1>n, <2>4 DEF Ending, Cleaning
      <3> QED BY <3>1 DEF Live, Able
    <2> QED BY <1>1, <2>1, <2>2, <2>3, <2>4 DEF Outcome
  <1>5. ASSUME NEW j \in Instances, j # i
        PROVE  /\ work'[j][t] = work[j][t]
               /\ Able(j, t)' => Able(j, t)
    <2>1. work'[j][t] = work[j][t]
      BY <1>1, <1>5 DEF OnlyThat
    <2> QED BY <1>3, <2>1 DEF Live, Able, Busy
  <1>6. ASSUME NEW k \in Instances, Able(k, t)'
        PROVE  /\ \A j \in Instances : Able(j, t)' => k = j
               /\ FileAt(k, t)' # NoTask => rows'[t].status # "pending"
               /\ ~rows'[t].stale
               /\ ExactAt(k, t)'
    <2>1. Able(k, t)
      BY <1>4, <1>5, <1>6
    <2>2. /\ \A j \in Instances : Able(j, t) => k = j
          /\ FileAt(k, t) # NoTask => rows[t].status # "pending"
          /\ ~rows[t].stale
          /\ ExactAt(k, t)
      BY <1>t, <2>1 DEF AloneAt
    <2>3. \A j \in Instances : Able(j, t)' => k = j
      BY <1>4, <1>5, <2>2
    <2>4. ASSUME FileAt(k, t)' # NoTask PROVE rows'[t].status # "pending"
      <3>1. FileAt(k, t) # NoTask
        BY <1>3, <2>1, <2>4 DEF Able, Live, Busy
      <3>2. FileAt(i, t) = FileAt(k, t)
        BY DEF OneDisk, FileAt
      <3>3. work[i][t].pc # "requeue"
        BY <1>t, <3>1, <3>2 DEF AloneAt
      <3> QED BY <1>4, <2>2, <3>1, <3>3
    <2>5. ExactAt(k, t)'
      <3>1. CASE k = i
        BY <1>4, <1>6, <3>1
      <3>2. CASE k # i
        <4>1. rows'[t].done = rows[t].done
          BY <1>4, <2>2, <3>2
        <4> QED BY <1>5, <2>2, <3>2, <4>1 DEF ExactAt
      <3> QED BY <3>1, <3>2
    <2> QED BY <1>2, <2>2, <2>3, <2>4, <2>5
  <1>7. ASSUME NEW j \in Instances, work'[j][t].pc = "requeue"
        PROVE  FileAt(j, t)' = NoTask
    <2>1. CASE j = i
      BY <1>3, <1>4, <1>7, <2>1
    <2>2. CASE j # i
      BY <1>t, <1>3, <1>5, <1>7, <2>2 DEF AloneAt, Busy
    <2> QED BY <2>1, <2>2
  <1> QED BY <1>6, <1>7 DEF AloneAt

LEMMA FetchAlone ==
    ASSUME BaseInv, NamesApart, OneDisk, AloneInv, [Next]_vars,
           NEW i \in Instances, FetchPending(i), NEW t \in Tasks
    PROVE  AloneAt(t)'
  <1>t. TypeOK /\ AloneAt(t)
    BY DEF BaseInv, TypeInv, AloneInv
  <1>1. /\ ~Busy(i, t)
        /\ \A j \in Instances : j # i => work'[j][t] = work[j][t]
        /\ \/ rows'[t] = rows[t] /\ ~Busy(i, t)'
           \/ /\ rows[t].status = "pending" /\ rows'[t].status = "processing"
              /\ ~rows'[t].stale /\ rows'[t].done = rows[t].done
              /\ \/ ~Busy(i, t)'
                 \/ /\ work'[i][t].pc = "open"
                    /\ work'[i][t].next = rows[t].done
    BY <1>t, FetchEffect
  <1>2. CASE ~Busy(i, t)'
    BY <1>t, <1>1, <1>2, AloneFrame DEF Busy
  <1>3. CASE /\ rows[t].status = "pending" /\ rows'[t].status = "processing"
             /\ ~rows'[t].stale /\ rows'[t].done = rows[t].done
             /\ work'[i][t].pc = "open" /\ work'[i][t].next = rows[t].done
    <2>1. \A j \in Instances : FileAt(j, t)' = FileAt(j, t)
                                 /\ FileAt(j, t) = FileAt(i, t)
      BY DEF FetchPending, FileAt, OneDisk
    <2>2. \A j \in Instances : Able(j, t) => FileAt(j, t) = NoTask
      BY <1>t, <1>3 DEF AloneAt
    <2>3. \A j \in Instances : j # i /\ Able(j, t)' => Able(j, t)
      BY <1>1, <2>1 DEF Able, Live
    <2>4. Able(i, t)' => FileAt(i, t) # NoTask
      BY <1>3, <2>1 DEF Able
    <2>5. ASSUME NEW k \in Instances, Able(k, t)'
          PROVE  (\A j \in Instances : Able(j, t)' => k = j) /\ ExactAt(k, t)'
      <3>1. CASE k = i
        <4>1. \A j \in Instances : j # i => ~Able(j, t)'
          BY <2>1, <2>2, <2>3, <2>4, <2>5, <3>1
        <4> QED BY <1>3, <3>1, <4>1 DEF ExactAt
      <3>2. CASE k # i
        <4>1. Able(k, t) /\ FileAt(i, t) = NoTask
          BY <2>1, <2>2, <2>3, <2>5, <3>2
        <4>2. \A j \in Instances : Able(j, t)' => Able(j, t)
          BY <2>3, <2>4, <4>1
        <4>3. ExactAt(k, t) /\ \A j \in Instances : Able(j, t) => k = j
          BY <1>t, <4>1 DEF AloneAt
        <4> QED BY <1>1, <1>3, <3>2, <4>2, <4>3 DEF ExactAt
      <3> QED BY <3>1, <3>2
    <2>6. ASSUME NEW j \in Instances, work'[j][t].pc = "requeue"
          PROVE  FileAt(j, t)' = NoTask
      <3>1. work[j][t].pc = "requeue"
        BY <1>1, <1>3, <2>6
      <3> QED BY <1>t, <2>1, <3>1 DEF AloneAt
    <2> QED BY <1>3, <2>5, <2>6 DEF AloneAt
  <1> QED BY <1>1, <1>2, <1>3

LEMMA AloneStep ==
    ASSUME BaseInv, NamesApart, OneDisk, AloneInv, [Next]_vars PROVE AloneInv'
  <1> SUFFICES ASSUME NEW t \in Tasks PROVE AloneAt(t)'
    BY DEF AloneInv
  <1>t. TypeOK /\ TypeInv /\ UploadOK(t) /\ AloneAt(t)
    BY DEF BaseInv, TypeInv, AloneInv
  <1>f. CASE rows'[t] = rows[t] /\ \A i \in Instances : work'[i][t] = work[i][t]
    BY <1>t, <1>f, AloneFrame
  <1>1. ASSUME NEW u \in Tasks, InsertRow(u) \/ InsertError(u) PROVE AloneAt(t)'
    <2>1. /\ UNCHANGED work /\ upload[u].pc = "stored"
          /\ UNCHANGED rows \/ Insert(u)
      BY <1>1 DEF InsertRow, InsertError
    <2>2. CASE Insert(u) /\ u = t
      <3>1. \A i \in Instances : work'[i][t].pc = "idle"
        BY <1>t, <2>1, <2>2 DEF UploadOK, Busy
      <3> QED BY <3>1 DEF AloneAt, Able, Live
    <2>3. CASE Insert(u) /\ u # t
      <3>1. rows'[t] = rows[t]
        BY <1>t, <2>3, InsertEffect
      <3> QED BY <1>f, <2>1, <3>1
    <2> QED BY <1>f, <2>1, <2>2, <2>3
  <1>2. ASSUME NEW u \in Tasks, AgeRow(u) PROVE AloneAt(t)'
    <2>1. CASE u = t
      <3>1. \A i \in Instances : ~Able(i, t)
        BY <1>2, <2>1 DEF AgeRow, Owners, Busy, Able, Live
      <3>2. /\ rows'[t].done = rows[t].done /\ rows'[t].status = "processing"
            /\ UNCHANGED work
        BY <1>t, <1>2, <2>1, AgeRowEffect
      <3> QED BY <1>t, <3>1, <3>2, AloneFrame
    <2>2. CASE u # t
      BY <1>t, <1>f, <1>2, <2>2, AgeRowEffect
    <2> QED BY <2>1, <2>2
  <1>3. ASSUME NEW i \in Instances, NEW u \in Tasks, Expire(i, u)
        PROVE  AloneAt(t)'
    <2>1. /\ UNCHANGED rows
          /\ \A j \in Instances :
                /\ work'[j][t].pc = work[j][t].pc
                /\ work'[j][t].next = work[j][t].next
                /\ ~work'[j][t].expired => ~work[j][t].expired
      BY <1>t, <1>3, ExpireEffect
    <2> QED BY <1>t, <2>1, AloneFrame
  <1>4. ASSUME NEW i \in Instances, ResetProcessing(i) \/ ResetError(i)
        PROVE  AloneAt(t)'
    <2>1. \/ rows'[t] = rows[t]
          \/ /\ rows[t].stale /\ rows'[t].done = rows[t].done
             /\ ~rows'[t].stale
      BY <1>t, <1>4, ResetEffect
    <2>2. UNCHANGED work
      BY <1>4 DEF ResetProcessing, ResetError
    <2> QED BY <1>t, <2>1, <2>2, AloneFrame
  <1>5. ASSUME NEW i \in Instances, Stop(i) PROVE AloneAt(t)'
    <2>1. /\ \A j \in Instances : work'[j][t] = work[j][t] \/ work'[j][t].pc = "idle"
          /\ UNCHANGED rows
      BY <1>t, <1>5, StopEffect DEF Idle
    <2> QED BY <1>t, <2>1, AloneFrame
  <1>6. ASSUME NEW u \in Tasks, StoreFile(u) \/ UndoFile(u)
        PROVE  UNCHANGED <<rows, work>>
    BY <1>6 DEF StoreFile, UndoFile
  <1>7. ASSUME NEW i \in Instances, StartProcess(i) \/ Shutdown(i)
        PROVE  UNCHANGED <<rows, work>>
    BY <1>7 DEF StartProcess, Shutdown
  <1>8. ASSUME NEW i \in Instances, NEW u \in Tasks, WorkerStep(i, u)
        PROVE  AloneAt(t)'
    <2>1. CASE u = t
      BY <1>8, <2>1, WorkerStepAlone
    <2>2. CASE u # t
      <3>1. OnlyThat(i, u)
        BY <1>t, <1>8, WorkerOutcome DEF Outcome
      <3> QED BY <1>f, <2>2, <3>1 DEF OnlyThat
    <2> QED BY <2>1, <2>2
  <1>9. CASE UNCHANGED vars
    BY <1>f, <1>9 DEF vars
  <1> QED BY <1>f, <1>1, <1>2, <1>3, <1>4, <1>5, <1>6, <1>7, <1>8, <1>9,
             FetchAlone DEF Next

\* The invariant of a pipeline whose workers may be slow.
SlowInv == BaseInv /\ OwnContent /\ AloneInv /\ ProgressInv

LEMMA SlowStep ==
    ASSUME OneDisk, NamesApart PROVE SlowInv /\ [Next]_vars => SlowInv'
  <1> SUFFICES ASSUME SlowInv, [Next]_vars PROVE SlowInv'
    OBVIOUS
  <1>t. BaseInv /\ TypeInv
    BY DEF SlowInv, BaseInv
  <1>1. BaseInv'
    BY <1>t, BaseStep
  <1>2. OwnContent'
    BY <1>t, ReadsOwnByName, ContentStep DEF SlowInv
  <1>3. AloneInv'
    BY <1>t, AloneStep DEF SlowInv
  <1>4. ProgressInv'
    <2>1. Level
      BY DEF SlowInv, AloneInv, AloneAt, Able, Live, ExactAt, Level
    <2> QED BY <1>t, <2>1, ProgressStep DEF SlowInv
  <1> QED BY <1>1, <1>2, <1>3, <1>4 DEF SlowInv

LEMMA InitSlow == ASSUME Init PROVE SlowInv
  <1>1. \A i \in Instances, t \in Tasks : work[i][t].pc = "idle"
    BY DEF Init, Idle
  <1>2. AloneInv
    BY <1>1 DEF AloneInv, AloneAt, Able, Live
  <1> QED BY <1>2, InitBase, InitContent, InitProgress DEF SlowInv

\* A pipeline is orderly when its workers report in time and no two uploads
\* meet at a path, or when its instances share one directory and no two uploads
\* ask for the same name, however slow the workers then are.
Orderly == (Prompt /\ FilesApart) \/ (OneDisk /\ NamesApart)

LEMMA ProgressAlways == ASSUME Orderly PROVE Spec => []ProgressInv
  <1>1. CASE Prompt /\ FilesApart
    <2>1. Init => PromptInv
      BY InitFile, InitContent, InitProgress DEF PromptInv
    <2>2. PromptInv /\ [Next]_vars => PromptInv'
      BY <1>1, PromptStep
    <2>3. PromptInv => ProgressInv
      BY DEF PromptInv
    <2> QED BY <2>1, <2>2, <2>3, PTL DEF Spec
  <1>2. CASE OneDisk /\ NamesApart
    <2>1. Init => SlowInv
      BY InitSlow
    <2>2. SlowInv /\ [Next]_vars => SlowInv'
      BY <1>2, SlowStep
    <2>3. SlowInv => ProgressInv
      BY DEF SlowInv
    <2> QED BY <2>1, <2>2, <2>3, PTL DEF Spec
  <1> QED BY <1>1, <1>2 DEF Orderly

\* "checkpoint-before-work pattern to prevent duplicates on crash": in an
\* orderly pipeline no chunk of a file is stored twice, whatever crashes,
\* expires, is requeued or reset.
THEOREM ChunksStoredOnce == ASSUME Orderly PROVE Spec => []AtMostOnce
  <1>1. ProgressInv => AtMostOnce
    BY DEF ProgressInv, Ledger, AtMostOnce
  <1> QED BY <1>1, ProgressAlways, PTL

\* A task reported done has attempted every chunk of its file and shows its
\* full progress.
THEOREM DoneComplete == ASSUME Orderly PROVE Spec => []DoneIsComplete
  <1>1. ProgressInv => DoneIsComplete
    BY DEF ProgressInv, Ledger, DoneIsComplete
  <1> QED BY <1>1, ProgressAlways, PTL

\* What was stored of a file is covered by the done_chunks of its row: the next
\* worker of the task skips it.
THEOREM StoredCheckpointed == ASSUME Orderly PROVE Spec => []StoredIsCheckpointed
  <1>1. ProgressInv => StoredIsCheckpointed
    BY DEF ProgressInv, Ledger, StoredIsCheckpointed
  <1> QED BY <1>1, ProgressAlways, PTL

\* How a step may change a checkpoint.
LEMMA DoneStep ==
    ASSUME BaseInv, OwnContent, Level, ProgressInv, [Next]_vars, NEW t \in Tasks
    PROVE  rows[t].done <= rows'[t].done
  <1>t. /\ TypeOK /\ TypeInv /\ UploadOK(t) /\ rows[t].done \in Nat
    BY ProgressTypes DEF BaseInv, TypeInv
  <1>f. CASE rows'[t].done = rows[t].done
    BY <1>t, <1>f
  <1>1. ASSUME NEW u \in Tasks, InsertRow(u) \/ InsertError(u)
        PROVE  rows'[t].done = rows[t].done
    <2>1. upload[u].pc = "stored" /\ (UNCHANGED rows \/ Insert(u))
      BY <1>1 DEF InsertRow, InsertError
    <2>2. CASE Insert(u) /\ u = t
      <3>1. rows[t].done = 0
        BY <1>t, <2>1, <2>2 DEF UploadOK, NoRow
      <3> QED BY <1>t, <2>2, <3>1, InsertEffect
    <2>3. CASE Insert(u) /\ u # t
      BY <1>t, <2>3, InsertEffect
    <2> QED BY <2>1, <2>2, <2>3
  <1>2. ASSUME NEW u \in Tasks, StoreFile(u) \/ UndoFile(u)
        PROVE  rows'[t].done = rows[t].done
    BY <1>2 DEF StoreFile, UndoFile
  <1>3. ASSUME NEW u \in Tasks, AgeRow(u) PROVE rows'[t].done = rows[t].done
    BY <1>t, <1>3, AgeRowEffect
  <1>4. ASSUME NEW i \in Instances, StartProcess(i) \/ Shutdown(i) \/ Stop(i)
        PROVE  rows'[t].done = rows[t].done
    BY <1>4 DEF StartProcess, Shutdown, Stop
  <1>5. ASSUME NEW i \in Instances, ResetProcessing(i) \/ ResetError(i)
        PROVE  rows'[t].done = rows[t].done
    BY <1>t, <1>5, ResetEffect
  <1>6. ASSUME NEW i \in Instances, FetchPending(i)
        PROVE  rows'[t].done = rows[t].done
    BY <1>t, <1>6, FetchEffect
  <1>7. ASSUME NEW i \in Instances, NEW u \in Tasks, WorkerStep(i, u)
        PROVE  rows[t].done <= rows'[t].done
    <2>1. Outcome(i, u) /\ OnlyThat(i, u)
      BY <1>t, <1>7, WorkerOutcome DEF Outcome
    <2>2. rows'[u].done \in {rows[u].done, rows[u].done + 1}
      BY <2>1, ProgressMove
    <2> QED BY <1>t, <2>1, <2>2 DEF OnlyThat
  <1>8. ASSUME NEW i \in Instances, NEW u \in Tasks, Expire(i, u)
        PROVE  rows'[t].done = rows[t].done
    BY <1>8 DEF Expire
  <1>9. CASE UNCHANGED vars
    BY <1>t, <1>9 DEF vars
  <1> QED BY <1>f, <1>1, <1>2, <1>3, <1>4, <1>5, <1>6, <1>7, <1>8, <1>9 DEF Next

\* done_chunks, the checkpoint a replay starts from, never moves back in an
\* orderly pipeline, though a worker writes an absolute number.
THEOREM CheckpointNeverBack == ASSUME Orderly PROVE Spec => ProgressNeverBack
  <1>1. CASE Prompt /\ FilesApart
    <2>1. Init => PromptInv
      BY InitFile, InitContent, InitProgress DEF PromptInv
    <2>2. PromptInv /\ [Next]_vars => PromptInv'
      BY <1>1, PromptStep
    <2>3. PromptInv /\ [Next]_vars =>
            [\A t \in Tasks : rows[t].done <= rows'[t].done]_vars
      <3>1. PromptInv => BaseInv /\ OwnContent /\ Level /\ ProgressInv
        BY DEF PromptInv, FileInv, Exact, ExactAt, Level
      <3> QED BY <3>1, DoneStep
    <2> QED BY <2>1, <2>2, <2>3, PTL DEF Spec, ProgressNeverBack
  <1>2. CASE OneDisk /\ NamesApart
    <2>1. Init => SlowInv
      BY InitSlow
    <2>2. SlowInv /\ [Next]_vars => SlowInv'
      BY <1>2, SlowStep
    <2>3. SlowInv /\ [Next]_vars =>
            [\A t \in Tasks : rows[t].done <= rows'[t].done]_vars
      <3>1. SlowInv => BaseInv /\ OwnContent /\ Level /\ ProgressInv
        BY DEF SlowInv, AloneInv, AloneAt, Able, Live, ExactAt, Level
      <3> QED BY <3>1, DoneStep
    <2> QED BY <2>1, <2>2, <2>3, PTL DEF Spec, ProgressNeverBack
  <1> QED BY <1>1, <1>2 DEF Orderly

-----------------------------------------------------------------------------
(* The pipeline implements ImportQueue                                     *)

LEMMA QueueStutters ==
    ASSUME \A t \in Tasks : /\ rows'[t].status = rows[t].status
                            /\ rows'[t].done = rows[t].done,
           UNCHANGED stored
    PROVE  UNCHANGED Queue!vars
  BY DEF Queue!vars

LEMMA QueueMoves ==
    ASSUME NEW S \in SUBSET Tasks, S # {}, NEW from, NEW to,
           \A t \in S : rows[t].status = from /\ rows'[t].status = to,
           \A t \in Tasks \ S : rows'[t].status = rows[t].status,
           \A t \in Tasks : rows'[t].done = rows[t].done,
           UNCHANGED stored
    PROVE  Queue!Move(S, from, to)
  BY DEF Queue!Move

LEMMA OneMoves ==
    ASSUME NEW t \in Tasks, NEW from, NEW to,
           rows[t].status = from, rows'[t].status = to,
           rows'[t].done = rows[t].done,
           \A u \in Tasks : u # t => rows'[u] = rows[u],
           UNCHANGED stored
    PROVE  Queue!Move({t}, from, to)
  BY DEF Queue!Move

LEMMA WorkerStepQueue ==
    ASSUME PromptInv, NEW i \in Instances, NEW t \in Tasks, WorkerStep(i, t)
    PROVE  [Queue!Next]_(Queue!vars)
  <1>t. /\ BaseInv /\ TypeInv /\ TypeOK /\ OwnerInv /\ ExactAt(i, t) /\ Level
        /\ Ledger(t) /\ Trail(i, t) /\ OwnContent /\ ProgressInv
    BY DEF PromptInv, FileInv, BaseInv, TypeInv, Exact, ExactAt, ProgressInv, Level
  <1>1. Outcome(i, t) /\ OnlyThat(i, t)
    BY <1>t, WorkerOutcome DEF Outcome
  <1>2. /\ rows'[t].done <= ChunksOf[t]
        /\ \/ UNCHANGED stored
           \/ /\ work[i][t].next + 1 \in 1..MaxChunks
              /\ Store(t, work[i][t].next + 1)
    BY <1>t, <1>1, ProgressMove
  <1>n. /\ rows[t].done \in Nat /\ ChunksOf[t] \in Nat
    BY <1>t, ProgressTypes
  <1>3. work[i][t].pc # "clean" => rows[t].status = "processing"
    <2>1. Busy(i, t)
      BY <1>1 DEF Outcome, Opening, Counting, Ingesting, Ending, Cleaning, Busy
    <2> QED BY <1>t, <2>1 DEF OwnerInv, SingleOwner
  <1>s. CASE /\ rows'[t].status = rows[t].status /\ rows'[t].done = rows[t].done
             /\ UNCHANGED stored
    BY <1>1, <1>s, QueueStutters DEF OnlyThat
  <1>4. CASE Opening(i, t, work[i][t], work'[i][t], rows[t], rows'[t])
    BY <1>s, <1>4 DEF Opening
  <1>5. CASE Counting(work[i][t], work'[i][t], rows[t], rows'[t])
    <2>1. CASE rows'[t].done = rows[t].done
      BY <1>s, <1>5, <2>1 DEF Counting
    <2>2. CASE rows'[t].done # rows[t].done
      <3>1. /\ rows'[t].done = rows[t].done + 1
            /\ rows'[t].status = rows[t].status /\ UNCHANGED stored
            /\ work[i][t].pc = "loop"
        BY <1>t, <1>5, <2>2 DEF Counting, ExactAt
      <3>2. Queue!Take(t)
        <4>1. rows[t].status = "processing" /\ rows[t].done < ChunksOf[t]
          BY <1>2, <1>3, <1>n, <3>1
        <4>2. /\ [u \in Tasks |-> rows'[u].done] =
                    [[u \in Tasks |-> rows[u].done] EXCEPT ![t] = @ + 1]
              /\ [u \in Tasks |-> rows'[u].status] =
                    [u \in Tasks |-> rows[u].status]
          BY <1>1, <3>1 DEF OnlyThat
        <4> QED BY <3>1, <4>1, <4>2 DEF Queue!Take
      <3> QED BY <3>2 DEF Queue!Next
    <2> QED BY <2>1, <2>2
  <1>6. CASE Ingesting(work[i][t], work'[i][t], rows[t], rows'[t])
    <2>1. CASE UNCHANGED stored
      BY <1>s, <1>6, <2>1 DEF Ingesting
    <2>2. CASE Store(t, work[i][t].next + 1) /\ work[i][t].next + 1 \in 1..MaxChunks
      <3>1. /\ rows[t].done = work[i][t].next + 1 /\ rows[t].done > 0
            /\ stored[t][rows[t].done] = 0 /\ rows'[t] = rows[t]
            /\ rows[t].status = "processing"
        BY <1>t, <1>3, <1>6, <1>n, <2>2 DEF Ingesting, ExactAt, Trail
      <3>2. /\ stored'[t][rows[t].done] = 1
            /\ \A l \in 1..MaxChunks : l # rows[t].done => stored'[t][l] = stored[t][l]
            /\ \A u \in Tasks : u # t => stored'[u] = stored[u]
        BY <1>t, <2>2, <3>1, StoreEffect
      <3>3. stored' = [stored EXCEPT ![t][rows[t].done] = 1]
        <4>1. /\ stored \in [Tasks -> [1..MaxChunks -> 0..2]]
          BY <1>t DEF TypeOK
        <4>2. stored' = [stored EXCEPT ![t][rows[t].done] =
                            IF @ = 0 THEN 1 ELSE 2]
          BY <2>2, <3>1 DEF Store
        <4> QED BY <3>1, <4>1, <4>2
      <3>4. Queue!StoreChunk(t)
        <4>1. /\ [u \in Tasks |-> rows'[u].status] =
                    [u \in Tasks |-> rows[u].status]
              /\ [u \in Tasks |-> rows'[u].done] =
                    [u \in Tasks |-> rows[u].done]
          BY <1>1, <3>1 DEF OnlyThat
        <4> QED BY <3>1, <3>3, <4>1 DEF Queue!StoreChunk
      <3> QED BY <3>4 DEF Queue!Next
    <2> QED BY <1>2, <2>1, <2>2
  <1>7. CASE Ending(work[i][t], work'[i][t], rows[t], rows'[t])
    <2>1. CASE rows'[t] = rows[t]
      BY <1>s, <1>7, <2>1 DEF Ending
    <2>2. CASE rows'[t] # rows[t]
      <3>1. /\ rows[t].status = "processing" /\ UNCHANGED stored
            /\ rows'[t].done = rows[t].done
            /\ \/ rows'[t].status = "done" /\ rows[t].done = ChunksOf[t]
               \/ rows'[t].status = "failed"
               \/ rows'[t].status = "pending"
        BY <1>t, <1>3, <1>7, <2>2 DEF Ending, Trail
      <3>2. \A u \in Tasks : u # t => rows'[u] = rows[u]
        BY <1>1 DEF OnlyThat
      <3>3. CASE rows'[t].status = "done" /\ rows[t].done = ChunksOf[t]
        <4>1. Queue!Move({t}, "processing", "done")
          BY <3>1, <3>2, <3>3, OneMoves
        <4> QED BY <3>3, <4>1 DEF Queue!Finish, Queue!Next
      <3>4. CASE rows'[t].status = "failed"
        <4>1. Queue!Move({t}, "processing", "failed")
          BY <3>1, <3>2, <3>4, OneMoves
        <4> QED BY <4>1 DEF Queue!Fail, Queue!Next
      <3>5. CASE rows'[t].status = "pending"
        <4>1. Queue!Move({t}, "processing", "pending")
          BY <3>1, <3>2, <3>5, OneMoves
        <4> QED BY <4>1 DEF Queue!Release, Queue!Next
      <3> QED BY <3>1, <3>3, <3>4, <3>5
    <2> QED BY <2>1, <2>2
  <1>8. CASE Cleaning(i, t, work[i][t], work'[i][t], rows[t], rows'[t])
    BY <1>s, <1>8 DEF Cleaning
  <1> QED BY <1>1, <1>4, <1>5, <1>6, <1>7, <1>8 DEF Outcome

LEMMA QueueStep == PromptInv /\ [Next]_vars => [Queue!Next]_(Queue!vars)
  <1> SUFFICES ASSUME PromptInv, [Next]_vars PROVE [Queue!Next]_(Queue!vars)
    OBVIOUS
  <1>t. /\ TypeOK /\ \A t \in Tasks : UploadOK(t)
    BY DEF PromptInv, FileInv, BaseInv, TypeInv
  <1>f. CASE UNCHANGED <<rows, stored>>
    BY <1>f, QueueStutters
  <1>1. ASSUME NEW t \in Tasks, InsertRow(t) \/ InsertError(t)
        PROVE  [Queue!Next]_(Queue!vars)
    <2>1. /\ upload[t].pc = "stored" /\ (UNCHANGED rows \/ Insert(t))
          /\ UNCHANGED stored
      BY <1>1 DEF InsertRow, InsertError
    <2>2. CASE Insert(t)
      <3>1. rows[t].status = "none" /\ rows[t].done = 0
        BY <1>t, <2>1 DEF UploadOK, NoRow
      <3>2. /\ rows'[t].status = "pending" /\ rows'[t].done = 0
            /\ \A u \in Tasks : u # t => rows'[u] = rows[u]
        BY <1>t, <2>2, InsertEffect
      <3>3. Queue!Move({t}, "none", "pending")
        BY <2>1, <3>1, <3>2, QueueMoves
      <3> QED BY <3>3 DEF Queue!Submit, Queue!Next
    <2> QED BY <1>f, <2>1, <2>2
  <1>2. ASSUME NEW t \in Tasks, StoreFile(t) \/ UndoFile(t)
        PROVE  UNCHANGED <<rows, stored>>
    BY <1>2 DEF StoreFile, UndoFile
  <1>3. ASSUME NEW t \in Tasks, AgeRow(t) PROVE [Queue!Next]_(Queue!vars)
    BY <1>t, <1>3, AgeRowEffect, QueueStutters
  <1>4. ASSUME NEW i \in Instances, StartProcess(i) \/ Shutdown(i) \/ Stop(i)
        PROVE  UNCHANGED <<rows, stored>>
    BY <1>4 DEF StartProcess, Shutdown, Stop
  <1>5. ASSUME NEW i \in Instances, ResetProcessing(i) \/ ResetError(i)
        PROVE  [Queue!Next]_(Queue!vars)
    <2> DEFINE S == {t \in Tasks : rows'[t].status # rows[t].status}
    <2>1. \A t \in Tasks :
             /\ rows'[t].done = rows[t].done
             /\ \/ rows'[t].status = rows[t].status
                \/ rows[t].status = "processing" /\ rows'[t].status = "pending"
      BY <1>t, <1>5, ResetEffect
    <2>2. UNCHANGED stored
      BY <1>5 DEF ResetProcessing, ResetError
    <2>3. CASE S = {}
      BY <2>1, <2>2, <2>3, QueueStutters
    <2>4. CASE S # {}
      <3>1. Queue!Move(S, "processing", "pending")
        BY <2>1, <2>2, <2>4, QueueMoves
      <3> QED BY <3>1 DEF Queue!Release, Queue!Next
    <2> QED BY <2>3, <2>4
  <1>6. ASSUME NEW i \in Instances, FetchPending(i)
        PROVE  [Queue!Next]_(Queue!vars)
    <2> DEFINE S == {t \in Tasks : rows'[t].status # rows[t].status}
    <2>1. \A t \in Tasks :
             /\ rows'[t].done = rows[t].done
             /\ \/ rows'[t].status = rows[t].status
                \/ rows[t].status = "pending" /\ rows'[t].status = "processing"
      BY <1>t, <1>6, FetchEffect
    <2>2. UNCHANGED stored
      BY <1>6 DEF FetchPending
    <2>3. CASE S = {}
      BY <2>1, <2>2, <2>3, QueueStutters
    <2>4. CASE S # {}
      <3>1. Queue!Move(S, "pending", "processing")
        BY <2>1, <2>2, <2>4, QueueMoves
      <3> QED BY <3>1 DEF Queue!Claim, Queue!Next
    <2> QED BY <2>3, <2>4
  <1>7. ASSUME NEW i \in Instances, NEW t \in Tasks, Expire(i, t)
        PROVE  UNCHANGED <<rows, stored>>
    BY <1>7 DEF Expire
  <1>8. CASE UNCHANGED vars
    BY <1>f, <1>8 DEF vars
  <1> QED BY <1>f, <1>1, <1>2, <1>3, <1>4, <1>5, <1>6, <1>7, <1>8,
             WorkerStepQueue DEF Next

\* Workers that report in time, with files that are not mixed up, implement
\* what a polling client is promised: a task is claimed, released and ended
\* through ImportQueue's moves only, its chunks taken in order and stored at
\* most once.
THEOREM QueueImplemented ==
    ASSUME Prompt, FilesApart PROVE Spec => ImplementsQueue
  <1>1. Init => PromptInv
    BY InitFile, InitContent, InitProgress DEF PromptInv
  <1>2. PromptInv /\ [Next]_vars => PromptInv'
    BY PromptStep
  <1>3. Init => Queue!Init
    BY DEF Init, Queue!Init, NoRow
  <1> QED BY <1>1, <1>2, <1>3, QueueStep, PTL DEF Spec, ImplementsQueue, Queue!Spec

=============================================================================
