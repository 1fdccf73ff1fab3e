# lazycat-mem9: models, checks and proofs

lazycat-mem9 is a Go server that keeps the "memories" of AI agents: short texts
with tags, a type (`pinned`, written by the user, or `insight`, distilled by a
language model) and an embedding. Clients post memories, conversations and
files, search them, and page through what they find. This directory holds TLA+
models of the server's stateful parts, TLC runs over small instances of them,
and TLAPS proofs for every instance. `PROJECT.json` is the machine-readable
index: components, runs, mutants, the map from definitions to source lines,
findings, hazards and theorems.

Run a model with `tlc -config X.cfg MCmodule` and a proof with
`tlapm M_proofs.tla`.

## 1. The system

| Part | Source | State | Operations |
|---|---|---|---|
| Import pipeline | `handler/task.go`, `service/upload.go`, `repository/*/upload_task.go` | table `upload_tasks`, files in upload directories, one goroutine per task | store file + insert row; reset, fetch, chunk loop with checkpoints, finish, fail, requeue, remove file |
| Memory table | `repository/*/memory.go` | table `memories` of one tenant | create, bulk create, update, soft delete, archive-and-create, vector, full-text and keyword reads |
| MemoryService | `service/memory.go` | none | create, update, delete, search |
| IngestService | `service/ingest.go` | none | extract facts, find similar memories, ask the model for ADD/UPDATE/DELETE/NOOP events, carry them out |
| TenantPool | `tenant/pool.go` | map tenant → `*sql.DB`, a mutex, an eviction goroutine | Get, Remove, Close, evictIdle |
| Rate limiter | `middleware/ratelimit.go` | map key → token bucket, a cleanup goroutine | Middleware, cleanup |
| Authentication | `middleware/auth.go` | none | tenant or API key → row → connection |
| Provisioning | `service/tenant.go`, `repository/*/tenant.go`, `tenant/zero.go` | table `tenants`, the tenants' databases | CreateInstance, Create, initSchema, UpdateStatus, UpdateSchemaVersion |
| Boot and shutdown | `cmd/mnemo-server/main.go` | `bootstrapState`, main's `db`, `tenantPool`, `workerCancel` | dial with retries, control-plane schema, default tenant, swap of the handler; cancel workers, drain requests, close the pool |
| HTTP server | `handler/handler.go`, `handler/memory.go` | `svcCache` (services by tenant and handle, never cleared) | resolveServices; routing, decoding, HTML pages |
| LLM client, embedder | `llm/`, `embed/` | none | HTTP calls |
| config, metrics, domain, factory, schemas | | none | |

How the parts meet. A request passes the rate limiter, then authentication,
which reads the tenant's row (control-plane database) and asks the pool for a
handle; the handler builds a MemoryService on that handle. A create answers 202
and goes on in a goroutine of its own; ingestion and updates of different
clients thus work on one `memories` table with nothing but single statements
between them. An import leaves a file on the disk of the instance that took it
and a row in the shared control-plane database; every instance's worker loop
polls that table. Instances know of each other only through tables.

What is hard here:

- **read, think, write**: reconciliation reads candidates, waits seconds for a
  model, and writes what the model answered about memories that may have
  changed meanwhile (`service/ingest.go`);
- **an ownership that is a row status**: `processing` with a stale `updated_at`
  is taken to mean "its worker is dead" (`repository/tidb/upload_task.go`);
- **checkpoint before effect**: a chunk's progress is written before it is
  ingested, so a crash may lose a chunk but must not store it twice;
- **locks released around I/O**: the pool pings, dials and closes handles
  inside and outside its mutex (`tenant/pool.go`);
- **a sequence of statements with no transaction**: a tenant is created,
  migrated, activated and versioned one statement at a time, by several booting
  processes, each of which may die in between;
- **a shutdown in two goroutines**: `ListenAndServe` returns when the shutdown
  begins, while requests are drained, detached creates work on and import tasks
  hold handles of the pool that is about to be closed (`main.go`, `handler.go`);
- **chunks counted in advance**: the number of chunks is rounded before the
  loop, the checkpoint is one ahead of the work, and a replay skips by it
  (`service/upload.go`);
- **two reads, one answer**: hybrid search fuses two statements and rebuilds
  the ranking for every page; a list is counted and read by two statements, and
  neither has an order for memories of equal rank or of one second.

What makes each part correct is stated as the properties at the end of its
module; section 3 says which run checks which.

## 2. The modules

Each `X.tla` has its instances in `MCX.tla` and its proofs, if any, in
`X_proofs.tla`. Some definitions are preceded by a variant of themselves with
one slip in it (a dropped guard, a swapped order). No action uses these; they
stand for plausible bugs, and `PROJECT.json` ("mutants") records which property
notices each.

### UploadTasks, ImportQueue

One action per statement: `StoreFile`, `InsertRow`/`InsertError`, `UndoFile`
(createTask); `StartProcess`, `ResetProcessing`/`ResetError`, `FetchPending`
(Run); `OpenFails`, `Open`, `UpdateTotalChunks`, `NextChunk` … `IngestChunk`, `FinishTask`,
`FailTask`, `RequeueTask`, `CleanupFile` (processTask and what it calls);
`Stop` and `Shutdown` (crash and SIGTERM), `Expire` and `AgeRow` (time).
`upload` is the handler's goroutine, `rows` the table, `disk` the files, `inst`
the processes, `work` the worker goroutines, `stored` the effect on the memory
store. The context a statement runs under decides whether it can still succeed
(`ParentLive`, `TaskLive`), as in the code, where a task's own context expires
and `failTask` uses a fresh one. `Open` asks for neither, as `os.ReadFile` takes no
context. `InsertError` is every refusal once the file is on disk: a copy that
breaks off or is too long, a close that fails, an insert that does; a file that
cannot be made leaves nothing and is no step. A statement may also take effect and its
answer be lost ("lost"), which the worker cannot tell from a failure.
`ImportQueue` is the promise: a task waits, is taken by somebody, and ends done
or failed; `ImplementsQueue` is its refinement. `ListStatus` is the word
`listTasks` gives a client that polls all its imports (a failed one makes it
"partial" while others still run); `ListSettles` is what such a client waits
for.

### ImportText

What the worker does with the lines of one file, beneath UploadTasks: `Parse`
(messages of two formats, memories, plain text, and what is dropped), `Skip`
and `Checkpoint` (the loop over chunks of 50 messages or 100 memories, here
`ChunkSize` and `BatchSize`), `Pass` and `Clean` (one pass of stripMemoryTags
over one message, and what is kept of it), `Store`, `Finish`, `Fail`, `Crash`.
A text is a sequence of three marks; while it is stripped it is a sequence of
positions in the original, so that the properties can tell what is left from
what should be. `given` counts how often each item was handed to storage.

### Memories, MemoryHistory

A call (`raw`, `create`, `ingest`, `update`, `delete`, `import`) is a goroutine
whose statements are steps, so what it read may be stale when it writes. The
model's answer is any set of events within the bounds; the search finds the
memories with the very text and any others. `MemoryHistory` is the abstract
table: a memory is born once, lives, and is deleted or replaced once, by a
memory born in the same step.

### Search

A client asks for page after page. `ReadVectors` and `ReadWords` are the two
statements, `AnswerHybrid` is rrfMerge, collectMems, applyTypeWeights,
sortByScore, paginate and setScores on what they returned, `AnswerWords` the
search without an embedder, `Write` any other client. A list without a query is
`CountAll` and `ReadPage`, by descending time of update. Scores are exact
fractions, compared by cross-multiplying; memories of equal score come in any
order, because the code sorts a map's values with an unstable sort.

The table is two functions, `near` and `matching`: what each read ranks a memory
by. Ties are ordinary (`updated_at` counts seconds and `BulkCreate` stamps a
whole batch with one) and no ORDER BY has a tie-breaker, so every statement
picks one of the `Orders` of what it finds, and the next one may pick another.
A list paged by offset can lose a memory in two ways, which `excused` keeps
account of: it shared its second with another when a page was read, or a memory
before it left the list (`MovedUp`). `ListSkipsNone` says that there is no third
way, whatever is created and rewritten between two pages. Without the exception
for ties it does not hold even if nobody writes (`SearchTies.cfg`).

What the constants 60 and 1.5 promise is computed, not assumed. A memory found
by both reads goes before one found by one read as long as it is within the
first 21 of each, or within the first 61 if the other is not pinned alone; a
pinned memory goes before one that is not pinned, and not found more often, as
long as it is within the first 31 of the reads that found it. Beyond that
(ranks 22, 62 and 32) a counterexample exists, and the server's default page of
50, with reads of 150, goes well beyond: the tiers "pinned first" and "both
reads first" are no property of the code in general. `TiersHold` states exactly
what holds for answers of every length.

### TenantPool

One action per critical section: `Lookup`, `Ping` (no lock), `Touch`, `Remove`
and `CloseRemoved`, `FindOrDial` and `Dial` (lock kept), `EvictIdle` and
`CloseEvicted`, `Stop`, `CloseAll`, `CloseNext`.

### Server

Extends TenantPool with a process around it. `call` is what each caller of Get
is (a request, a create that is answered before it works, an import task) and
where it is outside Get: `Arrive` or `Claim`, `Authenticate`, `GetHandle` (a step
of the pool's Get), `Resolve` (resolveServices and `cache`, its `svcCache`),
`Finish`. `process` is the boot (`Build`, `Ready`) up to main's return (`Exit`),
`stop` the shutdown's goroutine: `Signal` (workerCancel and Shutdown), `Drained`
or `Expired` (the ten seconds) with tenantPool.Close, `CloseControlPlane`. A
task's context ends with the signal, unless the signal came before the boot had
assigned `workerCancel` (`stop.early`). `PoolStep` is the pool's own goroutine.
The invariants of the pool are checked in this composition under their own
names, and `Spec`, the pool's own specification, is a theorem of the server's.

### RateLimiter, TokenBucket

`ChargeAddress` and `ChargeKey` are the two `Allow` calls of the middleware,
`Cleanup` drops buckets not used for `Stale`; time is counted in the time one
token takes to come back. A key is whatever a client writes into X-API-Key,
which may be an address: the two share one map. `TokenBucket` is a bucket for
each key that is never dropped, with a clock of its own, the same as the
limiter's: a unit of time brings a bucket one token and nothing else brings any.
`ServedPaid` also tells what a refused request has spent: the token of its
address, if it was its key that refused it.

### Provisioning

`run` is a registration in progress (a client's Provision, or the bootstrap of
a process): `CreateInstance`, `Create`, `InitSchema` (one statement at a time),
`Activate`, `SetVersion`. `boot` is bootstrapState: `Start`, `Dial`,
`EnsureControlPlaneSchema`, `Check`, `Settle`. `Find` and `Connect` are
authentication. `Crash` may stop a process between any two statements. Each
configured tenant has the name that stands beside it in its configuration
(`TenantName`); two of them may have one name, which then only one can take.

## 3. Runs

| Run | Question | Instance |
|---|---|---|
| upload_faults | one owner, the file outlives the task, terminal is final, refines ImportQueue | 2 instances with own disks, 1 session of 2 chunks, every fault but "slow" |
| upload_slow | no chunk twice, done means all | 2 instances on one disk, a worker may outlive its context |
| upload_shared_dir | own content, no leak | 2 uploads of one name, 2 instances on one disk, failing statements, expiring contexts |
| upload_live | accepted uploads end, and the list of a client's imports settles | 2 instances, a session of 2 chunks and a file of 1, expiring contexts and failing models, fair tickers |
| import_text | nothing stored twice or left out, progress adds up, injected context and nothing else is removed, an import ends | every file of up to 4 lines of 5 kinds, and every text of up to 4 marks in a file of one message; chunks of 2, a crash |
| memory_races | refines MemoryHistory; pinned left alone; a result names what was created | a create, an ingest with 2 events, a delete; lost answers, searches that miss |
| memory_failures | no embedding of another text; an error stored nothing | create, update, import, raw ingest; four kinds of failure |
| search_pages | order of an answer, pages partition, what a list skips, versions and stale results | 3 memories in every order and with every tie, 3 ways of pinning them, pages of 1, one write anywhere |
| server_races | no closed entry, no lost handle, limit kept; no dead or foreign handle served; a closed pool stays empty; every call ends | 2 calls of any kind, 2 tenants, 2 handles, limit 1, a shutdown at any time, fair |
| shutdown_cuts_requests | finding: the process does not wait for the drain | 1 request, 1 tenant, 1 handle |
| rate_buckets | who paid what and was served; refines TokenBucket | 5 requests, 2 addresses, keys that are a tenant's, an address or missing, burst 2 |
| boot_races | nobody let in early, no lost work, one builder, every boot ends | 2 processes, a client, a request, 2 starts with one of 4 configurations each, 2 retries, four faults, fair |

Nineteen more configurations are not part of the listed runs. Thirteen
(`UploadSkippedChunk`, `UploadStolenReset`, `UploadSameName`, `UploadNoRetry`,
`UploadStarved`, `ImportStripLoop`, `MemoryDuplicates`, `PoolClosed`,
`BootKeyRefused`, `RateFallback`, `RatePath`, `SearchScores`, `SearchTies`) each
check one property that the code does not have, on the smallest instance that
shows it; section 6 says which. `PoolRaces` is the pool alone with three requests and
three handles, fair; `ServerThree` the server with three calls and three handles
(safety only, with symmetry; some minutes), where the
server's types, CloseAfterDrain and the pool's `Spec` are checked as well.
`UploadProgress`, `MemoryTypes`, `SearchTypes` and `ImportTypes` take the
instances of upload_slow, memory_failures, search_pages and import_text for the
type invariants and for StoredIsCheckpointed and ProgressNeverBack. All these,
and the type invariants of the other modules, are theorems (section 5).

**Why the bounds are enough.** Two instances give every pair of owners (a third
only repeats the role of the second; section 7 has the one exception); two
chunks have a first, a last and a checkpoint between; two uploads share a name,
a batch or a fetch order. A conversation with two events, a create and a delete
give a reader with every writer that can overtake it. With a limit of one the
pool's limit binds while one request holds the lock and another waits. Burst 2
tells a full, a used and an empty bucket apart. Two starts let one process
crash and come back, or two boot side by side; two keys of one name, a third of
another and no key make them disagree about the default tenant in each way.
BootEnds shows that the attempts to reach the database end; that there are no
more than configured is the bound of `tries` in TypeOK. Two calls give a request beside a task, a
create beside the shutdown, and a call whose handle another one closes; two
handles with a limit of one give an eviction and a second handle of a tenant.
`ServerThree` and `PoolRaces` add the third who dials meanwhile. Four lines with
chunks of two make two full chunks, a full and a cut one, and lines dropped at
either edge of a chunk; four marks hold two pairs of tags, nested, in a row or
unpaired. Pages of one make three pages of three
memories, and three ranks give them every order with and without ties; the
reads of a search fetch three, so that they never cut the candidates in
search_pages, and no rank comes near 21, 31 or 61: what the cut and the
thresholds do only the theorems show. The five requests of rate_buckets are two
of one key from two addresses, one that names its own address, one that names
another's and one without a key. Bounds that cut behaviour are constants or definitions named in their
module (`MaxChunks`, `MaxFacts`, `MaxBatch`, `MaxEvents`, `MaxWrites`,
`MaxTime`, `MaxRetries`, `MaxStarts`, `MaxLines`, `MaxLength`, `MaxCrashes`,
`Handles`, `Requests`).

**Symmetry** is used, among the runs, in the two memory ones only, of unborn
memories and of texts, which no property and no constant tells apart; neither
checks liveness.

**Deadlock** is not checked: in every instance calls are made once or starts are
counted, and the system really stops when all are answered.

## 4. Fairness

- Uploads (`Fairness`): goroutines are scheduled, tickers tick, a dead process
  is restarted; no strong fairness. `FairTickers`, which upload_live uses, adds
  that with two instances on disks of their own it is calm again and again and
  that no ticker is always the first one: a requeue takes milliseconds, a tick
  comes every few seconds.
- Pool: strong fairness of each request's next step, because a Go mutex hands
  itself to a waiter after a millisecond and a dial ends by its timeout.
- Server (`ServerFairness`): the same of each call's steps in the pool, and weak
  fairness of its other steps: statements are answered or fail. Nothing is
  assumed of boot, signal, time or exit; any of them may never come.
- ImportText (`FairSpec`): the worker's steps; a crash, being counted, is
  followed by a new start (UploadTasks has the ticker that makes it).
- Boot: weak fairness of each process's next step, that is, statements are
  answered. The bootstrap context has no deadline: a database that accepts a
  connection and never answers blocks a boot for good.

## 5. Proofs

All theorems hold for every value of the constants that satisfies the module's
assumptions; TLC evaluates the assumptions in every run. Every invariant, every
action property and every refinement that a passing run checks is a theorem,
and so is each module's type invariant; some have hypotheses, named here with
what fails without them. A run that shows such a property on an instance
satisfies the theorem's hypotheses.

**UploadTasks_proofs.** Three hypotheses occur.

- `Prompt`: no worker outlives its context before its row goes stale. Without it
  a reset takes a row from a worker that is still at it, and the task gets a
  second owner (`UploadStolenReset.cfg`).
- `FilesApart`: no two tasks can name the same file. Either all names differ
  (`NamesApart`), or there is one directory (`OneDisk`), where the handler's
  suffix keeps them apart as long as a file stays with its claim, which takes
  Prompt and answers that are not lost. On two disks one name is two files
  (`UploadSameName.cfg`).
- `Orderly`: Prompt and FilesApart, or one directory and different names,
  however slow the workers are. It is what upload_slow's instance satisfies.

`TypeInv` is TypeOK with what is known of each worker's loop (`TypeCorrect`).
`OneOwnerPerTask`, `TerminalStaysFinal`: under `Prompt`, `OwnerInv` is inductive:
TypeInv, one owner, a stale row is processing and nobody is at work on it, and
an upload that is not inserted yet has no row. One owner alone is not inductive:
`ResetProcessing` must know that the stale rows it sees are nobody's, and
`InsertRow` that it does not overwrite a row that somebody works on.

`FilesKept`: an upload has a claim to its file from storing it until its task
has ended and the goroutine that removes it is through (`Claims`); `FileInv`
adds to OwnerInv that every claim has its file. A worker
removes only under the name in its row and the handler only what it stored, and
FilesApart says that this is no other upload's. `ContentIsOwn`
follows from the same bookkeeping of paths (`UploadOK`). `NothingLeaked` holds
on one directory when no process ends at work, no answer is lost and no remove
fails: then a task that has ended has no file, or a goroutine about to remove
it (`LeakInv`); each of the excluded faults does leave a file.

`ChunksStoredOnce`, `DoneComplete`, `StoredCheckpointed` and
`CheckpointNeverBack` rest on `ProgressInv`, the ledger of each row (no chunk
twice, what is stored is behind the checkpoint) and the trail of each goroutine
(what it is about to store is not stored, and nobody else is about to store
it). It is preserved if a goroutine that may still write the checkpoint has its
row's. With prompt workers that is because there is one owner (`Exact`). With
slow ones there may be two, and the argument is another (`AloneInv`): at most one
goroutine of a task has a live context and the file, and one that has lost its
context can write no checkpoint. `QueueImplemented`: with prompt workers every
step is a move of ImportQueue or a stutter.

**Memories_proofs.** `MemoryInv` relates each call to the table: what it has seen
of a memory stays true of it but for its state; the index of a loop stays within
its list; a create patches rows it made itself; the result it is building agrees
with the rows of which it is the author (`Agrees`). From it `TypeCorrect`,
`EmbeddingsFit`, `ResultIsCreated`, and `FailedStoredNothing`, which supposes that
no answer is lost: a client that is told of an error may otherwise have stored
something. `PinnedLeftAlone` is an action property: a row is inserted, rewritten,
deleted or replaced (`RowStep`), and a pinned one only by the client's own
update or deletion, because what a pipeline knows of a memory's type does not
age. `HistoryImplemented` maps those four kinds of steps to MemoryHistory's.

**TenantPool_proofs.** `PoolInv`: a handle is opened for one tenant; the request
that opened it is the only one to put it in the map, under the lock it has held
since it saw there was no entry; a handle somebody is about to close has left
the map. From it `EntriesStayOpen` and `NoLeak`. `LimitHolds` needs the number
of entries to be below the limit while somebody holds the lock (`LimitInv`).

**RateLimiter_proofs.** `ServedHavePaid`: a request is served when its
address and then its key had a token, and otherwise has spent what it was
allowed before the refusal; what is needed besides is how far each request has
come (`Told`): nothing asked, or the address alone, which allowed it. `BucketImplemented`: if a bucket is full
before it is stale (`FullBeforeStale`, Burst ≤ Stale + 1 in token times), then
a bucket dropped and made anew cannot be told from one that was kept, and a tick
of the clock is the only step that gives tokens, one to each key. The
invariant `RateInv` says that a bucket's last use and its last refill are the
same moment, and that the key a request is charged to is known. With the
default limits of the server (100 tokens per second, a burst of 200, five
minutes) the assumption holds; a deployment that sets fewer tokens per second
than burst/300 breaks it.

**Provisioning_proofs.** First what each kind of step does to the rows and the
databases (`MovesKeep`, `RegisterKeeps`, `OthersKeep`), then `Inv`: who is at
work on a tenant has made its row and run the statements before the next one
(`WorkInv`), an active row has its whole schema (`OpenInv`), an admitted
request found an active row (`AdmittedInv`). From it `ServedSchema` and
`RowsNeverSetBack`. `OneBuilderEach` and `GivenComplete` add that the primary
key lets one `Create` through and that a registration that is done has written
everything.

**Server_proofs.** `ServerRunsPool`: every step of the server is a step of the
pool's specification or leaves it alone, so that all that is proved of the pool
holds in the server (`ServerKeepsPool`), and PoolInv can be used below.
`ServiceInv`: a request looks at a handle of its own tenant; a cache entry names
the handle in its key; a handle closed before a call came in stays closed, and
Get does not return it. From it `NoneServedDead` and `AllInOwnDatabase`.
`StopInv`: Close runs only after Shutdown returned; who is answered stays
answered once the listener is closed; and once the map is emptied only a dial
could fill it, which needs a call that is neither answered nor cancelled. From
it `DrainBeforeClose` and `PoolStaysEmpty`.

**ImportText_proofs.** `IInv` holds for every file, size of chunk and batch and
number of crashes: the loop stands at a multiple of the chunk's size, the
checkpoint is not behind it and one ahead while a chunk is worked on
(`Position`); items past the checkpoint were given to nobody and no item twice
(`NotYet`); items behind it were given or cut short (`Covered`). Items are
counted, not indexed: `Place` is an item's rank among the lines that are items.
`RoundedUp` is the one fact about the number of chunks. From it `NothingTwice`,
`NothingMissed` and `ProgressAddsUp`.

`ContextIsRemoved`, for texts of any length, follows a text through the passes:
after each one it is clean up to some place where no tag is open, and whole
behind that place (`CleanTo`). `CutPair` and `CutTail` are the two branches of a
pass. The first opening tag that is left comes before the first closing one
because the tags alternate; `FirstIsLeast`, that the tag is there, is proved by
the library's well-founded order of the naturals. `Cleaned` takes this to the
loop over a chunk, which is never empty (`ChunkNotEmpty`: places number the
items from 1 to Count).

**Search_proofs.** `TypeInv` bounds the reads and the pages and says what is in
`eligible`. `Fresh` gives `PageIsFresh`. `ReadsOrdered`, the words are read after
the vectors and versions only grow, gives `NewestIsShown`, because collectMems
keeps the second read's copy. `SortedNow`: an answer is in the order of the
scores of the very rows it was sorted by. `BetterIsFirst` and `TiersAreKept` are
then arithmetic of fractions whose denominators are 60 + rank, for reads of any
length; each threshold has a lemma of its own. `ListIsWhole` uses that a
memory that is not excused is only ever pushed down the list (`ListKept`): it is
on a page already shown, or at least as many memories as the offset counts are
younger. Tied with none, it comes right after the younger ones in every order a
statement may choose (`PlaceInOrder`), so that the page that reaches it shows it.
`PagesAreParts` uses that while nothing is written and nothing ties each memory
of an answer has one place, the number of better ones plus one (`InPlace`), so
that the answer's order is the same for every page.

**Only model-checked.** Liveness: Completes, ListSettles, ImportEnds, CallsEnd and
BootEnds (fairness and ENABLED are out of the prover's reach). The
configurations of section 6 show single counterexamples; there is nothing to
prove of them.

## 6. Where the code and its words disagree

The first is a listed run and finding of `PROJECT.json`, which quotes the words;
the others are shown by the configuration named, run by hand.

- "graceful shutdown" ends the process before the requests are drained
  (shutdown_cuts_requests).
- The replay skips a chunk nobody stored (`UploadSkippedChunk.cfg`).
- A crash between a tenant's row and its activation leaves a server that is
  ready and refuses its own key (`BootKeyRefused.cfg`).
- stripMemoryTags does not end, and its text grows, when the first closing tag
  comes before the first opening tag (`ImportStripLoop.cfg`).
- A worker that is slow to report is reset under its feet
  (`UploadStolenReset.cfg`).
- The same file name on two disks: one instance ingests its own file under the
  other's task (`UploadSameName.cfg`).
- A failed status update keeps the file "for retry", and nobody retries
  (`UploadNoRetry.cfg`).
- Tasks whose file is gone are requeued first in line, and starve the others
  (`UploadStarved.cfg`).
- "All facts are guaranteed new" does not hold between two conversations
  (`MemoryDuplicates.cfg`).
- A closed pool opens new handles (`PoolClosed.cfg`).
- The address is charged always, not as a fallback (`RateFallback.cfg`), and the
  tenant in the path never (`RatePath.cfg`).
- A memory found by both reads is not shown with its cosine similarity
  (`SearchScores.cfg`).
- A list read page by page loses memories of one second though nobody writes
  (`SearchTies.cfg`); no word of the repository promises otherwise, but a client
  that pages supposes it.

## 7. Limits of the models

- **Time** is what the code compares: a context has expired, a row is stale, an
  entry is idle. `created_at` never ties between uploads. NoFileLeaked is
  checked on a shared directory only; a batch of a memory file that is stored
  in part is one step. A file is whole from the moment it has its name: a
  worker that finds another upload's half-written file under its path
  (`UploadSameName.cfg`) reads wrong content either way. A slow worker with requeues over three instances is not
  checked.
- **Memories**: the search's limit of five is left out, an agent filter is a
  search that "misses", each call is made once, and the second read that an
  update makes to answer is left out. Text is a model value; prompts and the
  parsing of the model's answers are not modelled.
- **Search**: filters are "in a ranking or not". Scores are exact; the code's
  floats may order an exact tie either way, which the model allows too, and two
  different scores that round to one float are taken to stay apart.
  `FTSAvailable` is a constant: the tidb and postgres repositories settle it
  when they are made; db9's fallback from one tokenizer to another is not
  modelled. A row that is in the list is never rewritten with an earlier
  second, as every update sets `NOW()`; a clock that is set back is not
  modelled. A row that enters the list may have any second, because a long batch
  commits after younger writes. ListSkipsNone is about memories that are not
  excused: those that were written, that shared a second with another when a
  page was read, or before which one was deleted, may be lost.
- **Server**: a statement on a handle that was closed under its call gives rows
  or an error, and which is not told apart. A signal during the boot finds
  main's variables assigned or not (`early`); the race on them has no other
  outcome here. The rate limiter, which comes first, is a module of its own.
- **ImportText**: a file of one JSON line that has the fields of a session
  document is taken for an (empty) document by the code; the model's lines have
  no such fields. A memory file that is no JSON is one item, or none if it is
  blank. A text stops growing at `MaxLength`. Errors of any kind are
  one step, `Fail`; ContextRemoved and ImportEnds suppose that the tags of a
  text alternate (section 6 has the other case).
- **Rate limiter**: `getLimiter` and `Allow` are one step; minutes would have to
  pass between them.
- **Provisioning**: the pool is an answer or an error; statements of the
  control-plane schema are one step; one tenant id under different names in two
  configurations is not told apart (a row keeps the name it was made with, which
  matters only to a third tenant that wants either name); statuses the code never writes (suspended,
  deleted) do not occur; db9's optional extension, whose failure is ignored, is
  not counted as a schema statement.
- **Not modelled**: HTTP routing and pages, `getTask`, the reads of single
  memories beside their use in an update, the postgres and db9 repositories
  where they differ from tidb's in SQL only, JSON decoding and validation, the
  LLM and embedding clients, configuration, metrics, deployment files: they
  keep no state that two actors share. `bulkCreateMemories`,
  `bootstrapMemories` and `getTenantInfo` are not routed.

## 8. Plan

Done: the import pipeline with the text of an import, the memory table with
ingestion, search and list, the pool, the server around it with its services
and its shutdown, the rate limiter, provisioning and boot; every safety
property that a run checks proved, and the refinements.

Next, in this order:

1. proofs: what the parts give each other, for instance that the items an
   import hands over once (ImportText) are chunks stored at most once
   (UploadTasks); which faults of NothingLeaked each leave a file;
2. the postgres and db9 repositories where their control differs from tidb's
   (db9's tokenizer fallback), and `getTask`;
3. two servers on one control plane: the shutdown of one while the other takes
   its tasks over.
