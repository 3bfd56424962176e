# Verification of UniPortal

UniPortal is a project portal (Vue frontend, Express/Prisma backend) around an
enterprise RAG platform (`src/rag`, FastAPI, with a web client of its own). This
directory models both in TLA+, checks the models with TLC, and proves the main
theorems about them with TLAPS.

PROJECT.json lists the components, the lines each definition stands for, the
runs, a fault ("mutant") every property detects, the theorems, and each hazard
of the code with the properties about it.

## The system

### Components, state, operations

| component | source | state | modelled in |
|---|---|---|---|
| document routes, indexing task, registry | `rag/api/routers/documents.py`, `document_registry.py` | SQLite rows, background threads | `DocumentIngestion` |
| Milvus and BM25 as stores | `milvus_db.py`, `bm25_retriever.py` | chunk rows; in-memory lists | `DocumentIngestion`, `RetrievalPath`, `QueryPipeline`, `CollectionMigration` |
| hybrid retriever and result cache | `hybrid_retriever.py`, `cache.py` | cached results, version counter | `RetrievalPath` (concurrency), `QueryPipeline` (what one call returns) |
| planner, filters, cross-encoder, selection | `planner.py`, `filter_scope.py`, `reranker.py`, `selector.py` | lazily loaded model | `QueryPipeline` |
| GraphRAG store and retriever | `graph_store.py`, `graph_retriever.py` | SQLite graph, matrix in memory | `GraphRetriever` |
| RAPTOR and visual stores | `raptor_store.py`, `visual_retriever.py` | generations, active pointers, page files | `GenerationStores`, abstractly `GenerationCatalogue` |
| parsers and splitters, parent store | `markdown_parser.py`, `pdf_parser.py`, `format_parsers.py`, `parent_store.py` | none; parent rows | `DocumentParsing` |
| embedding registry, migration command | `embedding_registry.py`, `migrate_embedding_collection.py` | recorded fingerprints, collections | `CollectionMigration` |
| agent harness, skills, retrieval workflow | `agent/harness`, `agent/skills`, `workflow.py`, `corrective.py` | the session's checkpoint | `AgentLoop`, `RetrievalWorkflow` |
| guardrails, judge, feedback flywheel | `agent/guardrails`, `agent/eval/judge.py`, `flywheel.py` | verdict cache, failure count | `LLMJudge`, `AnswerGuard` |
| circuit breaker | `core/fallback/circuit_breaker.py` | state, counters, time of the last change | `CircuitBreaker` |
| chat routes, web client, inference capture | `api/routers/chat.py`, `web/src/stores/chat.ts`, `agent/eval/capture.py` | a tab, routes, histories, inferences | `ChatConversation` |
| session memory | `core/memory/redis_memory.py` | Redis and SQLite lists, which of them is used | `SessionMemory` |
| benchmark campaigns | `scripts/run_benchmark*.py`, `run_paired_benchmark.py` | run directories, summaries | `BenchmarkCampaign` |
| golden dataset, evaluation gate | `agent/eval/{candidates,dataset,history,runner}.py`, `scripts/{curate_golden,run_eval}.py` | YAML dataset, candidates, history file | `GoldenDataset`, `EvaluationGate` |
| portal project and knowledge routes | `server/src/controllers/{project,knowledge}.controller.ts` | Prisma rows, directories, RAG documents | `Portal` |

### How they interact

One uvicorn worker runs one event loop. The upload and delete handlers are
`async` functions that call the stores synchronously, so at most one handler is
between two of its steps. Indexing is a background task on a thread-pool thread,
and queries run their legs on threads, so their steps fall between any two steps
of anything else. Registry, Milvus, graph and generation stores survive a
restart; BM25, the matrix, the result cache, its version and every thread do
not. Writers tell readers about a change by invalidating the graph's matrix and
then calling `bump_retrieval_cache_version`. The chat routes run the agent over
the session's checkpoint; the agent's model calls go through the circuit
breaker, its answers through the guardrail and the judge, and what was answered
is saved by the session memory and captured for the flywheel. The portal keeps
rows that point at documents of the RAG service, which it reaches by HTTP.

### What is hard

* a delete, a second upload or a process death between two steps of an indexing
  task; stores that raise, which every `except` in the write path logs and survives;
* a query that computes its key before, and stores its result after, a change;
  a matrix rebuilt from rows read before a writer committed;
* legs, encoders and models that fail alone or together, and filters that not
  every leg can apply;
* generations published, replaced, deleted and collected by several workers
  while directories are moved outside a transaction;
* state of an earlier request in a checkpoint; breaker calls that end in another
  period than they were admitted in; a judge that fails, which is not a verdict;
* a tab that changes its session while a stream runs, saves after the response,
  a history that moves from Redis to SQLite in the middle of a save;
* long offline campaigns during which the code or the data changes or a process
  is killed, and files rewritten without a lock;
* portal requests of several awaits over rows, directories and a second service.

### What makes each component correct

* Ingestion: an indexed row reports what Milvus holds; a failed task leaves
  nothing; a clean delete leaves nothing, for good; every document leaves
  `processing`.
* Retrieval: no cached answer holds a deleted document or misses an indexed one;
  the matrix searched is never older than the last finished write; no leg
  answers from documents the filter excludes; a result served from the cache is
  one of the same ask; what one leg can still find comes through.
* Stores: a source has one whole, visible generation whose pages are on disk; a
  collection holds vectors of the recorded model only; a migration reported as
  verified is whole and drops nothing it did not create.
* Parsing: every text is under its own heading, none that was read is lost,
  chunks cover the sections their parent rows hold.
* Answers: an answer rests on its own request's accepted retrieval; what is
  withheld or recorded as a miss goes back to a verdict; every request is answered.
* Breaker: it closes only on consecutive successes of the current window, and recovers.
* Conversation: the tab shows the session it is in, a follow-up sees the turns
  before it, histories hold whole turns, a rating finds its answer.
* Offline: what is reported as promotable rests on comparable runs, what is promoted
  stays, and what passed was held against the newest run of its dataset.
* Portal: a listed item has its directory unless its users took it, a knowledge row its RAG document.

## Modules

| module | lines it models | extended by |
|---|---|---|
| `DocumentIngestion` | the write path | `RetrievalPath`, `MCDocumentIngestion` |
| `RetrievalPath` | cached queries composed with the write path | `MCRetrievalPath` |
| `GraphRetriever`, `QueryPipeline`, `CollectionMigration` | graph matrix; one retrieval call; collections and migration | `MCRetrieval` |
| `GenerationStores`, `DocumentParsing` | generation protocol; parsers | `MCIndexing` |
| `GenerationCatalogue` | what a generation store promises | instantiated by `GenerationStores` |
| `RetrievalWorkflow`, `AgentLoop`, `CircuitBreaker`, `LLMJudge`, `AnswerGuard` | agent loop over the workflow; breaker; judge and guardrails | `MCAnswering` |
| `ChatConversation`, `SessionMemory` | tab and routes; the history store below | `MCConversation` |
| `BenchmarkCampaign`, `GoldenDataset`, `EvaluationGate` | the offline tools | `MCOffline` |
| `Portal` | the portal's routes | `MCPortal` |
| `...Proofs` | theorems | |

The MC modules give constants, symmetry sets and bounds. Those of several
components join specifications that share no variable: no order of their steps
is of interest, so each is explored from the initial (or resting) states of the
others. Operators preceded by a comment "Mutation of X" are faulty variants of X
that show a property can fail; nothing else refers to them.

### DocumentIngestion

A document is an upload request (`Docs`). `status`, `file`, `chunks` and `aged` are
the registry columns; `status[d] = "unused"` is a request not made yet and
`"deleted"` one whose row is gone. `milvus[d]` counts the insert batches stored,
`bm25[d]` the copies of its chunks in the BM25 lists, `derived[i]` the documents
additive store i holds. `task[d]` is the indexing thread: parse, Milvus batch by
batch (a batch may fail alone), BM25, bump, each additive store and its bump,
status. `loop` is the handler on the event loop. `purge[d]` is history: whether a
delete was asked for, while the task ran, after it, or with a store raising. The
number of chunks is abstracted to batches, contents to hashes, file names to
model values with `SafeName` for `_secure_filename`; time is only the step
`Age` past the 120 s threshold of `_recover_stale_processing`. That recovery is
two kinds of step: `UploadListStale` fetches the rows and keeps the ones that are
still processing, `UploadFlip` writes each of them, unconditionally, after.

### RetrievalPath

Readers ask one question which every document answers, so a result is a set of
documents. A query computes its key (`StartQuery`), runs its two legs on threads,
then stores its result under the key of its start. `cache` is the entry the
current version's key would find. The bump is two steps: version, then clear.
With `NativeSparse` the sparse leg asks Milvus; without it it asks BM25 after
hydrating it from Milvus.

### GraphRetriever

`store` and `matrix` are functions over sources: the model whose vectors the
graph's rows, or the rows of the matrix, have. Writers (indexing and delete
threads) commit, invalidate under the lock, and bump the result cache, in that
order. A query loads under the lock when `_loaded` is false: it reads the rows,
then the dimension, drops what does not fit, and installs the matrix. `reload`
clears `_loaded` without the lock. The embedding model may be swapped behind
its endpoint. A read of the store, the embedding of the question or the product
with vectors of another dimension may raise; `retrieve` then answers `Blank`,
which is cached like any answer; `raised` is history. PageRank, neighbours and scores are left out.

### QueryPipeline

A call of `retrieve`/`aretrieve` with its plan, filter and corrective retry, over
a deployment (`setting`) with some services down. `Plan`, `Started`, `Dense`,
`Native`, `Legacy`, `Graph`, `Fused`, `Finished` are the functions of the code that
decide which passages come through; scores are left open, so a ranked list is
its set and a cut any subset of the right size. The cross-encoder loads lazily
behind unlocked flags (`Peek`, `Lock`, `LoadEnds`). Results are cached under `Key`.

### CollectionMigration

The server's create / register / insert steps, uploads and deletes, and the
migration command step by step (sources, split, list, create, record, write,
verify, cleanup) with a kill, an outage or a restart with another embedding
model. A collection is its schema and its chunks, each with the model that made
its vector. Two migrations at once are left out.

### GenerationStores and GenerationCatalogue

Workers stage generations, publish them, remove sources and collect garbage in
the RAPTOR store (one transaction per operation) and in the visual store (page
files staged, validated, moved and committed in a step each; cleanups read, list and
delete in three, a collection deletes old staging directories in two, without the
lock). `GenerationCatalogue` is the promise: a generation is unborn, offered,
visible or gone, and at most one per source is visible. The refinement mapping
`Fate` is what `retrieve` selects.

### DocumentParsing

Pure functions of the parsers (`Loaded`, `Merged`, `PagesRead`, `BlocksOf`,
`HtmlTexts`, `Pieces`, `Spans`) in a state machine of three steps: parse, write
parent rows, chunk. Texts are tokens, outlines and page layouts are enumerated.

### RetrievalWorkflow and AgentLoop

`RetrievalWorkflow` keeps no state: `WorkflowOutcomes` is the set of what one call
of the workflow with its corrective retry may leave in the shared state, over
everything the retriever may answer. `AgentLoop` runs the graph agent, retrieve,
grade, rewrite, generate over the channels of the session's checkpoint, which
every superstep overwrites. Messages are left out: what the model decides is free,
and so is how much of the evidence fits the token budget and whether the request
came with a history (`GenerateAnswer` cites some of what was found, `Recall` nothing).

### CircuitBreaker

`Admit` and `Finish` are the two uninterrupted parts of `call`. `due` says whether
`recovery_timeout` has passed; `probes`, `streak` and `closedBy` are history.
`call_sync` has no caller and is not modelled.

### LLMJudge and AnswerGuard

The judge's verdict cache and failure count, its question per claim, and the
request that drafts with retries, verifies its hard claims concurrently, is
guarded once more by the synchronous output guardrail and may be rated
afterwards. A draft made from the history alone has no contexts and is not judged. A verdict is yes, no or none; texts are sequences of claims.

### ChatConversation and SessionMemory

`messages`, `sessionId`, `stream` and `index` are the tab's store; `turn[t]` the route
of a request and how far it got; `wire[t]` what was sent and not read. Every
await of a route is a step. `SessionMemory` is below the saves: a Redis call is a
suspension point, an operation on SQLite is not, and the first save that raises
moves the store.

`ChatConversation` has both stores as well, without the window: `history` is
SQLite's, `inRedis` Redis's, and `memory` says which one this process reads. A
process starts on Redis; the first save pushes there (`Push`) and moves to SQLite,
where it and all later ones insert (`Save`). A restart goes back to Redis, which then
shows nothing or the question the first save of each process left there, until the
next save. A save that had begun with Redis when another moved is acknowledged and
lost; one that SQLite fails returns False, which nobody reads.

### BenchmarkCampaign, GoldenDataset, EvaluationGate

The matrix and paired drivers with their child processes, while a developer
edits the worktree or replaces data, commits, and puts back what was there before
(checkout, stash, reset, undo), and a process may be killed. `tree` is what git shows
of the worktree to the fingerprint; `seen` and `undos` remember what there was and
how often some of it came back, and `verified` and `undone` of a run whether that
happened during it.

Curators promote candidates into a dataset file read and rewritten without a lock.
Evaluations overlap, each with the cases its filters and the file of that moment
leave it, and are gated by the history they share.

### Portal

Requests of every kind on projects, items and knowledge documents, a step per
await. `items`, `docs`, `count` are the rows; `roots`, `disk`, `copies` the
directories; `rag` the documents of the RAG service. A handler may stop anywhere.
`emptied` remembers the items whose users left them without a directory, until the
manifest or a new node makes it again.

## Runs

| run | question | instance | result |
|---|---|---|---|
| `ingestion_faults` | do rows tell the truth about the stores when anything may raise or die? | 2 uploads, 2 hashes, 2 spellings of a name, 1 batch, 1 restart, 2 aged rows | holds |
| `ingestion_clean` | is everything indexed searchable, and does processing end? | 2 uploads, no restart, fair threads | holds |
| `delete_during_indexing` | does a delete remove everything? | 1 document | violated (`docs/API.md:578`) |
| `cache_native` | is a cached answer ever stale, with native sparse search? | 2 readers, 1 restart | holds |
| `cache_legacy` | does a cached answer miss an indexed document, with BM25? | 2 documents | holds |
| `answering` | grounded answers, own responses, verdicts, recovery, every request answered | 1 run slot, 2 requests, 2 facets, 2 rewrites; 4 callers, thresholds 3/2; 2 requests with 4 evidences and 3 drafts | holds |
| `indexing` | generations, page files, refinement; sections, texts, chunks | 2 sources, hashes, renders, generations, workers, 1 fault; every outline of up to 3 headings and 2 levels, every layout of up to 4 lines, 3 extractors | holds |
| `pdf_failing_page` | is a PDF some extractor reads indexed? | the same files | violated (`pdf_parser.py:5-7`) |
| `retrieval` | fresh matrix and cache; filters, cache keys, fallbacks; collections and migration | 2 sources, 2 writers, 2 queries, 3 models, 1 failure of the embedding or SQLite; 2 calls, 9 asks, 4 deployments, 3 outages; 2 uploads, 2 sections, 2 collections, 1 command | holds |
| `portal` | do rows have their directories and RAG documents? | 1 project, 2 items, 2 rows, 2 requests, 1 handler stopped | holds |
| `conversation` | session shown, follow-ups, whole turns, saved history, ratings, free tab | 2 turns, 2 sessions, 2 incidents; 2 saved turns, window of 3 | holds |
| `offline` | promotable, promoted, passed | 4 runs of 2 variants, balanced or paired, 1 edit or restart and 1 edit put back; 2 curators; 2 evaluations with any of 2 cases each | holds |

Each property relates at most two documents, sources, turns, requests or
curators, so two of each give every overlap; readers and workers are slots that
start again, so two of them give every overlap of any number of operations. The
breaker needs four callers to have a late call of an earlier window next to a
full half-open one. `CHECK_DEADLOCK FALSE` everywhere: clients may stop asking,
and the bounds end every behaviour. Where a promise fails in a known case, the
property that holds says so in its antecedent (`crossed`, `halfway`, `exposed`,
`early`, `overlapped`, `dropped`, `undone`), and the case is listed below.

### Fairness

`ingestion_clean`: each task and the handler in progress (a thread keeps being
scheduled, none of its operations blocks for ever). `answering`: guarded functions
return, time passes, somebody calls the breaker and reads its state (without
callers a breaker does not leave `open`); coroutines run and every judge or model
call ends, by its timeout if need be. `conversation`: a started route goes on and
the tab reads what arrives. `offline`: the driver goes on; nothing is assumed of the
child, which the driver's timeout must deal with. Clients, users, edits, faults and
restarts are never fair. The other runs check safety only.

## Proofs

All theorems hold for every value of the constants that satisfies the named
assumptions, which TLC evaluates on every run.

| module | over | inductive invariant | theorems |
|---|---|---|---|
| `RetrievalPathProofs` | `DocumentIngestion!Spec` | `IngestionInv`: types, `UniqueHash`, where a handler stands, what a running task may find, how far a clean delete has come | `TypeCorrect`, `HashesAreUnique`, `DeletesAreFinal`, `IndexedIsLasting`, `TaskIndexes` |
| | the same | `StoredInv`, relative to `IngestionInv`: each row against the stores | `RegistryTellsTheTruth`, `FailuresLeaveNothing` |
| | the same, within `OneLife` | `SearchInv`, relative to `TypeOK`, `HandlerOK`, `TaskOK` | `IndexedIsFindable` |
| | `PathSpec` with native sparse search | `FreshInv` | `NativeReadersAreInvisible`, `NativeDeletesAreFinal`, `NoStaleAnswers` |
| | `PathSpec`, either leg | `ServedInv` | `AdditionsAreServed` (native), `AdditionsAreServedFromBm25` (within `OneLife`) |
| `DocumentParsingProofs` | `ParsingSpec` | `ParsingInv` | `ParsingInvariant`, `ChunksCover`, `LateSpans`, `TextsSurvive`, `HeadingsFollowed` |
| `RetrievalProofs` | `GraphRetriever!Spec` | `GraphInv` | `GraphInvariant`, `MatrixStaysFresh`, `CacheStaysCurrent` |
| | `PipelineSpec` | `PipelineInv` | `PipelineInvariant`, `FilterAlwaysHolds`, `EvidenceIsAlwaysOwn`, `AnyLegIsEnough` |
| | `CorpusSpec` | `CorpusInv` | `CorpusInvariant`, `VectorsAlwaysMatch`, `SuccessIsWhole`, `OthersAreSpared` |
| `GenerationStoresProofs` | `GenerationStores!Spec` | `StoresInv` | `Types`, `OneGeneration`, `PagesOnDisk`, `Tidiness`, `Refinement` |
| `AnsweringProofs` | `AgentLoop!Spec` | `LoopInv` | `LoopInvariant`, `AgentTypes`, `RunsAreShort`, `AnswersAreGrounded`, `ResponsesAreOwn` |
| | `BreakerSpec` | `BreakerInv` | `ProbesAreBounded`, `ClosedMeansHealthy`, `ClosesAreEarned` |
| | `GuardSpec` | `GuardInv` | `GuardInvariant`, `NoFalseAlarmHolds`, `EscalationSurvivesAlways` |
| `PortalProofs` | `Portal!Spec` | `PortalInv` | `PortalInvariant`, `FilesStayBehindRows`, `RagStaysBehindRows` |
| `ConversationProofs` | `ChatConversation!Spec` | `ConversationInv` | `ChatInvariant`, `OneConversation`, `FollowUpsSee`, `WholeTurns`, `FeedbackIsFound` |
| | `MemorySpec` | `MemoryInv` | `MemoryInvariant`, `AckedIsKept` |
| `OfflineProofs` | `BenchmarkCampaign!Spec` | `CampaignInv` | `CampaignInvariant`, `PromotionsAreComparable` |
| | `DatasetSpec` | `DatasetInv` | `DatasetInvariant`, `CorrectionsAreKept` |
| | `GateSpec` | `GateInv` | `GateInvariant`, `RegressionsAreCaught` |

Why the properties are not inductive alone, and what carries them:

* **Ingestion.** Two uploads of one content can only be told apart by where
  their handlers stand, and a delete is only final if no task can write after it:
  `HandlerOK`, `TaskOK` and `PurgeOK` say so. Deletes remove Milvus rows by hash, so
  that a delete disturbs no other document rests on `UniqueHash`.
* **BM25.** `NamesOK` does for names what `UniqueHash` does for hashes, because a delete
  clears BM25 by name; `SyncedOK` follows what was parsed into BM25. Both need
  `OneLife`: no restart (the index is memory), no raising sync (only logged, and it
  skips the bump) and names that sanitising leaves alone (the duplicate check
  compares the client's spelling). Outside it the property fails; the divergences
  below say how.
* **Retrieval path.** With native sparse search every step of the composition is
  a step of DocumentIngestion or leaves its variables alone, so its invariants
  carry over. (With BM25 a reader writes to the index, and this fails.)
  For additions both legs are covered: `Announced` documents, past the bump of their own
  task, are in whatever the sparse leg searches (`Findable`), and that bump empties the
  cache and outdates every key that was computed before.
* **Parsing.** `SectionsKept` says that the sections stay what the parser made of the
  file, `Progress` which of them are still whole, `SectionsCovered` that each one whose
  turn has come has all its texts in its chunks, `ChunksAreOwn` that every chunk
  is a stretch of a section under its index, and `Owned` that every parent row is the
  section of its index. Sections that share an index have the same texts
  (`SectionsShape`: in Markdown no two share one), so that neither a chunk nor a
  row can be another section's. That spans follow one another is a property of the
  cursor (`SpansFollow`) and needs the sections of Markdown to be distinct; with equal
  texts in two sections the spans of one would be compared with those of the other.
  What the parsers' recursive functions and folds compute is proved by a least
  position at which the claim fails (`UpTo`), after showing that each has the value at
  n that its step gives from the value at n - 1 (`SiftUnfolds`, `FlattenUnfolds`,
  `ReadsUnfold`, `SeesUnfold`, `LoadsUnfold`, `LocatesUnfold`). For the texts of a PDF
  page the text lines and the rows that wait to become a table are held in the order
  they were read (`ReadLineHolds`), a single row included. For Markdown, `Placed` says at
  which element each heading stands and `Laid` what the elements up to the k-th heading's
  last are; with it goes `Stacked`: every heading that no later one closes is on
  the stack and only headings are. So the top of what is popped is the nearest
  shallower heading (`TopIsNearest`, `LaidMore`); the paths of titles then agree from
  the first on (`PathsAgree`), and the sections made of the elements are the headings
  with a text (`KeptIs`, `GatheredIs`). `FailedRaised` adds that a Markdown file never fails.
* **Graph.** A matrix is installed from rows read before: `RebuildOK` says that
  a rebuild under the lock has read the store as it is, up to writers that have
  committed and still wait for that lock to invalidate. `VersionsOK`, `SnapshotsOK`
  and `SearchesOK` carry this through the key a query computed, the matrix it
  searched and the answer it stores.
* **Pipeline.** `ResultsOK` says of every cached key what `DocsOK` says of every
  call in progress: the passages were found for that query, by a channel of that
  plan, within that filter. `LegsOK` says what a call without evidence implies of
  each leg; fusion and the cuts keep at least one passage of a list that has any.
* **Collections.** `VectorsOK` and `RegisterOK` tie a collection's chunks to the
  recorded fingerprint through the step between creating and recording; `ApartOK`
  says that the server and a running command never work in one collection, from
  which `TargetOK`, `BeforeOK` and `OthersUntouched` follow; `OwedOK` and `WrittenOK`
  follow each section from the parent store through split and write to the target,
  where a delete by hash does not find it.
* **Generations.** `RowsOK`, `WorkersOK`, `PagesOK`, `SweepsOK` say which generation
  a worker's local variables may still refer to. The refinement is proved step by
  step: each action of the stores is an action of `GenerationCatalogue` under `Fate`.
* **Agent loop.** `LoopInv` bounds attempts and supersteps together and says what
  the channels hold at each place of the graph. It covers runs that overlap in one
  session; the TLC run has one run slot, since runs meet only in the checkpoint and a
  run disconnected at any superstep leaves there what an overlapping one could leave.
* **Breaker.** The calls in flight of the present window number at most the slots
  taken, and the successes counted are at most the streak.
* **Answer guard.** `Backed` says of every text of a request that a "no" at a place
  was said of the claim at that place, on the contexts of that request; `JudgeOK` says
  it of the cache, `Asks` of what the event loop has asked so far and still will, in
  the order of the claims. With it, what the guardrail does with the texts is a
  case split (`ValidatedFacts`), and a share below one half has a "no" among it.
* **Portal.** `JobsOK` says what a request knows where it stands, `UsedOK` that ids
  are not given out again, `ItemsOK` that an uploader alone knows its item and
  that whoever removes a directory, but for its users by a node, has removed the row
  or its project before,
  `RagOK` that no two rows share a RAG document and one just sent is known only to
  its sender.
* **Conversation.** `TurnOK` says what a route has saved where it stands, `WireOK` and
  `Delivered` that whatever tells the tab its answer is complete is sent after both
  saves and after it is settled whether the inference is captured, `SavedOK` and `Whole`
  that a history holds a session's own turns, question first, `LoadOK` and `Waits` which
  session a history under way and an awaited answer belong to. What the steps of the
  two routes have in common is one `RouteStep`, for which preservation is proved once.
  `StoresInv` is about the two stores: SQLite is empty until the first process has
  moved, so a process that has never moved misses nothing by reading Redis; a save
  that has begun with Redis is of a question, because a turn's answer is saved by a
  process that its question has moved; and a message that is inserted or pushed is not
  there yet (`NewOneIsLast`).
* **Session memory.** A save has begun when it crosses the switch and is over when it is
  acknowledged, and whatever is in flight under SQLite has crossed; so a message that
  returns to the list is either new to it (`NewestComesFirst`, `WindowShifts`: it
  moves every owed message one place on) or excepted.
* **Campaigns.** `WorldOK` says that what an edit makes has a number that nothing
  seen before has, and that a tree holding the dataset says what its files are.
  Trees may come back, so `OwnRun` reserves what it says to runs during which nothing
  was put back: if what the driver compares after the run is as before (`Comparable`),
  it has been so all the while, and is what the child imported and read (`Faithful`).
  No orphan of an earlier driver writes the directory its driver looks at. `RowsOK`
  carries this over to the rows, and from rows with one fingerprint to the same files.
* **Golden dataset.** `WritesOK` says that who is about to write found the file as it
  still is, with no case under its id, unless promotions overlapped or one was killed
  while it wrote; then a write only adds.
* **Evaluation gate.** `LineOK` says of every line of the history that it is the average
  of that run's own cases and that its details are on disk; `Opposed` that the line a
  verdict was reached against is still the baseline it was. That a run worse by the threshold in every case is worse so in
  the average (`SumsCompare`, `WorseIsRegressed`) is proved of sums over any finite set,
  by a least counterexample.

Each inductive invariant was an invariant of the corresponding TLC run before it
was proved. The assumptions are `IngestionAssumption`, `RetrievalAssumption`,
`GraphAssumption`, `PipelineAssumption`, `MigrationAssumption`, `StoreAssumption`,
`ParsingAssumption`, `WorkflowAssumption`, `LoopAssumption`, `BreakerAssumption`, `GuardAssumption`,
`ConversationAssumption`, `MemoryAssumption`, `PortalAssumption`,
`BenchmarkAssumption`, `DatasetAssumption` and `GateAssumption`, beside the modules'
declarations: types of the constants and finiteness where sizes are counted; in
`PipelineAssumption`, that to give no filter is to admit everything and a source filter names at
least one source, which is what `FilterScope.parse` accepts. Theorems about one deployment only name it as a hypothesis:
`NativeOnly` (the sparse leg asks Milvus and its query encoding never raises), a BM25
sync that does not raise, or `OneLife`; `cache_native`, `cache_legacy` and
`ingestion_clean` are instances of them.

Only model-checked:

* liveness (`ProcessingEnds`, `Recovers`, `AnswersComeBack`, `TabIsFreed`,
  `CampaignEnds`), which this prover does not do under fairness.

## Known divergences

Found while modelling, beside the two findings of PROJECT.json.

* Ingestion: a stale row flipped to `failed` still blocks the re-upload it was
  flipped for (documents.py:293 against its docstring 283-285), and a row whose
  task finishes between the listing and the write (261-269) goes from `indexed` to
  `failed` with its chunks in every store; the duplicate
  check uses the client's spelling of a name (376) and the row the sanitised one
  (86); hydration can put a deleted document back into BM25, and after a restart
  a BM25 index with anything in it counts as complete (hybrid_retriever.py:601-607);
  a BM25 sync that raises skips the cache bump (documents.py:661).
* Breaker: probes that are cancelled block a half-open breaker for ever
  (circuit_breaker.py:171); `force_close` keeps the consecutive failures (269).
* Agent: when nothing found fits the token budget beside a history, the answer is
  generated from the history alone, if the retrieved text carries scores
  (generate/skill.py:458-462, 476-483): it cites nothing, and neither the judge nor the
  source check looks at it. `retrieval_diagnostics` is the one key a new request does not overwrite
  (orchestrator.py:119), so a session whose last verdict was weak stays refused
  after the workflow is switched off; a rewrite at the limit goes uncounted;
  `max_rewrites or default` turns 0 into the default; the score filter may drop
  documents after the verdict.
* Retrieval: the cross-encoder sets `_load_attempted` before it loads, so requests
  during a cold load are answered unranked without a reported error, and cached so;
  the synchronous legs run on threads without the request's ContextVars and lose
  `use_ppr`, yet share the cache key with the asynchronous ones. `FilterScope.parse`
  strips quoted values and reads up to the last quote while Milvus gets the
  expression as it is, so with a padded source filter BM25 and the graph may return
  passages that Milvus would not admit. `FilterHolds` therefore speaks of what Milvus
  admits or, for a set of sources, its parsed values name; the `retrieval` run has such
  a filter, and no assumption excludes one.
* Graph: another model of the same dimension is searched silently; `_degraded` is
  never reset; the `[]` of a raising `embed_query` (graph_retriever.py:146-157) is
  cached as the answer until the next write or the end of its lifetime.
* Migration: deleted documents come back (`list_all` is unfiltered); an indexed
  uploaded Markdown file blocks every migration, because its parent rows carry the
  temporary path; migrated chunks carry no `file_hash`, so a later delete removes
  none of them.
* Generations: a publication that overlaps a cleanup may lose its pages
  (visual_retriever.py:465); garbage collection may take a generation that is still
  being staged (raptor_store.py:447). The visual store's collection deletes staging
  directories without the lock (440-446), so pages that were valid may be gone, or half
  gone, when they are moved (174-189); neither `collect_garbage` has a caller outside
  the tests yet.
* Parsing: a Markdown file whose first line starts with `#` but is no heading is
  loaded shifted, bodies as titles; `#` lines inside code fences are headings;
  pages with little text are dropped when OCR is off.
* Answers: a tripped judge stays off until a restart; redaction of personal data
  loses the grounding caveat; ESCALATE only sets metadata nobody reads; the flywheel
  judges the served answer, boilerplate included.
* Chat: `/chat` saves after its response, so the next turn may read the history
  without it; a degraded answer is shown and captured but never saved; switching
  sessions during a stream puts tokens into the wrong list, and its late session
  event sets the session back.
* Sessions: a save that waits for Redis while another moves the store is
  acknowledged and lost; the switch to SQLite is forgotten at a restart
  (redis_memory.py:66-86), so until its first save a new process answers follow-ups
  from what Redis has, nothing or lone questions; deleting a session in Redis mode
  leaves its SQLite history.
* Offline: `append_cases` is an unlocked read-modify-write; a promotion under an
  existing case id appends nothing and deletes the candidate; a regressed run
  becomes the next baseline; the matrix does not compare dataset hashes after a run.
  An edit that is put back during a child's run (checkout, stash, undo) is seen by
  neither comparison of the worktree (run_benchmark_matrix.py:1159-1167), so a summary
  that calls itself eligible may hold measurements of mixed code; the fingerprint does
  not see staged content either, nor files in untracked directories (712-724). The
  paired benchmark reports `promotion.passed` over a worktree it fingerprints only when
  all runs are over (run_paired_benchmark.py:487). The gate finds its baseline by the
  path of the dataset alone (run_eval.py:127-133): after `--limit`, `--tag-filter`,
  `--difficulty` (84-89), or when the file has grown, the averages of different cases
  are compared, and a run worse in all its cases may pass. `PromotionIsComparable` and
  `RegressionIsCaught` except these cases and speak of the others.
* Portal: a rename of the node `.` moves an item's whole directory to another name in
  the project's while the row stays (project.controller.ts:838-843), and an archive
  without entries gets a row but a directory only with its manifest (24-37, 434-441);
  `FilesBehindRows` excepts both. Deleting a project leaves its documents in the RAG service, where they
  block the same file with 409; a reindex that fails after its delete leaves a row
  without a document; a delete that races a reindex orphans the new document.

## Not modelled

Scoring and ranking formulas, prompts, OCR and embedding inference, tokens, PageRank
and entity extraction; read-only and listing routes; `POST /reindex` (`_reindex_all`:
no caller but an administrator, and two of them double every row); MCP transport,
metrics, tracing and the agent's long-term memory (append-only); the degradation
handler (its update functions have no caller outside tests); Pareto fronts and public
IR metrics of the benchmarks; the portal's frontend, accounts and model settings;
extension, expiry and listing of sessions; errors of SQLite but in the saves of
`ChatConversation`.
