-------------------------- MODULE DocumentIngestion --------------------------
(***************************************************************************)
(* The write path of the knowledge base: the upload and delete handlers of *)
(* rag/api/routers/documents.py, the background task that indexes one      *)
(* upload, and the stores they write: the SQLite document registry,        *)
(* Milvus, the in-memory BM25 index and the additive per-source stores     *)
(* (GraphRAG, RAPTOR, visual).  The calls of bump_retrieval_cache_version  *)
(* are steps of their own here (CacheBump); the cache they act on is added *)
(* by module RetrievalPath, which composes this module with the readers.   *)
(*                                                                         *)
(* The two handlers are async functions without an await between their     *)
(* store operations, so the single event loop runs at most one of them at  *)
(* a time: variable loop is that handler and where it is.  The indexing    *)
(* task is a plain function run on a thread-pool thread: a step of task[d] *)
(* can fall between any two steps of a handler or of another task.         *)
(***************************************************************************)
EXTENDS Naturals, FiniteSets

CONSTANTS
    Docs,           \* document ids: one per upload request, never reused
    RawNames,       \* file names as a client sends them
    SafeName,       \* SafeName[n]: _secure_filename(n)
    Hashes,         \* SHA-256 digests of file contents
    MaxBatches,     \* most Milvus insert batches one document needs
    LegCount,       \* how many additive stores are enabled
    Faults,         \* the operations that may raise in this instance
    MaxCrashes,     \* bound on process restarts
    MaxAged,        \* bound on rows that reach the stale threshold
    None            \* Python's None

Operations == {"parse", "milvusAdd", "milvusQuery", "milvusDelete",
               "bm25Add", "bm25Remove", "legBuild", "legRemove", "registryPut"}

ASSUME IngestionAssumption ==
    /\ None \notin Docs \union RawNames \union Hashes
    /\ SafeName \in [RawNames -> RawNames]
    /\ \A n \in RawNames : SafeName[SafeName[n]] = SafeName[n]
    /\ MaxBatches \in Nat
    /\ LegCount \in Nat
    /\ Faults \subseteq Operations
    /\ MaxCrashes \in Nat
    /\ MaxAged \in Nat

VARIABLES
    status,     \* registry column status; "unused"/"deleted": there is no row
    file,       \* registry columns filename and file_hash
    chunks,     \* registry column chunks
    aged,       \* rows whose created_at is past the stale threshold
    milvus,     \* milvus[d]: Milvus insert batches of d that are stored
    bm25,       \* bm25[d]: copies of d's chunks in the BM25 lists
    derived,    \* derived[i]: documents whose data additive store i holds
    task,       \* the background task of each document
    loop,       \* the handler the event loop is running
    crashes,    \* process restarts so far
    purge       \* history: how the last delete of d met d's task

vars == <<status, file, chunks, aged, milvus, bm25, derived, task, loop,
          crashes, purge>>

registry == <<status, file, chunks, aged>>
stores == <<milvus, bm25, derived>>

-----------------------------------------------------------------------------
NoTask == [pc |-> "idle", total |-> 0, sent |-> 0, inserted |-> 0, leg |-> 1]
Idle == [at |-> "idle", doc |-> None, name |-> None, hash |-> None,
         found |-> None, leg |-> 1, stale |-> {}]

TaskPcs == {"parse", "milvus", "bm25", "bump", "leg", "legBump"}
UploadPcs == {"flip", "query", "register", "conflict"}
DeletePcs == {"delMilvus", "delBm25", "delBump", "delLeg", "delLegBump"}

HasRow(d) == status[d] \in {"processing", "indexed", "failed"}
Running(d) == task[d].pc \in TaskPcs

\* The name and the hash every chunk of d carries as metadata.
NameOf(d) == file[d].name
HashOf(d) == file[d].hash

RowsNamed(n) == {d \in Docs : HasRow(d) /\ NameOf(d) = n}
RowsHashed(h) == {d \in Docs : HasRow(d) /\ HashOf(d) = h}

\* SELECT ... LIMIT 1: any one of the matching rows, or None.
Fetch(rows) == IF rows = {} THEN {None} ELSE rows

Init ==
    /\ status = [d \in Docs |-> "unused"]
    /\ file = [d \in Docs |-> [name |-> None, hash |-> None]]
    /\ chunks = [d \in Docs |-> 0]
    /\ aged = {}
    /\ milvus = [d \in Docs |-> 0]
    /\ bm25 = [d \in Docs |-> 0]
    /\ derived = [i \in 1..LegCount |-> {}]
    /\ task = [d \in Docs |-> NoTask]
    /\ loop = Idle
    /\ crashes = 0
    /\ purge = [d \in Docs |-> "never"]

-----------------------------------------------------------------------------
(***************************************************************************)
(* POST /documents/upload.  The duplicate check reads the registry (after  *)
(* flipping stale processing rows to failed), then Milvus; the row is put  *)
(* and the task started last.  The lookups use the client's file name, the *)
(* row stores the sanitised one.                                           *)
(***************************************************************************)

\* The rows _recover_stale_processing lists: fetched, processing, too old.
StaleAmong(rows) == {d \in rows \ {None} : status[d] = "processing" /\ d \in aged}

\* Both rows are fetched before the first of them is flipped.
UploadListStale(d, n, h) ==
    /\ loop = Idle
    /\ status[d] = "unused"
    /\ \E byName \in Fetch(RowsNamed(n)), byHash \in Fetch(RowsHashed(h)) :
         loop' = [at |-> "flip", doc |-> d, name |-> n, hash |-> h, found |-> None,
                  leg |-> 1, stale |-> StaleAmong({byName, byHash})]
    /\ UNCHANGED <<registry, stores, task, crashes, purge>>

\* UPDATE documents SET ... WHERE id = d: nothing happens when the row is gone.
UpdateStatus(d, s, n) ==
    /\ status' = IF HasRow(d) THEN [status EXCEPT ![d] = s] ELSE status
    /\ chunks' = IF HasRow(d) THEN [chunks EXCEPT ![d] = n] ELSE chunks

\* A listed row becomes failed whatever its task has made of it meanwhile.
UploadFlip(d) ==
    /\ loop.at = "flip"
    /\ d \in loop.stale
    /\ UpdateStatus(d, "failed", 0)
    /\ loop' = [loop EXCEPT !.stale = @ \ {d}]
    /\ UNCHANGED <<file, aged, stores, task, crashes, purge>>

\* The registry half of _check_duplicate rejects on any row it fetches.
Blocks(row) == row # None

UploadCheckRegistry ==
    /\ loop.at = "flip"
    /\ loop.stale = {}
    /\ \E byName \in Fetch(RowsNamed(loop.name)), byHash \in Fetch(RowsHashed(loop.hash)) :
         loop' = [loop EXCEPT
                    !.at = IF Blocks(byName) \/ Blocks(byHash) THEN "conflict" ELSE "query",
                    !.found = IF Blocks(byName) THEN byName ELSE byHash]
    /\ UNCHANGED <<registry, stores, task, crashes, purge>>

\* Chunks left in Milvus by an earlier session also count as a duplicate.
StoredDuplicates(n, h) ==
    {d \in Docs : milvus[d] > 0 /\ (NameOf(d) = n \/ HashOf(d) = h)}

UploadQueryMilvus ==
    /\ loop.at = "query"
    /\ \/ /\ StoredDuplicates(loop.name, loop.hash) = {}
          /\ loop' = [loop EXCEPT !.at = "register"]
       \/ \E d \in StoredDuplicates(loop.name, loop.hash) :
            loop' = [loop EXCEPT !.at = "conflict", !.found = d]
       \/ /\ "milvusQuery" \in Faults              \* "check skipped"
          /\ loop' = [loop EXCEPT !.at = "register"]
    /\ UNCHANGED <<registry, stores, task, crashes, purge>>

UploadRegister ==
    LET d == loop.doc IN
    /\ loop.at = "register"
    /\ status' = [status EXCEPT ![d] = "processing"]
    /\ file' = [file EXCEPT ![d] = [name |-> SafeName[loop.name],
                                    hash |-> loop.hash]]
    /\ task' = [task EXCEPT ![d] = [NoTask EXCEPT !.pc = "parse"]]
    /\ loop' = Idle
    /\ UNCHANGED <<chunks, aged, stores, crashes, purge>>

\* The 409 answer, or the 500 when registry.put raises: nothing is stored.
UploadAbort ==
    /\ \/ loop.at = "conflict"
       \/ loop.at = "register" /\ "registryPut" \in Faults
    /\ loop' = Idle
    /\ UNCHANGED <<registry, stores, task, crashes, purge>>

\* Time passes: a row that is still processing reaches the stale threshold.
Age(d) ==
    /\ status[d] = "processing"
    /\ d \notin aged
    /\ Cardinality(aged) < MaxAged
    /\ aged' = aged \union {d}
    /\ UNCHANGED <<status, file, chunks, stores, task, loop,
                   crashes, purge>>

-----------------------------------------------------------------------------
(***************************************************************************)
(* _process_document, on its own thread.                                   *)
(***************************************************************************)

\* Mutation of TaskFails: the exception ends the thread, the row stays as it is.
TaskDies(d) ==
    /\ task' = [task EXCEPT ![d] = [NoTask EXCEPT !.pc = "ended"]]
    /\ UNCHANGED <<registry, stores, loop, crashes, purge>>

\* The outer except branch: the row becomes failed and the task is over.
TaskFails(d) ==
    /\ UpdateStatus(d, "failed", 0)
    /\ task' = [task EXCEPT ![d] = [NoTask EXCEPT !.pc = "ended"]]
    /\ UNCHANGED <<file, aged, stores, loop, crashes, purge>>

TaskParse(d) ==
    /\ task[d].pc = "parse"
    /\ \/ /\ \E n \in 0..MaxBatches :
               task' = [task EXCEPT ![d].total = n,
                                    ![d].pc = IF n = 0 THEN "bm25" ELSE "milvus"]
          /\ UNCHANGED <<registry, stores, loop, crashes, purge>>
       \/ "parse" \in Faults /\ TaskFails(d)

\* add_documents raises before the first batch (connection, compatibility).
TaskMilvusRaises(d) ==
    /\ task[d].pc = "milvus"
    /\ task[d].sent = 0
    /\ "milvusAdd" \in Faults
    /\ TaskFails(d)

\* One batch: inserted, or caught, logged and counted as failed.
TaskMilvusBatch(d) ==
    /\ task[d].pc = "milvus"
    /\ \E ok \in IF "milvusAdd" \in Faults THEN {0, 1} ELSE {1} :
         /\ milvus' = [milvus EXCEPT ![d] = @ + ok]
         /\ task' = [task EXCEPT ![d].sent = @ + 1,
                                 ![d].inserted = @ + ok,
                                 ![d].pc = IF task[d].sent + 1 = task[d].total
                                             THEN "bm25" ELSE "milvus"]
    /\ UNCHANGED <<registry, bm25, derived, loop, crashes, purge>>

\* Mutation of TaskBm25: the sync is not guarded by a try of its own.
TaskBm25Unguarded(d) ==
    /\ task[d].pc = "bm25"
    /\ \/ /\ bm25' = [bm25 EXCEPT ![d] = IF task[d].total > 0 THEN @ + 1 ELSE @]
          /\ task' = [task EXCEPT ![d].pc = "bump"]
          /\ UNCHANGED <<registry, milvus, derived, loop, crashes, purge>>
       \/ "bm25Add" \in Faults /\ TaskFails(d)

\* Every chunk goes to BM25, those whose Milvus batch failed included.  When
\* the sync raises, the bump that follows it in the same try is skipped.
TaskBm25(d) ==
    /\ task[d].pc = "bm25"
    /\ \/ /\ bm25' = [bm25 EXCEPT ![d] = IF task[d].total > 0 THEN @ + 1 ELSE @]
          /\ task' = [task EXCEPT ![d].pc = "bump"]
       \/ /\ "bm25Add" \in Faults
          /\ task' = [task EXCEPT ![d].pc = "leg"]
          /\ UNCHANGED bm25
    /\ UNCHANGED <<registry, milvus, derived, loop, crashes, purge>>

TaskBump(d) ==
    /\ task[d].pc = "bump"
    /\ task' = [task EXCEPT ![d].pc = "leg"]
    /\ UNCHANGED <<registry, stores, loop, crashes, purge>>

\* An additive store replaces whatever it holds for the source, and bumps.
\* A failed or empty build changes nothing and does not bump.
SameSource(d) == {e \in Docs : NameOf(e) = NameOf(d)}

TaskLeg(d) ==
    LET i == task[d].leg IN
    /\ task[d].pc = "leg"
    /\ i <= LegCount
    /\ \/ /\ derived' = [derived EXCEPT ![i] = (@ \ SameSource(d)) \union {d}]
          /\ task' = [task EXCEPT ![d].pc = "legBump"]
       \/ /\ "legBuild" \in Faults
          /\ task' = [task EXCEPT ![d].leg = i + 1]
          /\ UNCHANGED derived
    /\ UNCHANGED <<registry, milvus, bm25, loop, crashes, purge>>

TaskLegBump(d) ==
    /\ task[d].pc = "legBump"
    /\ task' = [task EXCEPT ![d].pc = "leg", ![d].leg = @ + 1]
    /\ UNCHANGED <<registry, stores, loop, crashes, purge>>

TaskFinish(d) ==
    /\ task[d].pc = "leg"
    /\ task[d].leg = LegCount + 1
    /\ UpdateStatus(d, "indexed", task[d].inserted)
    /\ task' = [task EXCEPT ![d] = [NoTask EXCEPT !.pc = "ended"]]
    /\ UNCHANGED <<file, aged, stores, loop, crashes, purge>>

-----------------------------------------------------------------------------
(***************************************************************************)
(* DELETE /documents/{doc_id}: Milvus by content hash, then BM25 and the   *)
(* additive stores by source name, each with its own bump, then the row.   *)
(* A raising store is logged and skipped.                                  *)
(***************************************************************************)

DeleteBegin(d) ==
    /\ loop = Idle
    /\ HasRow(d)
    /\ loop' = [Idle EXCEPT !.at = "delMilvus", !.doc = d]
    /\ purge' = [purge EXCEPT ![d] = IF Running(d) THEN "during" ELSE "after"]
    /\ UNCHANGED <<registry, stores, task, crashes>>

Faulted(d) == purge' = [purge EXCEPT ![d] = "faulted"]

\* Whose Milvus rows the delete of d removes.
DeletedFromMilvus(d) == {e \in Docs : HashOf(e) = HashOf(d)}

DeleteMilvus ==
    LET d == loop.doc IN
    /\ loop.at = "delMilvus"
    /\ \/ /\ milvus' = [e \in Docs |-> IF e \in DeletedFromMilvus(d)
                                         THEN 0 ELSE milvus[e]]
          /\ UNCHANGED purge
       \/ "milvusDelete" \in Faults /\ Faulted(d) /\ UNCHANGED milvus
    /\ loop' = [loop EXCEPT !.at = "delBm25"]
    /\ UNCHANGED <<registry, bm25, derived, task, crashes>>

\* Mutation of DeleteBm25: the whole index is cleared.
DeleteAllBm25 ==
    /\ loop.at = "delBm25"
    /\ bm25' = [e \in Docs |-> 0]
    /\ loop' = [loop EXCEPT !.at = "delBump"]
    /\ UNCHANGED <<registry, milvus, derived, task, crashes, purge>>

DeleteBm25 ==
    LET d == loop.doc IN
    /\ loop.at = "delBm25"
    /\ \/ /\ bm25' = [e \in Docs |-> IF e \in SameSource(d) THEN 0 ELSE bm25[e]]
          /\ loop' = [loop EXCEPT !.at = "delBump"]
          /\ UNCHANGED purge
       \/ /\ "bm25Remove" \in Faults
          /\ Faulted(d)
          /\ loop' = [loop EXCEPT !.at = "delLeg"]
          /\ UNCHANGED bm25
    /\ UNCHANGED <<registry, milvus, derived, task, crashes>>

DeleteBump ==
    /\ loop.at = "delBump"
    /\ loop' = [loop EXCEPT !.at = "delLeg"]
    /\ UNCHANGED <<registry, stores, task, crashes, purge>>

\* A store that held nothing for the source is not worth a bump.
DeleteLeg ==
    LET d == loop.doc
        i == loop.leg
        gone == derived[i] \intersect SameSource(d)
    IN
    /\ loop.at = "delLeg"
    /\ i <= LegCount
    /\ \/ /\ gone # {}
          /\ derived' = [derived EXCEPT ![i] = @ \ gone]
          /\ loop' = [loop EXCEPT !.at = "delLegBump"]
          /\ UNCHANGED purge
       \/ /\ gone = {}
          /\ loop' = [loop EXCEPT !.leg = i + 1]
          /\ UNCHANGED <<derived, purge>>
       \/ /\ "legRemove" \in Faults
          /\ Faulted(d)
          /\ loop' = [loop EXCEPT !.leg = i + 1]
          /\ UNCHANGED derived
    /\ UNCHANGED <<registry, milvus, bm25, task, crashes>>

DeleteLegBump ==
    /\ loop.at = "delLegBump"
    /\ loop' = [loop EXCEPT !.at = "delLeg", !.leg = @ + 1]
    /\ UNCHANGED <<registry, stores, task, crashes, purge>>

\* Mutations of DeleteRow: the last additive store is skipped; the row is
\* overwritten instead of removed.
DeleteRowEarly ==
    /\ loop.at = "delLeg"
    /\ loop.leg >= LegCount
    /\ status' = [status EXCEPT ![loop.doc] = "deleted"]
    /\ loop' = Idle
    /\ UNCHANGED <<file, chunks, aged, stores, task, crashes, purge>>

DeleteRow ==
    /\ loop.at = "delLeg"
    /\ loop.leg = LegCount + 1
    /\ status' = [status EXCEPT ![loop.doc] = "deleted"]
    /\ loop' = Idle
    /\ UNCHANGED <<file, chunks, aged, stores, task, crashes, purge>>

-----------------------------------------------------------------------------
\* The process dies and restarts: threads, the handler in progress and the BM25
\* lists are memory; everything else is on disk.
Restart ==
    /\ crashes < MaxCrashes
    /\ crashes' = crashes + 1
    /\ task' = [d \in Docs |-> IF Running(d) THEN [NoTask EXCEPT !.pc = "dead"]
                                             ELSE task[d]]
    /\ loop' = Idle
    /\ bm25' = [d \in Docs |-> 0]
    /\ UNCHANGED <<registry, milvus, derived, purge>>

Upload ==
    \/ \E d \in Docs, n \in RawNames, h \in Hashes : UploadListStale(d, n, h)
    \/ \E d \in Docs : UploadFlip(d)
    \/ UploadCheckRegistry
    \/ UploadQueryMilvus
    \/ UploadRegister
    \/ UploadAbort

TaskStep(d) ==
    \/ TaskParse(d) \/ TaskMilvusRaises(d) \/ TaskMilvusBatch(d)
    \/ TaskBm25(d) \/ TaskBump(d)
    \/ TaskLeg(d) \/ TaskLegBump(d) \/ TaskFinish(d)

Delete ==
    \/ \E d \in Docs : DeleteBegin(d)
    \/ DeleteMilvus \/ DeleteBm25 \/ DeleteBump
    \/ DeleteLeg \/ DeleteLegBump \/ DeleteRow

Next ==
    \/ Upload
    \/ Delete
    \/ \E d \in Docs : TaskStep(d) \/ Age(d)
    \/ Restart

Spec == Init /\ [][Next]_vars

\* A handler that has begun is run to its end by the event loop, and every
\* task thread keeps being scheduled; clients owe the server nothing.
HandlerStep ==
    \/ \E d \in Docs : UploadFlip(d)
    \/ UploadCheckRegistry \/ UploadQueryMilvus \/ UploadRegister \/ UploadAbort
    \/ DeleteMilvus \/ DeleteBm25 \/ DeleteBump
    \/ DeleteLeg \/ DeleteLegBump \/ DeleteRow

Fairness ==
    /\ \A d \in Docs : WF_vars(TaskStep(d))
    /\ WF_vars(HandlerStep)

FairSpec == Spec /\ Fairness

-----------------------------------------------------------------------------
Row == [name : RawNames \union {None}, hash : Hashes \union {None}]

TaskRecord == [pc : TaskPcs \union {"idle", "ended", "dead"}, total : Nat,
               sent : Nat, inserted : Nat, leg : Nat]

LoopRecord == [at : UploadPcs \union DeletePcs \union {"idle"},
               doc : Docs \union {None}, name : RawNames \union {None},
               hash : Hashes \union {None}, found : Docs \union {None}, leg : Nat,
               stale : SUBSET Docs]

TypeOK ==
    /\ status \in [Docs -> {"unused", "processing", "indexed", "failed", "deleted"}]
    /\ file \in [Docs -> Row]
    /\ chunks \in [Docs -> Nat]
    /\ aged \subseteq Docs
    /\ milvus \in [Docs -> Nat]
    /\ bm25 \in [Docs -> Nat]
    /\ derived \in [1..LegCount -> SUBSET Docs]
    /\ task \in [Docs -> TaskRecord]
    /\ loop \in LoopRecord
    /\ crashes \in 0..MaxCrashes
    /\ purge \in [Docs -> {"never", "during", "after", "faulted"}]

-----------------------------------------------------------------------------
(***************************************************************************)
(* Properties.                                                             *)
(***************************************************************************)

\* Content is registered once: no two registry rows carry the same file hash,
\* whatever uploads, deletes, stale recoveries, lost tasks and restarts came
\* before.  The check and the put are two steps of the upload handler; that
\* no other handler runs between them is what makes this true.
UniqueHash ==
    \A d, e \in Docs :
        HasRow(d) /\ HasRow(e) /\ HashOf(d) = HashOf(e) => d = e

\* The registry tells the truth about Milvus: an indexed document that nobody
\* asked to delete has exactly the batches its row reports, although other
\* documents under the same name or with the same content came and went.
IndexedIsStored ==
    \A d \in Docs :
        status[d] = "indexed" /\ purge[d] = "never" => milvus[d] = chunks[d]

\* The same for the in-memory BM25 index within one process lifetime.
IndexedIsSearchable ==
    \A d \in Docs :
        status[d] = "indexed" /\ purge[d] = "never" /\ chunks[d] > 0 => bm25[d] > 0

\* No index holds anything of d.
Nowhere(d) ==
    milvus[d] = 0 /\ bm25[d] = 0 /\ \A i \in 1..LegCount : d \notin derived[i]

\* A document whose own task gave up left nothing behind in any index; rows
\* flipped by stale recovery (aged) are not covered: their task may live on.
FailedHoldsNothing ==
    \A d \in Docs :
        status[d] = "failed" /\ d \notin aged =>
            Nowhere(d)

\* A delete that found the document's task over, and no store raising, leaves
\* no trace of the document in Milvus, BM25 or any additive store, for good.
DeletedIsGone ==
    \A d \in Docs : status[d] = "deleted" /\ purge[d] = "after" => Nowhere(d)

\* rag/docs/API.md:578: a delete removes the document from the registry,
\* Milvus and BM25 in step; stated for when the document's task is over too.
DeleteIsComplete ==
    \A d \in Docs :
        status[d] = "deleted" /\ ~Running(d) => milvus[d] = 0 /\ bm25[d] = 0

\* An indexed row is ended by a delete, or by a stale recovery that had listed
\* it while its task was still at work: the recovery lists no indexed row, but
\* what it has listed it flips, whatever the task has made of it by then.
IndexedStays ==
    [][\A d \in Docs : status[d] = "indexed" =>
          /\ status'[d] \in {"indexed", "deleted"} \/ d \in loop.stale
          /\ d \in loop.stale' => d \in loop.stale]_vars

\* Only the document's own task declares it indexed, also after stale recovery
\* has flipped its row to failed, and never once the row is gone.
OnlyTaskIndexes ==
    [][\A d \in Docs :
          status[d] # "indexed" /\ status'[d] = "indexed" =>
              Running(d) /\ ~Running(d)' /\ HasRow(d)]_vars

\* With a process that stays up, no document is left processing for ever.
ProcessingEnds ==
    \A d \in Docs : status[d] = "processing" ~> status[d] # "processing"

-----------------------------------------------------------------------------
(***************************************************************************)
(* The strengthening that makes UniqueHash and DeletedIsGone inductive.    *)
(***************************************************************************)

\* The handler in progress works on a document of its kind, and between the
\* registry check and the put no row with the uploaded hash can appear.
HandlerOK ==
    /\ loop.at \in UploadPcs =>
         /\ loop.doc \in Docs /\ loop.name \in RawNames /\ loop.hash \in Hashes
         /\ status[loop.doc] = "unused"
    /\ loop.at \in {"query", "register"} => RowsHashed(loop.hash) = {}
    /\ loop.at = "flip" => loop.stale \subseteq aged
    /\ loop.at \in DeletePcs => loop.doc \in Docs /\ HasRow(loop.doc)

\* A task runs only for a registered document it has not yet declared indexed;
\* a document that is not registered yet has been neither indexed nor purged.
TaskOK ==
    \A d \in Docs :
        /\ Running(d) => status[d] \in {"processing", "failed", "deleted"}
        /\ status[d] = "unused" => purge[d] = "never"
        /\ purge[d] = "after" => ~Running(d)

\* How far a delete that met no task and no fault has cleaned the stores.
PurgeOK ==
    \A d \in Docs : purge[d] = "after" =>
        /\ status[d] = "deleted" => Nowhere(d)
        /\ loop.doc = d /\ loop.at \in DeletePcs =>
             /\ loop.at # "delMilvus" => milvus[d] = 0
             /\ loop.at \notin {"delMilvus", "delBm25"} => bm25[d] = 0
             /\ \A i \in 1..LegCount : i < loop.leg => d \notin derived[i]
             /\ loop.at = "delLegBump" /\ loop.leg \in 1..LegCount =>
                   d \notin derived[loop.leg]

\* The inductive invariant of the theorems in RetrievalPathProofs: what the
\* stores hold, what each task may do and where a handler stands fit together.
IngestionInv == TypeOK /\ HandlerOK /\ TaskOK /\ UniqueHash /\ PurgeOK

\* What ties a row to the stores: a task that nobody interfered with has stored
\* exactly what it counted, and before its first batch it has left no trace.
StoredOK(d) ==
    /\ status[d] = "unused" => task[d].pc = "idle" /\ Nowhere(d)
    /\ status[d] = "deleted" => purge[d] # "never"
    /\ Running(d) /\ purge[d] = "never" => milvus[d] = task[d].inserted
    /\ task[d].pc = "parse" \/ (task[d].pc = "milvus" /\ task[d].sent = 0) =>
          Nowhere(d) /\ task[d].inserted = 0
    /\ status[d] = "indexed" /\ purge[d] = "never" => milvus[d] = chunks[d]
    /\ status[d] = "failed" /\ d \notin aged => Nowhere(d) /\ ~Running(d)

\* The strengthening of IndexedIsStored and FailedHoldsNothing.
StoredInv ==
    /\ \A d \in Docs : StoredOK(d)
    /\ loop.at \in DeletePcs => purge[loop.doc] # "never"

=============================================================================
