---------------------------- MODULE RetrievalPath ----------------------------
(***************************************************************************)
(* The read path composed with the write path of DocumentIngestion:        *)
(* HybridRetriever.retrieve / aretrieve with their dense and sparse legs,  *)
(* the cold-start hydration of BM25 from Milvus, and the versioned result  *)
(* cache of rag/core/retrieval/cache.py.                                   *)
(*                                                                         *)
(* All readers ask one question that every document answers, so a result   *)
(* is the set of documents it was built from.  Rank fusion, reranking and  *)
(* selection only reorder and cut it and are left out; the graph leg is    *)
(* left out too (rag/core/retrieval/graph_retriever.py).                   *)
(***************************************************************************)
EXTENDS DocumentIngestion

CONSTANTS
    Readers,        \* threads that run retrieve
    NativeSparse,   \* enable_native_sparse: the sparse leg asks Milvus
    ReadFaults,     \* the reads that may raise in this instance
    MaxVersion      \* bound on cache version bumps in one process lifetime

ASSUME RetrievalAssumption ==
    /\ NativeSparse \in BOOLEAN
    /\ ReadFaults \subseteq {"dense", "sparse", "hydrate", "rank"}
    /\ MaxVersion \in Nat

VARIABLES
    version,    \* _retrieval_cache_version
    clearing,   \* threads between version += 1 and _retrieval_cache.clear()
    cache,      \* the result stored under the current version's key, or None
    reader      \* where each reader is and what it has read

pathVars == <<version, clearing, cache, reader>>
allVars == <<vars, pathVars>>

NoReader == [key |-> 0, dense |-> "idle", sparse |-> "idle",
             fromDense |-> {}, fromSparse |-> {}, snapshot |-> {}]

InMilvus == {d \in Docs : milvus[d] > 0}
InBm25 == {d \in Docs : bm25[d] > 0}

PathInit ==
    /\ Init
    /\ version = 0
    /\ clearing = {}
    /\ cache = None
    /\ reader = [r \in Readers |-> NoReader]

-----------------------------------------------------------------------------
(***************************************************************************)
(* The writers: every step of DocumentIngestion; those that call           *)
(* bump_retrieval_cache_version advance the version, and their thread then *)
(* clears the cache before it does anything else.  A key holds the version *)
(* of its query's start, so an entry under an earlier version is found by  *)
(* no later query: cache keeps the entry of the current version only.  The *)
(* event loop is thread None, the task of document d is thread d.          *)
(***************************************************************************)
LoopStep ==
    \/ Upload
    \/ \E d \in Docs : DeleteBegin(d)
    \/ DeleteMilvus \/ DeleteBm25 \/ DeleteLeg \/ DeleteRow

QuietTaskStep(d) ==
    \/ TaskParse(d) \/ TaskMilvusRaises(d) \/ TaskMilvusBatch(d)
    \/ TaskBm25(d) \/ TaskLeg(d) \/ TaskFinish(d)

QuietWrite ==
    /\ \/ None \notin clearing /\ LoopStep
       \/ \E d \in Docs \ clearing : QuietTaskStep(d)
       \/ \E d \in Docs : Age(d)
    /\ UNCHANGED pathVars

\* Mutation of BumpVersion: the indexing task does not advance the version.
BumpOnDelete(thread) ==
    /\ thread \notin clearing
    /\ version < MaxVersion
    /\ version' = IF thread = None THEN version + 1 ELSE version
    /\ cache' = IF thread = None THEN None ELSE cache
    /\ clearing' = clearing \union {thread}
    /\ UNCHANGED reader

BumpVersion(thread) ==
    /\ thread \notin clearing
    /\ version < MaxVersion
    /\ version' = version + 1
    /\ cache' = None
    /\ clearing' = clearing \union {thread}
    /\ UNCHANGED reader

LoopBump == (DeleteBump \/ DeleteLegBump) /\ BumpVersion(None)
TaskBumps(d) == (TaskBump(d) \/ TaskLegBump(d)) /\ BumpVersion(d)

ClearCache(thread) ==
    /\ thread \in clearing
    /\ clearing' = clearing \ {thread}
    /\ cache' = None
    /\ UNCHANGED <<vars, version, reader>>

\* The version, the cache and the readers are memory.
PathRestart ==
    /\ Restart
    /\ version' = 0
    /\ clearing' = {}
    /\ cache' = None
    /\ reader' = [r \in Readers |-> NoReader]

-----------------------------------------------------------------------------
(***************************************************************************)
(* The readers.  A miss starts both legs on threads of their own.          *)
(***************************************************************************)
Missing(r) == reader[r].dense # "idle"

\* The key is computed, with the version of this moment, before anything is
\* read.  A hit is returned as it is and changes nothing (ServedNow below).
StartQuery(r) ==
    /\ ~Missing(r)
    /\ cache = None
    /\ reader' = [reader EXCEPT ![r] = [NoReader EXCEPT !.key = version,
                                            !.dense = "run", !.sparse = "run"]]
    /\ UNCHANGED <<vars, version, clearing, cache>>

\* A leg that raises is logged and contributes nothing.
DenseLeg(r) ==
    /\ reader[r].dense = "run"
    /\ \E found \in {InMilvus} \union (IF "dense" \in ReadFaults THEN {{}} ELSE {}) :
         reader' = [reader EXCEPT ![r].dense = "done", ![r].fromDense = found]
    /\ UNCHANGED <<vars, version, clearing, cache>>

\* Native sparse search; when the query cannot be encoded it falls back to BM25.
NativeLeg(r) ==
    /\ NativeSparse
    /\ reader[r].sparse = "run"
    /\ \/ reader' = [reader EXCEPT ![r].sparse = "done", ![r].fromSparse = InMilvus]
       \/ /\ "sparse" \in ReadFaults
          /\ reader' = [reader EXCEPT ![r].sparse = "check"]
    /\ UNCHANGED <<vars, version, clearing, cache>>

LegacyLeg(r) ==
    /\ ~NativeSparse
    /\ reader[r].sparse = "run"
    /\ reader' = [reader EXCEPT ![r].sparse = "check"]
    /\ UNCHANGED <<vars, version, clearing, cache>>

\* _ensure_sparse_indexed: an index that holds anything is taken as complete.
CheckHydrated(r) ==
    /\ reader[r].sparse = "check"
    /\ reader' = [reader EXCEPT ![r].sparse = IF InBm25 # {} THEN "score"
                                                             ELSE "snapshot"]
    /\ UNCHANGED <<vars, version, clearing, cache>>

\* Every chunk Milvus holds now (up to the query limit, never met here).
HydrateQuery(r) ==
    /\ reader[r].sparse = "snapshot"
    /\ \/ reader' = [reader EXCEPT ![r].snapshot = InMilvus,
                       ![r].sparse = IF InMilvus = {} THEN "score" ELSE "hydrate"]
       \/ /\ "hydrate" \in ReadFaults
          /\ reader' = [reader EXCEPT ![r].sparse = "score"]
    /\ UNCHANGED <<vars, version, clearing, cache>>

\* The snapshot is appended, whatever became of its documents meanwhile.
HydrateAdd(r) ==
    /\ reader[r].sparse = "hydrate"
    /\ bm25' = [d \in Docs |-> IF d \in reader[r].snapshot THEN bm25[d] + 1
                                                           ELSE bm25[d]]
    /\ reader' = [reader EXCEPT ![r].sparse = "score", ![r].snapshot = {}]
    /\ UNCHANGED <<registry, milvus, derived, task, loop, crashes, purge>>
    /\ UNCHANGED <<version, clearing, cache>>

ScoreBm25(r) ==
    /\ reader[r].sparse = "score"
    /\ reader' = [reader EXCEPT ![r].sparse = "done", ![r].fromSparse = InBm25]
    /\ UNCHANGED <<vars, version, clearing, cache>>

BothDone(r) == reader[r].dense = "done" /\ reader[r].sparse = "done"
Found(r) == reader[r].fromDense \union reader[r].fromSparse

\* Mutation of StoreResult: the key is built when the result is stored.
StoreUnderCurrent(r) ==
    /\ BothDone(r)
    /\ cache' = Found(r)
    /\ reader' = [reader EXCEPT ![r] = NoReader]
    /\ UNCHANGED <<vars, version, clearing>>

\* The ranked result is stored under the key of the start, degraded or not.
StoreResult(r) ==
    /\ BothDone(r)
    /\ cache' = IF reader[r].key = version THEN Found(r) ELSE cache
    /\ reader' = [reader EXCEPT ![r] = NoReader]
    /\ UNCHANGED <<vars, version, clearing>>

\* Ranking raises: the fallback answer is not stored.
DropResult(r) ==
    /\ "rank" \in ReadFaults
    /\ BothDone(r)
    /\ reader' = [reader EXCEPT ![r] = NoReader]
    /\ UNCHANGED <<vars, version, clearing, cache>>

ReaderStep(r) ==
    \/ StartQuery(r) \/ DenseLeg(r)
    \/ NativeLeg(r) \/ LegacyLeg(r)
    \/ CheckHydrated(r) \/ HydrateQuery(r) \/ HydrateAdd(r) \/ ScoreBm25(r)
    \/ StoreResult(r) \/ DropResult(r)

PathNext ==
    \/ QuietWrite
    \/ LoopBump
    \/ \E d \in Docs : TaskBumps(d)
    \/ \E thread \in Docs \union {None} : ClearCache(thread)
    \/ PathRestart
    \/ \E r \in Readers : ReaderStep(r)

PathSpec == PathInit /\ [][PathNext]_allVars

-----------------------------------------------------------------------------
LegPcs == {"idle", "run", "done", "check", "snapshot", "hydrate", "score"}

ReaderRecord == [key : Nat, dense : LegPcs, sparse : LegPcs, fromDense : SUBSET Docs,
                 fromSparse : SUBSET Docs, snapshot : SUBSET Docs]

PathTypeOK ==
    /\ version \in 0..MaxVersion
    /\ clearing \subseteq Docs \union {None}
    /\ cache \in (SUBSET Docs) \union {None}
    /\ reader \in [Readers -> ReaderRecord]

-----------------------------------------------------------------------------
\* The result a query that starts now is served from the cache, if any.
ServedNow == IF cache = None THEN {} ELSE cache

\* cache.py:14-17: stale results from a prior index state are never served
\* after a knowledge-base mutation.  For deletes: once a delete that met no
\* running task and no raising store has returned, no cached answer holds the
\* document, although readers that began before it may store theirs after it.
NoStaleHit ==
    \A d \in Docs : status[d] = "deleted" /\ purge[d] = "after" => d \notin ServedNow

\* The same for additions: once a document is indexed, a cached answer that a
\* query is served holds it, although its result may have been computed while
\* the document was being written.
IndexedIsServed ==
    \A d \in Docs :
        status[d] = "indexed" /\ purge[d] = "never" /\ chunks[d] > 0
            /\ cache # None => d \in ServedNow

\* The strengthening of NoStaleHit: what is cached or on its way to the cache
\* under the current version was read after the delete's own bump.
FreshInv ==
    /\ \A r \in Readers : reader[r].key <= version
    /\ \A d \in Docs :
         /\ purge[d] = "after"
         /\ \/ status[d] = "deleted"
            \/ loop.doc = d /\ loop.at \in {"delLeg", "delLegBump"}
         => /\ d \notin ServedNow
            /\ \A r \in Readers : reader[r].key = version => d \notin Found(r)

\* Readers change nothing the write path knows of: with native sparse search
\* the composed system behaves as DocumentIngestion does alone.
WritePath == Spec
=============================================================================
