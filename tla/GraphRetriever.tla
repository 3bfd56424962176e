----------------------------- MODULE GraphRetriever -----------------------------
(***************************************************************************)
(* The GraphRAG leg: entities extracted from documents in SQLite           *)
(* (documents/graph_store.py) and the in-memory matrix of their embeddings *)
(* that queries search (core/retrieval/graph_retriever.py).  Indexing      *)
(* tasks and delete requests write the store, invalidate the matrix and    *)
(* bump the version of the retrieval cache, in that order (documents.py);  *)
(* queries rebuild the matrix when they find it invalidated.  Writers and  *)
(* queries are threads.  An answer is cached under the version the query   *)
(* read when it started (hybrid_retriever.py).                             *)
(*                                                                         *)
(* Bounds: MaxWrites writes, MaxQueries queries, MaxReloads calls of        *)
(* reload, MaxSwaps restarts with another embedding model, MaxFails         *)
(* failures of the embedding service or of SQLite.                         *)
(***************************************************************************)
EXTENDS Naturals, FiniteSets

CONSTANTS Sources,   \* source names
          Models,    \* embedding models an administrator may configure
          Writers,   \* indexing tasks and delete requests
          Queries,   \* threads that retrieve
          Dim,       \* the dimension of a model's vectors; two may share it
          MaxWrites, MaxQueries, MaxReloads, MaxSwaps, MaxFails,
          None

ASSUME GraphAssumption ==
    /\ None \notin Models /\ None \notin Queries
    /\ {MaxWrites, MaxQueries, MaxReloads, MaxSwaps, MaxFails} \subseteq Nat
    /\ Dim \in [Models -> Nat \ {0}]

VARIABLES
    store,     \* model that embedded each source's entities, None without any
    dim,       \* graph_meta.embedding_dim, 0 before the first write
    model,     \* the model this process embeds with
    matrix,    \* the entities searched, per source like store
    loaded,    \* _loaded
    lock,      \* the thread that holds the retriever's lock
    version,   \* version of the retrieval cache
    cached,    \* the answer cached under the current version, None without any
    writer,    \* what each writer is doing
    query,     \* what each query is doing
    count      \* how often each bounded action has happened

cache == <<version, cached>>
vars == <<store, dim, model, matrix, loaded, lock, cache, writer, query, count>>

EmptyGraph == [s \in Sources |-> None]
Empty(graph) == \A s \in Sources : graph[s] = None

QueryIdle == [at |-> "idle", version |-> 0, read |-> EmptyGraph, dim |-> 0]

Init ==
    /\ store = EmptyGraph
    /\ dim = 0
    /\ model \in Models
    /\ matrix = EmptyGraph
    /\ loaded = FALSE
    /\ lock = None
    /\ version = 0
    /\ cached = None
    /\ writer = [w \in Writers |-> "idle"]
    /\ query = [q \in Queries |-> QueryIdle]
    /\ count = [writes |-> 0, queries |-> 0, reloads |-> 0, swaps |-> 0, fails |-> 0]

Count(what, bound) ==
    /\ count[what] < bound
    /\ count' = [count EXCEPT ![what] = @ + 1]

WriterGoes(w, place) == writer' = [writer EXCEPT ![w] = place]
QueryGoes(q, place) == query' = [query EXCEPT ![q].at = place]

-----------------------------------------------------------------------------
(* Writers.  GraphStore.upsert replaces a source's rows in one transaction  *)
(* and records the dimension of the vectors it wrote.                       *)

Upsert(w) ==
    /\ writer[w] = "idle"
    /\ Count("writes", MaxWrites)
    /\ \E s \in Sources : store' = [store EXCEPT ![s] = model]
    /\ WriterGoes(w, "committed")
    /\ dim' = Dim[model]
    /\ UNCHANGED <<model, matrix, loaded, lock, cache, query>>

(* _remove_graph_if_enabled invalidates and bumps only if entities were     *)
(* removed.                                                                 *)
RemoveBySource(w) ==
    /\ writer[w] = "idle"
    /\ Count("writes", MaxWrites)
    /\ \E s \in Sources :
         /\ store[s] # None
         /\ store' = [store EXCEPT ![s] = None]
    /\ WriterGoes(w, "committed")
    /\ UNCHANGED <<dim, model, matrix, loaded, lock, cache, query>>

(* Mutation of Invalidate: it does not wait for a rebuild in progress. *)
InvalidateUnlocked(w) ==
    /\ writer[w] = "committed"
    /\ matrix' = EmptyGraph
    /\ loaded' = FALSE
    /\ WriterGoes(w, "invalidated")
    /\ UNCHANGED <<store, dim, model, lock, cache, query, count>>

Invalidate(w) ==
    /\ writer[w] = "committed"
    /\ lock = None
    /\ matrix' = EmptyGraph
    /\ loaded' = FALSE
    /\ WriterGoes(w, "invalidated")
    /\ UNCHANGED <<store, dim, model, lock, cache, query, count>>

(* Mutation of Bump: the cached answers are kept. *)
BumpNothing(w) ==
    /\ writer[w] = "invalidated"
    /\ WriterGoes(w, "idle")
    /\ UNCHANGED <<store, dim, model, matrix, loaded, lock, cache, query, count>>

(* Entries of the old version are never looked up again. *)
Bump(w) ==
    /\ writer[w] = "invalidated"
    /\ version' = version + 1
    /\ cached' = None
    /\ WriterGoes(w, "idle")
    /\ UNCHANGED <<store, dim, model, matrix, loaded, lock, query, count>>

-----------------------------------------------------------------------------
(* Queries. *)

StartQuery(q) ==
    /\ query[q].at = "idle"
    /\ Count("queries", MaxQueries)
    /\ query' = [query EXCEPT ![q] =
                   [QueryIdle EXCEPT !.at = "ensure", !.version = version]]
    /\ UNCHANGED <<store, dim, model, matrix, loaded, lock, cache, writer>>

(* reload clears _loaded without the lock, then loads like a query. *)
Reload(q) ==
    /\ query[q].at = "idle"
    /\ Count("reloads", MaxReloads)
    /\ loaded' = FALSE
    /\ query' = [query EXCEPT ![q] = [QueryIdle EXCEPT !.at = "reload"]]
    /\ UNCHANGED <<store, dim, model, matrix, lock, cache, writer>>

Ensuring(q) == query[q].at \in {"ensure", "reload"}
AfterLoad(q) == IF query[q].at \in {"ensure", "ensure_swap"} THEN "search" ELSE "idle"

SkipLoad(q) ==
    /\ Ensuring(q)
    /\ loaded
    /\ QueryGoes(q, AfterLoad(q))
    /\ UNCHANGED <<store, dim, model, matrix, loaded, lock, cache, writer, count>>

(* _build_matrix_locked reads every row, then the recorded dimension. *)
LoadRows(q) ==
    /\ Ensuring(q)
    /\ lock = None
    /\ ~loaded
    /\ lock' = q
    /\ query' = [query EXCEPT ![q].at = IF @ = "ensure" THEN "ensure_dim" ELSE "reload_dim",
                              ![q].read = store]
    /\ UNCHANGED <<store, dim, model, matrix, loaded, cache, writer, count>>

LoadDim(q) ==
    /\ query[q].at \in {"ensure_dim", "reload_dim"}
    /\ query' = [query EXCEPT ![q].at = IF @ = "ensure_dim" THEN "ensure_swap" ELSE "reload_swap",
                              ![q].dim = dim]
    /\ UNCHANGED <<store, dim, model, matrix, loaded, lock, cache, writer, count>>

(* A recorded dimension that some row does not have. *)
Drifted(read, expected) ==
    /\ ~Empty(read)
    /\ expected # 0
    /\ \E s \in Sources : read[s] # None /\ Dim[read[s]] # expected

Swap(q) ==
    LET read == query[q].read
        drift == Drifted(read, query[q].dim)
    IN  /\ query[q].at \in {"ensure_swap", "reload_swap"}
        /\ matrix' = IF drift THEN EmptyGraph ELSE read
        /\ loaded' = TRUE
        /\ lock' = None
        /\ query' = [query EXCEPT ![q].at = AfterLoad(q), ![q].read = EmptyGraph, ![q].dim = 0]
        /\ UNCHANGED <<store, dim, model, cache, writer, count>>

(* The sources of the answer, and whether it is the [] of an exception: the  *)
(* caller sees the sources only, and caches what it gets.                    *)
Answers == [sources : SUBSET Sources, raised : BOOLEAN]
Found(sources) == [sources |-> sources, raised |-> FALSE]
Blank == [sources |-> {}, raised |-> TRUE]

Answer(q, answer) ==
    /\ cached' = IF query[q].version = version THEN answer ELSE cached
    /\ query' = [query EXCEPT ![q] = QueryIdle]
    /\ UNCHANGED <<store, dim, model, matrix, loaded, version, writer>>

(* `empty graph is a valid, non-degraded empty result' *)
SearchNothing(q) ==
    /\ query[q].at = "search"
    /\ Empty(matrix)
    /\ Answer(q, Found({}))
    /\ UNCHANGED <<lock, count>>

(* A query vector of another dimension raises and is caught. *)
SearchRaises(q) ==
    /\ query[q].at = "search"
    /\ \E s \in Sources : matrix[s] # None /\ Dim[matrix[s]] # Dim[model]
    /\ Answer(q, Blank)
    /\ UNCHANGED <<lock, count>>

(* embed_query or a read of the store raises and is caught, too. *)
SearchFails(q) ==
    /\ \/ query[q].at = "search" /\ ~Empty(matrix)
       \/ query[q].at = "lookup"
    /\ Count("fails", MaxFails)
    /\ Answer(q, Blank)
    /\ UNCHANGED lock

(* A read of the rebuild raises: in a query that is caught, in reload not.   *)
LoadFails(q) ==
    /\ query[q].at \in {"ensure_dim", "ensure_swap", "reload_dim", "reload_swap"}
    /\ Count("fails", MaxFails)
    /\ lock' = None
    /\ IF query[q].at \in {"ensure_dim", "ensure_swap"}
         THEN Answer(q, Blank)
         ELSE /\ query' = [query EXCEPT ![q] = QueryIdle]
              /\ UNCHANGED <<store, dim, model, matrix, loaded, cache, writer>>

(* _matrix_snapshot takes the matrix under the lock (the low and the high    *)
(* level each take one; they are one step here) ...                          *)
Snapshot(q) ==
    /\ query[q].at = "search"
    /\ lock = None
    /\ ~Empty(matrix)
    /\ \A s \in Sources : matrix[s] # None => Dim[matrix[s]] = Dim[model]
    /\ query' = [query EXCEPT ![q].at = "lookup", ![q].read = matrix]
    /\ UNCHANGED <<store, dim, model, matrix, loaded, lock, cache, writer, count>>

Holds(graph) == {s \in Sources : graph[s] # None}

(* ... and chunk_text_for reads the texts from the store. *)
Lookup(q) ==
    /\ query[q].at = "lookup"
    /\ Answer(q, Found(Holds(query[q].read) \cap Holds(store)))
    /\ UNCHANGED <<lock, count>>

-----------------------------------------------------------------------------
(* Restart with another embedding model: memory is lost, the store stays,   *)
(* and the cache's keys carry the model's fingerprint.                      *)
SwapModel ==
    /\ Count("swaps", MaxSwaps)
    /\ model' \in Models \ {model}
    /\ matrix' = EmptyGraph
    /\ loaded' = FALSE
    /\ lock' = None
    /\ cached' = None
    /\ writer' = [w \in Writers |-> "idle"]
    /\ query' = [q \in Queries |-> QueryIdle]
    /\ UNCHANGED <<store, dim, version>>

WriterStep(w) == Upsert(w) \/ RemoveBySource(w) \/ Invalidate(w) \/ Bump(w)

Begin(q) == StartQuery(q) \/ Reload(q)

Retrieve(q) ==
    \/ SkipLoad(q) \/ LoadRows(q) \/ LoadDim(q) \/ Swap(q)
    \/ LoadFails(q) \/ SearchNothing(q) \/ SearchRaises(q) \/ SearchFails(q)
    \/ Snapshot(q) \/ Lookup(q)

Next ==
    \/ \E w \in Writers : WriterStep(w)
    \/ \E q \in Queries : Begin(q) \/ Retrieve(q)
    \/ SwapModel

Spec == Init /\ [][Next]_vars

-----------------------------------------------------------------------------
Graphs == [Sources -> Models \cup {None}]

WriterPlaces == {"idle", "committed", "invalidated"}
QueryPlaces == {"idle", "ensure", "ensure_dim", "ensure_swap", "search", "lookup",
                "reload", "reload_dim", "reload_swap"}
Building(q) == query[q].at \in {"ensure_dim", "ensure_swap", "reload_dim", "reload_swap"}

(* The state is of the kind its declaration says, and the lock is held by    *)
(* the one query that is rebuilding the matrix, if any.                      *)
TypeOK ==
    /\ store \in Graphs
    /\ dim \in Nat
    /\ model \in Models
    /\ matrix \in Graphs
    /\ loaded \in BOOLEAN
    /\ lock \in Queries \cup {None}
    /\ version \in Nat
    /\ cached \in Answers \cup {None}
    /\ writer \in [Writers -> WriterPlaces]
    /\ query \in [Queries -> [at : QueryPlaces, version : Nat, read : Graphs, dim : Nat]]
    /\ count \in [{"writes", "queries", "reloads", "swaps", "fails"} -> Nat]
    /\ \A q \in Queries : Building(q) <=> lock = q

Pending == \E w \in Writers : writer[w] = "committed"
Settled == \A w \in Writers : writer[w] = "idle"

(* What a matrix built now would hold. *)
Current == IF Drifted(store, dim) THEN EmptyGraph ELSE store

(* A loaded matrix is what a rebuild would give now, unless a writer has     *)
(* committed and not invalidated yet; in particular it never mixes vectors   *)
(* of two dimensions (_ensure_loaded, _invalidate, _build_matrix_locked).    *)
MatrixIsFresh == loaded /\ ~Pending => matrix = Current

(* Once every writer is through, a cached answer holds exactly the sources   *)
(* in the store, unless an exception of its own query left it blank: neither *)
(* a removed source nor the blank answer of a query that met an invalidated  *)
(* matrix is kept (documents.py invalidates before it bumps).  The blank of  *)
(* an exception is kept: nothing tells it from an answer without results     *)
(* (graph_retriever.py, retrieve).                                           *)
Exact(answer) ==
    answer.sources = IF answer.raised THEN {} ELSE Holds(Current)

CachedIsCurrent == Settled /\ cached # None => Exact(cached)
=============================================================================
