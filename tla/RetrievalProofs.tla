--------------------------- MODULE RetrievalProofs ---------------------------
(***************************************************************************)
(* What MCRetrieval checks on a small instance, for every value of the     *)
(* constants: the graph retriever (Spec), the query pipeline               *)
(* (PipelineSpec) and the collections (CorpusSpec).  The three share no    *)
(* variable; each part below has its inductive invariant, a lemma for each *)
(* action, and the theorems.                                               *)
(***************************************************************************)
EXTENDS GraphRetriever, QueryPipeline, CollectionMigration, FiniteSetTheorems, TLAPS

-----------------------------------------------------------------------------
(* The graph retriever.                                                    *)

Kinds == {"writes", "queries", "reloads", "swaps", "fails"}
QueryStates == [at : QueryPlaces, version : Nat, read : Graphs, dim : Nat]

\* A rebuild that no writer has overtaken read what stands in the store: a
\* writer that commits under it cannot invalidate before it is over.
RebuildOK ==
    \A q \in Queries : Building(q) /\ ~Pending =>
        /\ query[q].read = store
        /\ query[q].at \in {"ensure_swap", "reload_swap"} => query[q].dim = dim

\* No query carries a version of the cache that has not been reached.
VersionsOK == \A q \in Queries : query[q].version <= version

\* The matrix a query took its snapshot of was of this model's dimension.
SnapshotsOK ==
    \A q \in Queries : query[q].at = "lookup" =>
        \A s \in Sources : query[q].read[s] # None => Dim[query[q].read[s]] = Dim[model]

\* While no writer is on its way, a query whose answer would be cached searches
\* what the store holds: the matrix may have been marked for a reload, but is
\* not replaced by another.
SearchesOK ==
    Settled =>
        \A q \in Queries : query[q].version = version =>
            /\ query[q].at = "search" => matrix = Current
            /\ query[q].at = "lookup" => query[q].read = Current

GraphInv ==
    TypeOK /\ RebuildOK /\ MatrixIsFresh /\ VersionsOK /\ SnapshotsOK /\ SearchesOK
      /\ CachedIsCurrent

LEMMA Counting ==
    ASSUME TypeOK, NEW what \in Kinds, NEW bound, Count(what, bound)
    PROVE  count' \in [Kinds -> Nat]
BY DEF TypeOK, Count, Kinds

LEMMA EmptyIsGraph == EmptyGraph \in Graphs /\ QueryIdle \in QueryStates /\ QueryIdle.at = "idle"
                      /\ QueryIdle.version = 0
BY DEF EmptyGraph, Graphs, QueryIdle, QueryStates, QueryPlaces

LEMMA QueryStep ==
    ASSUME TypeOK, NEW q \in Queries, NEW new \in QueryStates,
           query' = [query EXCEPT ![q] = new]
    PROVE  /\ query' \in [Queries -> QueryStates]
           /\ query'[q] = new
           /\ \A p \in Queries \ {q} : query'[p] = query[p]
BY DEF TypeOK, QueryStates

LEMMA WriterMoves ==
    ASSUME TypeOK, NEW w \in Writers, NEW place \in WriterPlaces, WriterGoes(w, place)
    PROVE  /\ writer' \in [Writers -> WriterPlaces]
           /\ writer'[w] = place
           /\ \A v \in Writers \ {w} : writer'[v] = writer[v]
BY DEF TypeOK, WriterGoes

LEMMA UpsertKeeps ==
    ASSUME GraphInv, NEW w \in Writers, Upsert(w)
    PROVE  GraphInv'
<1>1. WriterGoes(w, "committed") /\ "committed" \in WriterPlaces BY DEF Upsert, WriterPlaces
<1>2. writer' \in [Writers -> WriterPlaces] /\ writer'[w] = "committed"
      BY <1>1, WriterMoves DEF GraphInv
<1>3. Pending' /\ ~Settled' BY <1>2 DEF Pending, Settled
<1>4. TypeOK'
  <2>1. count' \in [Kinds -> Nat] BY Counting DEF Upsert, GraphInv, Kinds
  <2>2. store' \in Graphs BY DEF Upsert, GraphInv, TypeOK, Graphs
  <2>3. dim' \in Nat BY GraphAssumption DEF Upsert, GraphInv, TypeOK
  <2>4. UNCHANGED <<model, matrix, loaded, lock, version, cached, query>> BY DEF Upsert, cache
  <2>5. QED BY <1>2, <2>1, <2>2, <2>3, <2>4 DEF GraphInv, TypeOK, Kinds, Building
<1>5. RebuildOK' /\ MatrixIsFresh' /\ SearchesOK' /\ CachedIsCurrent'
      BY <1>3 DEF RebuildOK, MatrixIsFresh, SearchesOK, CachedIsCurrent
<1>6. VersionsOK' /\ SnapshotsOK'
  <2>1. UNCHANGED <<model, version, query>> BY DEF Upsert, cache
  <2>2. QED BY <2>1 DEF GraphInv, VersionsOK, SnapshotsOK
<1>7. QED BY <1>4, <1>5, <1>6 DEF GraphInv

LEMMA RemoveBySourceKeeps ==
    ASSUME GraphInv, NEW w \in Writers, RemoveBySource(w)
    PROVE  GraphInv'
<1>1. WriterGoes(w, "committed") /\ "committed" \in WriterPlaces
      BY DEF RemoveBySource, WriterPlaces
<1>2. writer' \in [Writers -> WriterPlaces] /\ writer'[w] = "committed"
      BY <1>1, WriterMoves DEF GraphInv
<1>3. Pending' /\ ~Settled' BY <1>2 DEF Pending, Settled
<1>4. TypeOK'
  <2>1. count' \in [Kinds -> Nat] BY Counting DEF RemoveBySource, GraphInv, Kinds
  <2>2. store' \in Graphs BY DEF RemoveBySource, GraphInv, TypeOK, Graphs
  <2>3. UNCHANGED <<dim, model, matrix, loaded, lock, version, cached, query>>
        BY DEF RemoveBySource, cache
  <2>4. QED BY <1>2, <2>1, <2>2, <2>3 DEF GraphInv, TypeOK, Kinds, Building
<1>5. RebuildOK' /\ MatrixIsFresh' /\ SearchesOK' /\ CachedIsCurrent'
      BY <1>3 DEF RebuildOK, MatrixIsFresh, SearchesOK, CachedIsCurrent
<1>6. VersionsOK' /\ SnapshotsOK'
  <2>1. UNCHANGED <<model, version, query>> BY DEF RemoveBySource, cache
  <2>2. QED BY <2>1 DEF GraphInv, VersionsOK, SnapshotsOK
<1>7. QED BY <1>4, <1>5, <1>6 DEF GraphInv

LEMMA InvalidateKeeps ==
    ASSUME GraphInv, NEW w \in Writers, Invalidate(w)
    PROVE  GraphInv'
<1>1. WriterGoes(w, "invalidated") /\ "invalidated" \in WriterPlaces
      BY DEF Invalidate, WriterPlaces
<1>2. writer' \in [Writers -> WriterPlaces] /\ writer'[w] = "invalidated"
      BY <1>1, WriterMoves DEF GraphInv
<1>3. ~Settled' BY <1>2 DEF Settled
<1>4. UNCHANGED <<store, dim, model, lock, version, cached, query, count>>
      /\ matrix' = EmptyGraph /\ ~loaded' /\ loaded' = FALSE /\ lock = None
      BY DEF Invalidate, cache
<1>5. TypeOK' BY <1>2, <1>4, EmptyIsGraph DEF GraphInv, TypeOK, Building
<1>6. \A q \in Queries : ~Building(q)'
  <2>1. \A q \in Queries : ~Building(q) BY <1>4, GraphAssumption DEF GraphInv, TypeOK
  <2>2. QED BY <2>1, <1>4 DEF Building
<1>7. RebuildOK' /\ MatrixIsFresh' /\ SearchesOK' /\ CachedIsCurrent'
      BY <1>3, <1>4, <1>6 DEF RebuildOK, MatrixIsFresh, SearchesOK, CachedIsCurrent
<1>8. VersionsOK' /\ SnapshotsOK' BY <1>4 DEF GraphInv, VersionsOK, SnapshotsOK
<1>9. QED BY <1>5, <1>7, <1>8 DEF GraphInv

LEMMA BumpKeeps ==
    ASSUME GraphInv, NEW w \in Writers, Bump(w)
    PROVE  GraphInv'
<1>1. WriterGoes(w, "idle") /\ "idle" \in WriterPlaces BY DEF Bump, WriterPlaces
<1>2. /\ writer' \in [Writers -> WriterPlaces] /\ writer'[w] = "idle"
      /\ \A v \in Writers \ {w} : writer'[v] = writer[v]
      BY <1>1, WriterMoves DEF GraphInv
<1>3. UNCHANGED <<store, dim, model, matrix, loaded, lock, query, count>>
      /\ version' = version + 1 /\ cached' = None /\ writer[w] = "invalidated"
      BY DEF Bump
<1>4. Pending' <=> Pending
  <2>1. \A v \in Writers : writer'[v] = "committed" <=> writer[v] = "committed"
        BY <1>2, <1>3
  <2>2. QED BY <2>1 DEF Pending
<1>5. TypeOK' BY <1>2, <1>3 DEF GraphInv, TypeOK, Building
<1>6. RebuildOK' /\ MatrixIsFresh'
      BY <1>3, <1>4 DEF GraphInv, RebuildOK, MatrixIsFresh, Building, Current, Drifted, Empty
<1>7. \A q \in Queries : query'[q].version <= version /\ query'[q].version # version'
  <2>1. \A q \in Queries : query[q].version \in Nat /\ version \in Nat
        BY DEF GraphInv, TypeOK
  <2>2. QED BY <1>3, <2>1 DEF GraphInv, VersionsOK
<1>8. VersionsOK'
  <2>1. \A q \in Queries : query'[q].version \in Nat /\ version \in Nat
        BY <1>3 DEF GraphInv, TypeOK
  <2>2. QED BY <1>3, <1>7, <2>1 DEF VersionsOK
<1>9. SearchesOK' /\ CachedIsCurrent' BY <1>3, <1>7 DEF SearchesOK, CachedIsCurrent
<1>10. SnapshotsOK' BY <1>3 DEF GraphInv, SnapshotsOK
<1>11. QED BY <1>5, <1>6, <1>8, <1>9, <1>10 DEF GraphInv


BuildPlaces == {"ensure_dim", "ensure_swap", "reload_dim", "reload_swap"}

\* A query moves, the store and the writers stand.
LEMMA QueryMoves ==
    ASSUME GraphInv, NEW q \in Queries, NEW new \in QueryStates,
           query' = [query EXCEPT ![q] = new],
           UNCHANGED <<store, dim, model, version, writer>>,
           matrix' \in Graphs, loaded' \in BOOLEAN, count' \in [Kinds -> Nat],
           lock' \in Queries \cup {None},
           new.at \in BuildPlaces <=> lock' = q,
           \A p \in Queries \ {q} : lock' = p <=> lock = p,
           ~Pending => (matrix' = matrix \/ matrix' = Current),
           loaded' /\ ~Pending => matrix' = Current,
           new.at \in BuildPlaces /\ ~Pending =>
               /\ new.read = store
               /\ new.at \in {"ensure_swap", "reload_swap"} => new.dim = dim,
           new.version <= version,
           new.at = "lookup" =>
               \A s \in Sources : new.read[s] # None => Dim[new.read[s]] = Dim[model],
           Settled /\ new.version = version =>
               /\ new.at = "search" => matrix' = Current
               /\ new.at = "lookup" => new.read = Current,
           cached' \in Answers \cup {None},
           Settled /\ cached' # cached => Exact(cached')
    PROVE  GraphInv'
<1>1. /\ query' \in [Queries -> QueryStates] /\ query'[q] = new
      /\ \A p \in Queries \ {q} : query'[p] = query[p]
      BY QueryStep DEF GraphInv
<1>2. Current' = Current /\ (Pending' <=> Pending) /\ (Settled' <=> Settled)
      BY DEF Current, Drifted, Empty, Pending, Settled
<1>3. \A p \in Queries : Building(p) <=> query[p].at \in BuildPlaces
      BY DEF Building, BuildPlaces
<1>4. \A p \in Queries : Building(p)' <=> query'[p].at \in BuildPlaces
      BY DEF Building, BuildPlaces
<1>5. TypeOK'
  <2>1. \A p \in Queries : Building(p)' <=> lock' = p
    <3>1. CASE lock' = q BY <3>1, <1>1, <1>3, <1>4 DEF GraphInv, TypeOK
    <3>2. CASE lock' # q BY <3>2, <1>1, <1>3, <1>4 DEF GraphInv, TypeOK
    <3>3. QED BY <3>1, <3>2
  <2>2. QED BY <1>1, <2>1 DEF GraphInv, TypeOK, QueryStates, Kinds
<1>6. RebuildOK'
  <2>1. ASSUME NEW p \in Queries, query'[p].at \in BuildPlaces, ~Pending
        PROVE  /\ query'[p].read = store
               /\ query'[p].at \in {"ensure_swap", "reload_swap"} => query'[p].dim = dim
    <3>1. CASE p = q BY <2>1, <3>1, <1>1
    <3>2. CASE p # q BY <2>1, <3>2, <1>1, <1>3 DEF GraphInv, RebuildOK
    <3>3. QED BY <3>1, <3>2
  <2>2. QED BY <2>1, <1>2, <1>4 DEF RebuildOK
<1>7. MatrixIsFresh' BY <1>2 DEF MatrixIsFresh
<1>8. VersionsOK' BY <1>1 DEF GraphInv, VersionsOK
<1>9. SnapshotsOK'
  <2>1. ASSUME NEW p \in Queries, query'[p].at = "lookup", NEW s \in Sources,
               query'[p].read[s] # None
        PROVE  Dim[query'[p].read[s]] = Dim[model]
    <3>1. CASE p = q BY <2>1, <3>1, <1>1
    <3>2. CASE p # q BY <2>1, <3>2, <1>1 DEF GraphInv, SnapshotsOK
    <3>3. QED BY <3>1, <3>2
  <2>2. QED BY <2>1 DEF SnapshotsOK
<1>10. SearchesOK'
  <2>1. ASSUME NEW p \in Queries, Settled, query'[p].version = version
        PROVE  /\ query'[p].at = "search" => matrix' = Current
               /\ query'[p].at = "lookup" => query'[p].read = Current
    <3>0. ~Pending BY <2>1 DEF Settled, Pending
    <3>1. CASE p = q BY <2>1, <3>1, <1>1
    <3>2. CASE p # q
      <4>1. query'[p] = query[p] BY <3>2, <1>1
      <4>2. /\ query[p].at = "search" => matrix = Current
            /\ query[p].at = "lookup" => query[p].read = Current
            BY <2>1, <4>1 DEF GraphInv, SearchesOK
      <4>3. QED BY <4>1, <4>2, <3>0
    <3>3. QED BY <3>1, <3>2
  <2>2. QED BY <2>1, <1>2 DEF SearchesOK
<1>11. CachedIsCurrent' BY <1>2 DEF GraphInv, CachedIsCurrent, Exact, Holds
<1>12. QED BY <1>5, <1>6, <1>7, <1>8, <1>9, <1>10, <1>11 DEF GraphInv

LEMMA StartQueryKeeps ==
    ASSUME GraphInv, NEW q \in Queries, StartQuery(q)
    PROVE  GraphInv'
<1> DEFINE new == [QueryIdle EXCEPT !.at = "ensure", !.version = version]
<1>1. query' = [query EXCEPT ![q] = new] BY DEF StartQuery
<1>2. new \in QueryStates /\ new.at = "ensure" /\ new.version = version
      BY EmptyIsGraph DEF GraphInv, TypeOK, QueryStates, QueryPlaces, QueryIdle
<1>3. UNCHANGED <<store, dim, model, matrix, loaded, lock, version, cached, writer>>
      BY DEF StartQuery, cache
<1>4. count' \in [Kinds -> Nat] BY Counting DEF StartQuery, GraphInv, Kinds
<1>5. lock # q BY DEF StartQuery, GraphInv, TypeOK, Building
<1> HIDE DEF new
<1>6. /\ matrix \in Graphs /\ loaded \in BOOLEAN /\ lock \in Queries \cup {None}
      /\ version \in Nat /\ cached \in Answers \cup {None}
      BY DEF GraphInv, TypeOK
<1>7. loaded /\ ~Pending => matrix = Current BY DEF GraphInv, MatrixIsFresh
<1>8. new.at \notin BuildPlaces BY <1>2 DEF BuildPlaces
<1>9. new.version <= version BY <1>2, <1>6
<1>10. QED BY <1>1, <1>2, <1>3, <1>4, <1>5, <1>6, <1>7, <1>8, <1>9, QueryMoves

LEMMA ReloadKeeps ==
    ASSUME GraphInv, NEW q \in Queries, Reload(q)
    PROVE  GraphInv'
<1> DEFINE new == [QueryIdle EXCEPT !.at = "reload"]
<1>1. query' = [query EXCEPT ![q] = new] BY DEF Reload
<1>2. new \in QueryStates /\ new.at = "reload" /\ new.version = 0
      BY EmptyIsGraph DEF GraphInv, TypeOK, QueryStates, QueryPlaces, QueryIdle
<1>3. UNCHANGED <<store, dim, model, matrix, lock, version, cached, writer>> /\ loaded' = FALSE
      BY DEF Reload, cache
<1>4. count' \in [Kinds -> Nat] BY Counting DEF Reload, GraphInv, Kinds
<1>5. lock # q BY DEF Reload, GraphInv, TypeOK, Building
<1> HIDE DEF new
<1>6. /\ matrix \in Graphs /\ lock \in Queries \cup {None}
      /\ version \in Nat /\ cached \in Answers \cup {None}
      BY DEF GraphInv, TypeOK
<1>8. new.at \notin BuildPlaces BY <1>2 DEF BuildPlaces
<1>9. new.version <= version BY <1>2, <1>6
<1>10. QED BY <1>1, <1>2, <1>3, <1>4, <1>5, <1>6, <1>8, <1>9, QueryMoves

\* Where a step leaves a query that only changes its place.
LEMMA QueryGoesTo ==
    ASSUME TypeOK, NEW q \in Queries, NEW place \in QueryPlaces, NEW read \in Graphs,
           NEW d \in Nat
    PROVE  LET new == [query[q] EXCEPT !.at = place, !.read = read, !.dim = d]
           IN  /\ new \in QueryStates /\ new.at = place /\ new.read = read /\ new.dim = d
               /\ new.version = query[q].version
BY DEF TypeOK, QueryStates

LEMMA SkipLoadKeeps ==
    ASSUME GraphInv, NEW q \in Queries, SkipLoad(q)
    PROVE  GraphInv'
<1> DEFINE new == [query[q] EXCEPT !.at = AfterLoad(q)]
<1>1. query' = [query EXCEPT ![q] = new] BY DEF SkipLoad, QueryGoes, GraphInv, TypeOK
<1>2. /\ new \in QueryStates /\ new.at = AfterLoad(q) /\ new.version = query[q].version
      BY DEF GraphInv, TypeOK, QueryStates, QueryPlaces, AfterLoad
<1>3. UNCHANGED <<store, dim, model, matrix, loaded, lock, version, cached, writer, count>>
      BY DEF SkipLoad, cache
<1>4. new.at \in {"search", "idle"} BY <1>2 DEF AfterLoad
<1>5. lock # q BY DEF SkipLoad, Ensuring, GraphInv, TypeOK, Building
<1> HIDE DEF new
<1>6. /\ matrix \in Graphs /\ loaded \in BOOLEAN /\ lock \in Queries \cup {None}
      /\ version \in Nat /\ cached \in Answers \cup {None} /\ count \in [Kinds -> Nat]
      BY DEF GraphInv, TypeOK, Kinds
<1>7. ~Pending => matrix = Current BY DEF GraphInv, MatrixIsFresh, SkipLoad
<1>8. new.at \notin BuildPlaces BY <1>4 DEF BuildPlaces
<1>9. new.version <= version BY <1>2 DEF GraphInv, VersionsOK
<1>10. Settled => ~Pending BY DEF Settled, Pending
<1>11. QED BY <1>1, <1>2, <1>3, <1>4, <1>5, <1>6, <1>7, <1>8, <1>9, <1>10, QueryMoves

LEMMA LoadRowsKeeps ==
    ASSUME GraphInv, NEW q \in Queries, LoadRows(q)
    PROVE  GraphInv'
<1> DEFINE place == IF query[q].at = "ensure" THEN "ensure_dim" ELSE "reload_dim"
           new == [query[q] EXCEPT !.at = place, !.read = store]
<1>1. query' = [query EXCEPT ![q] = new]
      BY DEF LoadRows, GraphInv, TypeOK
<1>2. /\ new \in QueryStates /\ new.at = place /\ new.version = query[q].version
      /\ new.read = store
      BY DEF GraphInv, TypeOK, QueryStates, QueryPlaces
<1>3. UNCHANGED <<store, dim, model, matrix, loaded, version, cached, writer, count>>
      /\ lock' = q /\ lock = None
      BY DEF LoadRows, cache
<1>4. new.at \in {"ensure_dim", "reload_dim"} BY <1>2
<1> HIDE DEF new, place
<1>6. /\ matrix \in Graphs /\ loaded \in BOOLEAN
      /\ version \in Nat /\ cached \in Answers \cup {None} /\ count \in [Kinds -> Nat]
      BY DEF GraphInv, TypeOK, Kinds
<1>7. loaded /\ ~Pending => matrix = Current BY DEF GraphInv, MatrixIsFresh
<1>8. new.at \in BuildPlaces BY <1>4 DEF BuildPlaces
<1>9. new.version <= version BY <1>2 DEF GraphInv, VersionsOK
<1>10. None \notin Queries BY GraphAssumption
<1>11. QED BY <1>1, <1>2, <1>3, <1>4, <1>6, <1>7, <1>8, <1>9, <1>10, QueryMoves

LEMMA LoadDimKeeps ==
    ASSUME GraphInv, NEW q \in Queries, LoadDim(q)
    PROVE  GraphInv'
<1> DEFINE place == IF query[q].at = "ensure_dim" THEN "ensure_swap" ELSE "reload_swap"
           new == [query[q] EXCEPT !.at = place, !.dim = dim]
<1>1. query' = [query EXCEPT ![q] = new]
      BY DEF LoadDim, GraphInv, TypeOK
<1>2. /\ new \in QueryStates /\ new.at = place /\ new.version = query[q].version
      /\ new.read = query[q].read /\ new.dim = dim
      BY DEF GraphInv, TypeOK, QueryStates, QueryPlaces
<1>3. UNCHANGED <<store, dim, model, matrix, loaded, lock, version, cached, writer, count>>
      BY DEF LoadDim, cache
<1>4. new.at \in {"ensure_swap", "reload_swap"} BY <1>2
<1>5. Building(q) /\ lock = q BY DEF LoadDim, Building, GraphInv, TypeOK
<1> HIDE DEF new, place
<1>6. /\ matrix \in Graphs /\ loaded \in BOOLEAN
      /\ version \in Nat /\ cached \in Answers \cup {None} /\ count \in [Kinds -> Nat]
      BY DEF GraphInv, TypeOK, Kinds
<1>7. loaded /\ ~Pending => matrix = Current BY DEF GraphInv, MatrixIsFresh
<1>8. new.at \in BuildPlaces BY <1>4 DEF BuildPlaces
<1>9. new.version <= version BY <1>2 DEF GraphInv, VersionsOK
<1>10. ~Pending => new.read = store BY <1>2, <1>5 DEF GraphInv, RebuildOK
<1>11. QED BY <1>1, <1>2, <1>3, <1>4, <1>5, <1>6, <1>7, <1>8, <1>9, <1>10, QueryMoves

LEMMA SwapKeeps ==
    ASSUME GraphInv, NEW q \in Queries, Swap(q)
    PROVE  GraphInv'
<1> DEFINE new == [query[q] EXCEPT !.at = AfterLoad(q), !.read = EmptyGraph, !.dim = 0]
<1>1. query' = [query EXCEPT ![q] = new] BY DEF Swap, GraphInv, TypeOK
<1>2. /\ new \in QueryStates /\ new.at = AfterLoad(q) /\ new.version = query[q].version
      BY EmptyIsGraph DEF GraphInv, TypeOK, QueryStates, QueryPlaces, AfterLoad
<1>3. UNCHANGED <<store, dim, model, version, cached, writer, count>>
      /\ lock' = None /\ loaded' = TRUE
      BY DEF Swap, cache
<1>4. new.at \in {"search", "idle"} BY <1>2 DEF AfterLoad
<1>5. lock = q BY DEF Swap, Building, GraphInv, TypeOK
<1>6. ~Pending => query[q].read = store /\ query[q].dim = dim
      BY DEF Swap, Building, GraphInv, RebuildOK
<1>7. matrix' = IF Drifted(query[q].read, query[q].dim) THEN EmptyGraph ELSE query[q].read
      BY DEF Swap
<1>8. matrix' \in Graphs BY <1>7, EmptyIsGraph DEF GraphInv, TypeOK
<1>9. ~Pending => matrix' = Current BY <1>6, <1>7 DEF Current
<1> HIDE DEF new
<1>10. /\ version \in Nat /\ cached \in Answers \cup {None} /\ count \in [Kinds -> Nat]
      BY DEF GraphInv, TypeOK, Kinds
<1>11. new.at \notin BuildPlaces BY <1>4 DEF BuildPlaces
<1>12. new.version <= version BY <1>2 DEF GraphInv, VersionsOK
<1>13. None \notin Queries BY GraphAssumption
<1>14. Settled => ~Pending BY DEF Settled, Pending
<1>15. QED BY <1>1, <1>2, <1>3, <1>4, <1>5, <1>8, <1>9, <1>10, <1>11, <1>12, <1>13, <1>14,
             QueryMoves

LEMMA AnswerKeeps ==
    ASSUME GraphInv, NEW q \in Queries, NEW answer \in Answers, Answer(q, answer),
           count' \in [Kinds -> Nat],
           \/ lock # q /\ lock' = lock
           \/ lock = q /\ lock' = None,
           Settled /\ query[q].version = version => Exact(answer)
    PROVE  GraphInv'
<1>1. query' = [query EXCEPT ![q] = QueryIdle] BY DEF Answer
<1>2. UNCHANGED <<store, dim, model, matrix, loaded, version, writer>>
      BY DEF Answer
<1>3. cached' = IF query[q].version = version THEN answer ELSE cached BY DEF Answer
<1>4. /\ matrix \in Graphs /\ loaded \in BOOLEAN /\ lock' \in Queries \cup {None}
      /\ version \in Nat /\ cached \in Answers \cup {None}
      BY DEF GraphInv, TypeOK, Kinds
<1>5. loaded /\ ~Pending => matrix = Current BY DEF GraphInv, MatrixIsFresh
<1>6. QueryIdle.at \notin BuildPlaces BY EmptyIsGraph DEF BuildPlaces
<1>7. QueryIdle.version <= version BY EmptyIsGraph, <1>4
<1>8. cached' \in Answers \cup {None} BY <1>3, <1>4
<1>9. lock' # q /\ \A p \in Queries \ {q} : lock' = p <=> lock = p
      BY GraphAssumption
<1>10. Settled /\ cached' # cached => Exact(cached') BY <1>3
<1> HIDE DEF Answer
<1>11. QED BY <1>1, <1>2, <1>4, <1>5, <1>6, <1>7, <1>8, <1>9, <1>10, EmptyIsGraph, QueryMoves

LEMMA SearchNothingKeeps ==
    ASSUME GraphInv, NEW q \in Queries, SearchNothing(q)
    PROVE  GraphInv'
<1>1. /\ Answer(q, Found({})) /\ query[q].at = "search" /\ Empty(matrix)
      /\ UNCHANGED <<lock, count>>
      BY DEF SearchNothing
<1>2. lock # q BY <1>1 DEF GraphInv, TypeOK, Building
<1>3. ASSUME Settled, query[q].version = version PROVE Exact(Found({}))
  <2>1. matrix = Current BY <1>1, <1>3 DEF GraphInv, SearchesOK
  <2>2. Holds(Current) = {} BY <1>1, <2>1 DEF Empty, Holds
  <2>3. QED BY <2>2 DEF Exact, Found
<1>4. Found({}) \in Answers BY DEF Found, Answers
<1>5. count' \in [Kinds -> Nat] BY <1>1 DEF GraphInv, TypeOK, Kinds
<1>6. QED BY <1>1, <1>2, <1>3, <1>4, <1>5, AnswerKeeps

\* The blank answer of an exception is what CachedIsCurrent makes room for.
LEMMA BlankIsExact == Blank \in Answers /\ Exact(Blank)
BY DEF Blank, Answers, Exact

LEMMA SearchRaisesKeeps ==
    ASSUME GraphInv, NEW q \in Queries, SearchRaises(q)
    PROVE  GraphInv'
<1>1. /\ Answer(q, Blank) /\ query[q].at = "search" /\ UNCHANGED <<lock, count>>
      BY DEF SearchRaises
<1>2. lock # q BY <1>1 DEF GraphInv, TypeOK, Building
<1>3. count' \in [Kinds -> Nat] BY <1>1 DEF GraphInv, TypeOK, Kinds
<1>4. QED BY <1>1, <1>2, <1>3, BlankIsExact, AnswerKeeps

LEMMA SearchFailsKeeps ==
    ASSUME GraphInv, NEW q \in Queries, SearchFails(q)
    PROVE  GraphInv'
<1>1. /\ Answer(q, Blank) /\ query[q].at \in {"search", "lookup"} /\ UNCHANGED lock
      BY DEF SearchFails
<1>2. lock # q BY <1>1 DEF GraphInv, TypeOK, Building
<1>3. count' \in [Kinds -> Nat] BY Counting DEF SearchFails, GraphInv, Kinds
<1>4. QED BY <1>1, <1>2, <1>3, BlankIsExact, AnswerKeeps

LEMMA LoadFailsKeeps ==
    ASSUME GraphInv, NEW q \in Queries, LoadFails(q)
    PROVE  GraphInv'
<1>1. lock = q /\ lock' = None BY DEF LoadFails, GraphInv, TypeOK, Building
<1>2. count' \in [Kinds -> Nat] BY Counting DEF LoadFails, GraphInv, Kinds
<1>3. CASE query[q].at \in {"ensure_dim", "ensure_swap"}
  <2>1. Answer(q, Blank) BY <1>3 DEF LoadFails
  <2>2. QED BY <1>1, <1>2, <2>1, BlankIsExact, AnswerKeeps
<1>4. CASE query[q].at \notin {"ensure_dim", "ensure_swap"}
  <2>1. /\ query' = [query EXCEPT ![q] = QueryIdle]
        /\ UNCHANGED <<store, dim, model, matrix, loaded, version, cached, writer>>
        BY <1>4 DEF LoadFails, cache
  <2>2. /\ matrix \in Graphs /\ loaded \in BOOLEAN /\ lock' \in Queries \cup {None}
        /\ version \in Nat /\ cached \in Answers \cup {None}
        BY <1>1 DEF GraphInv, TypeOK
  <2>3. loaded /\ ~Pending => matrix = Current BY DEF GraphInv, MatrixIsFresh
  <2>4. QueryIdle.at \notin BuildPlaces BY EmptyIsGraph DEF BuildPlaces
  <2>5. QueryIdle.version <= version BY EmptyIsGraph, <2>2
  <2>6. lock' # q /\ \A p \in Queries \ {q} : lock' = p <=> lock = p
        BY <1>1, GraphAssumption
  <2>7. QED BY <1>2, <2>1, <2>2, <2>3, <2>4, <2>5, <2>6, EmptyIsGraph, QueryMoves
<1>5. QED BY <1>3, <1>4

LEMMA SnapshotKeeps ==
    ASSUME GraphInv, NEW q \in Queries, Snapshot(q)
    PROVE  GraphInv'
<1> DEFINE new == [query[q] EXCEPT !.at = "lookup", !.read = matrix]
<1>1. query' = [query EXCEPT ![q] = new] BY DEF Snapshot, GraphInv, TypeOK
<1>2. /\ new \in QueryStates /\ new.at = "lookup" /\ new.version = query[q].version
      /\ new.read = matrix
      BY DEF GraphInv, TypeOK, QueryStates, QueryPlaces
<1>3. UNCHANGED <<store, dim, model, matrix, loaded, lock, version, cached, writer, count>>
      BY DEF Snapshot, cache
<1>4. query[q].at = "search" /\ \A s \in Sources : matrix[s] # None => Dim[matrix[s]] = Dim[model]
      BY DEF Snapshot
<1>5. lock # q BY <1>4 DEF GraphInv, TypeOK, Building
<1> HIDE DEF new
<1>6. /\ matrix \in Graphs /\ loaded \in BOOLEAN /\ lock \in Queries \cup {None}
      /\ version \in Nat /\ cached \in Answers \cup {None} /\ count \in [Kinds -> Nat]
      BY DEF GraphInv, TypeOK, Kinds
<1>7. loaded /\ ~Pending => matrix = Current BY DEF GraphInv, MatrixIsFresh
<1>8. new.at \notin BuildPlaces BY <1>2 DEF BuildPlaces
<1>9. new.version <= version BY <1>2 DEF GraphInv, VersionsOK
<1>10. Settled /\ new.version = version => new.read = Current
       BY <1>2, <1>4 DEF GraphInv, SearchesOK
<1>11. QED BY <1>1, <1>2, <1>3, <1>4, <1>5, <1>6, <1>7, <1>8, <1>9, <1>10, QueryMoves

LEMMA LookupKeeps ==
    ASSUME GraphInv, NEW q \in Queries, Lookup(q)
    PROVE  GraphInv'
<1> DEFINE found == Holds(query[q].read) \cap Holds(store)
<1>1. Answer(q, Found(found)) /\ query[q].at = "lookup" /\ UNCHANGED <<lock, count>>
      BY DEF Lookup
<1>2. lock # q BY <1>1 DEF GraphInv, TypeOK, Building
<1>3. ASSUME Settled, query[q].version = version PROVE Exact(Found(found))
  <2>1. query[q].read = Current BY <1>1, <1>3 DEF GraphInv, SearchesOK
  <2>2. Holds(Current) \subseteq Holds(store) BY DEF Current, EmptyGraph, Holds
  <2>3. found = Holds(Current) BY <2>1, <2>2
  <2>4. QED BY <2>3 DEF Found, Exact
<1>4. found \in SUBSET Sources BY DEF Holds
<1> HIDE DEF found
<1>5. Found(found) \in Answers BY <1>4 DEF Found, Answers
<1>6. count' \in [Kinds -> Nat] BY <1>1 DEF GraphInv, TypeOK, Kinds
<1>7. QED BY <1>1, <1>2, <1>3, <1>5, <1>6, AnswerKeeps

LEMMA SwapModelKeeps ==
    ASSUME GraphInv, SwapModel
    PROVE  GraphInv'
<1>1. /\ model' \in Models /\ matrix' = EmptyGraph /\ loaded' = FALSE /\ lock' = None
      /\ cached' = None /\ writer' = [w \in Writers |-> "idle"]
      /\ query' = [q \in Queries |-> QueryIdle]
      /\ UNCHANGED <<store, dim, version>>
      BY DEF SwapModel
<1>2. count' \in [Kinds -> Nat] BY Counting DEF SwapModel, GraphInv, Kinds
<1>3. \A q \in Queries : query'[q] = QueryIdle BY <1>1
<1>4. \A q \in Queries : ~Building(q)' BY <1>3, EmptyIsGraph DEF Building
<1>5. query' \in [Queries -> QueryStates] BY <1>1, EmptyIsGraph
<1>6. TypeOK'
  <2>1. \A q \in Queries : Building(q)' <=> lock' = q BY <1>1, <1>4, GraphAssumption
  <2>2. writer' \in [Writers -> WriterPlaces] BY <1>1 DEF WriterPlaces
  <2>3. store' \in Graphs /\ dim' \in Nat /\ version' \in Nat
        BY <1>1 DEF GraphInv, TypeOK
  <2>4. QED BY <1>1, <1>2, <1>5, <2>1, <2>2, <2>3, EmptyIsGraph DEF TypeOK, Kinds, QueryStates
<1>7. RebuildOK' /\ MatrixIsFresh' /\ CachedIsCurrent'
      BY <1>1, <1>4 DEF RebuildOK, MatrixIsFresh, CachedIsCurrent
<1>8. VersionsOK' BY <1>1, <1>3, EmptyIsGraph DEF GraphInv, TypeOK, VersionsOK
<1>9. SnapshotsOK' /\ SearchesOK' BY <1>3, EmptyIsGraph DEF SnapshotsOK, SearchesOK
<1>10. QED BY <1>6, <1>7, <1>8, <1>9 DEF GraphInv

LEMMA GraphBegins == Init => GraphInv
<1> SUFFICES ASSUME Init PROVE GraphInv OBVIOUS
<1>1. \A q \in Queries : query[q] = QueryIdle /\ ~Building(q)
      BY EmptyIsGraph DEF Init, Building
<1>2. TypeOK
  <2>1. \A q \in Queries : Building(q) <=> lock = q BY <1>1, GraphAssumption DEF Init
  <2>2. writer \in [Writers -> WriterPlaces] BY DEF Init, WriterPlaces
  <2>3. query \in [Queries -> QueryStates] BY EmptyIsGraph DEF Init
  <2>4. count \in [Kinds -> Nat] BY DEF Init, Kinds
  <2>5. QED BY <2>1, <2>2, <2>3, <2>4, EmptyIsGraph DEF Init, TypeOK, QueryStates, Kinds
<1>3. RebuildOK /\ MatrixIsFresh /\ CachedIsCurrent
      BY <1>1 DEF Init, RebuildOK, MatrixIsFresh, CachedIsCurrent
<1>4. VersionsOK /\ SnapshotsOK /\ SearchesOK
      BY <1>1, EmptyIsGraph DEF Init, VersionsOK, SnapshotsOK, SearchesOK
<1>5. QED BY <1>2, <1>3, <1>4 DEF GraphInv

LEMMA GraphSteps == GraphInv /\ [Next]_vars => GraphInv'
<1> SUFFICES ASSUME GraphInv, [Next]_vars PROVE GraphInv' OBVIOUS
<1>1. ASSUME NEW w \in Writers, WriterStep(w) PROVE GraphInv'
      BY <1>1, UpsertKeeps, RemoveBySourceKeeps, InvalidateKeeps, BumpKeeps DEF WriterStep
<1>2. ASSUME NEW q \in Queries, Begin(q) PROVE GraphInv'
      BY <1>2, StartQueryKeeps, ReloadKeeps DEF Begin
<1>3. ASSUME NEW q \in Queries, Retrieve(q) PROVE GraphInv'
      BY <1>3, SkipLoadKeeps, LoadRowsKeeps, LoadDimKeeps, SwapKeeps, SearchNothingKeeps,
         SearchRaisesKeeps, SearchFailsKeeps, LoadFailsKeeps, SnapshotKeeps, LookupKeeps
      DEF Retrieve
<1>4. CASE SwapModel BY <1>4, SwapModelKeeps
<1>5. CASE UNCHANGED vars
      BY <1>5 DEF vars, cache, GraphInv, TypeOK, RebuildOK, MatrixIsFresh, VersionsOK, SnapshotsOK,
                  SearchesOK, CachedIsCurrent, Building, Pending, Settled, Current, Drifted,
                  Empty, Exact, Holds
<1>6. QED BY <1>1, <1>2, <1>3, <1>4, <1>5 DEF Next

\* The conjuncts of GraphInv hold whatever readers, writers and swaps of the
\* embedding model interleave (graph_retriever.py, graph_store.py).
THEOREM GraphInvariant == Spec => []GraphInv
BY GraphBegins, GraphSteps, PTL DEF Spec

\* A matrix that is not marked for a reload was built from the triples the
\* store holds, for every number of writers and queries: the mark a writer
\* leaves under the lock is never lost to a rebuild that read before it.
THEOREM MatrixStaysFresh == Spec => []MatrixIsFresh
BY GraphInvariant, PTL DEF GraphInv

\* Once the writers have passed, an answer the result cache keeps under the
\* current version holds the sources of the store, all of them and no other,
\* or is the blank one of a query that raised: an answer of an older graph, or
\* of a matrix between two states, carries an older version.
THEOREM CacheStaysCurrent == Spec => []CachedIsCurrent
BY GraphInvariant, PTL DEF GraphInv

-----------------------------------------------------------------------------
(* The pipeline.                                                           *)

PipelineSpec == PipelineInit /\ [][PipelineNext]_pipelineVars

\* Passages that the filter of an ask lets through, each found for its query by a
\* channel its plan counts.
Filtered(ask, docs) == docs \subseteq Allowed(ask.filter)
Supported(ask, docs) ==
    \A p \in docs : \E channel \in Speaking(ask.plan) : p \in Finds[channel][ask.query]

\* The cache holds for a key what a call with that key may return.
ResultsOK ==
    \A ask \in Requested : Key(ask) \in DOMAIN results =>
        Filtered(ask, results[Key(ask)]) /\ Supported(ask, results[Key(ask)])

DocsOK ==
    \A c \in Calls : call[c].at # "unstarted" =>
        /\ Filtered(call[c].ask, call[c].docs)
        /\ ~call[c].raised => Supported(call[c].ask, call[c].docs)

\* The legs a call counts, and what it got from them.
Counted(c) == Weighted(call[c].ask.plan) \cap Started(call[c].ask)

\* A call that has nothing found nothing on any leg.
NothingFound(c) ==
    \A leg \in Counted(c) : Leg(leg, c, Represented(call[c].ask)) = {}

LegsOK ==
    \A c \in Calls :
        /\ call[c].at \notin {"unstarted", "legs"} /\ ~call[c].hit /\ ~call[c].raised
           /\ call[c].docs = {} => NothingFound(c)
        /\ call[c].raised => call[c].at \in {"found", "over"}

\* A call that has not begun has nothing yet.
UnstartedOK ==
    \A c \in Calls : call[c].at = "unstarted" => call[c].docs = {} /\ call[c].raised = FALSE

PipelineInv == PipelineTypeOK /\ UnstartedOK /\ ResultsOK /\ DocsOK /\ LegsOK

-----------------------------------------------------------------------------
(* Plans, filters, cuts.                                                   *)

\* A plan that walks the graph is a plan, and every budget is one of the two.
LEMMA PlansAreFine ==
    ASSUME NEW asked \in Asks
    PROVE  /\ Plan(asked).rerank \in {Final, Reservoir}
           /\ Plan(asked).ppr => Plan(asked).on
<1> DEFINE built == Built(asked.type)
           healthy == Healthy(built)
           retried == Retried(healthy, asked.action)
           again == Healthy(retried)
<1>1. built.on = TRUE /\ built.rerank \in {Final, Reservoir} BY DEF Built
<1>2. healthy.on = built.on /\ healthy.rerank = built.rerank BY DEF Healthy, Built
<1>3. retried.on = healthy.on /\ retried.rerank = Reservoir BY DEF Retried, Healthy, Built
<1>4. again.on = retried.on /\ again.rerank = retried.rerank BY DEF Healthy, Retried, Built
<1>5. Compatible.ppr = FALSE /\ Compatible.rerank = Final BY DEF Compatible
<1>6. Plan(asked) \in {Compatible, healthy, again}
      BY DEF Plan
<1> HIDE DEF built, healthy, retried, again
<1>7. CASE Plan(asked) = Compatible BY <1>5, <1>7
<1>8. CASE Plan(asked) = healthy BY <1>1, <1>2, <1>8
<1>9. CASE Plan(asked) = again BY <1>1, <1>2, <1>3, <1>4, <1>9
<1>10. QED BY <1>6, <1>7, <1>8, <1>9

\* What a request carries of the ask it was made of.
LEMMA Requests ==
    ASSUME NEW ask \in Requested
    PROVE  /\ ask.plan.rerank \in {Final, Reservoir}
           /\ ask.plan.ppr => ask.plan.on
           /\ ask.filter.kind = "none" => Passages \subseteq ask.filter.admits
           /\ ask.filter.kind = "source_set" => ask.filter.sources # {}
           /\ \A channel \in Channels : Finds[channel][ask.query] \subseteq Passages
<1>1. PICK asked \in Asks : ask = Request(asked) BY DEF Requested
<1>2. ask.query = asked.query /\ ask.filter = asked.filter /\ ask.plan = Plan(asked)
      BY <1>1 DEF Request
<1>3. QED BY <1>2, PlansAreFine, PipelineAssumption

LEMMA MilvusIsFiltered ==
    ASSUME NEW ask \in Requested, NEW channel \in Channels
    PROVE  /\ FromMilvus(channel, ask) \subseteq Passages
           /\ Filtered(ask, FromMilvus(channel, ask))
           /\ FromMilvus(channel, ask) \subseteq Finds[channel][ask.query]
BY Requests DEF FromMilvus, Filtered, Allowed

\* A channel that knows only sources contributes nothing to a filter that is
\* more than sources.
LEMMA SourcesAreFiltered ==
    ASSUME NEW ask \in Requested, NEW channel \in Channels
    PROVE  /\ FromSources(channel, ask) \subseteq Passages
           /\ Filtered(ask, FromSources(channel, ask))
           /\ FromSources(channel, ask) \subseteq Finds[channel][ask.query]
<1>1. FromSources(channel, ask) \subseteq Finds[channel][ask.query]
      BY DEF FromSources, OfSources
<1>2. FromSources(channel, ask) \subseteq Passages BY <1>1, Requests
<1>3. CASE ask.filter.kind = "none"
      BY <1>1, <1>2, <1>3, Requests DEF Filtered, Allowed
<1>4. CASE ask.filter.kind = "source_set"
  <2>1. \A p \in FromSources(channel, ask) : SourceOf[p] \in ask.filter.sources
        BY <1>4, Requests DEF FromSources, OfSources
  <2>2. QED BY <1>1, <1>2, <1>4, <2>1, Requests DEF Filtered, Allowed
<1>5. CASE ask.filter.kind \notin {"none", "source_set"}
  <2>1. ~Supports(ask.filter, "source_set") BY <1>5 DEF Supports
  <2>2. QED BY <1>1, <1>2, <2>1 DEF FromSources, Filtered
<1>6. QED BY <1>1, <1>2, <1>3, <1>4, <1>5

LEMMA DenseFinds ==
    ASSUME NEW c \in Calls
    PROVE  Dense(c) \in {FromMilvus("dense", call[c].ask), {}}
BY DEF Dense

LEMMA SparseFinds ==
    ASSUME NEW c \in Calls, NEW represented \in BOOLEAN
    PROVE  Sparse(c, represented)
             \in {FromSources("bm25", call[c].ask), FromMilvus("native", call[c].ask), {}}
<1>1. Legacy(c) \in {FromSources("bm25", call[c].ask), {}} BY DEF Legacy
<1>2. Native(c, represented) \in {Legacy(c), FromMilvus("native", call[c].ask), {}} BY DEF Native
<1>3. QED BY <1>1, <1>2 DEF Sparse

\* What comes out of one leg.
LEMMA LegIsFiltered ==
    ASSUME NEW c \in Calls, call[c].ask \in Requested, NEW represented \in BOOLEAN,
           NEW leg \in Legs, leg \in Weighted(call[c].ask.plan)
    PROVE  LET docs == Leg(leg, c, represented)
           IN  /\ docs \subseteq Passages
               /\ Filtered(call[c].ask, docs)
               /\ Supported(call[c].ask, docs)
<1> DEFINE ask == call[c].ask
<1> DEFINE Fine(docs) == docs \subseteq Passages /\ Filtered(ask, docs) /\ Supported(ask, docs)
<1>1. \A channel \in Channels \cap Speaking(ask.plan) :
         Fine(FromMilvus(channel, ask)) /\ Fine(FromSources(channel, ask))
      BY MilvusIsFiltered, SourcesAreFiltered DEF Supported
<1>2. Fine({}) BY DEF Filtered, Supported
<1>3. /\ leg = "dense" => "dense" \in Channels \cap Speaking(ask.plan)
      /\ leg = "sparse" => {"native", "bm25"} \subseteq Channels \cap Speaking(ask.plan)
      /\ leg = "graph" => "graph" \in Channels \cap Speaking(ask.plan)
      /\ ask.plan.ppr => "ppr" \in Channels \cap Speaking(ask.plan)
      BY DEF Speaking, Channels
<1> HIDE DEF Fine
<1>4. CASE leg = "dense"
  <2>1. Dense(c) \in {FromMilvus("dense", ask), {}} BY DenseFinds
  <2>2. Fine(Dense(c)) BY <1>1, <1>2, <1>3, <1>4, <2>1
  <2>3. QED BY <1>4, <2>2 DEF Leg, Fine
<1>5. CASE leg = "sparse"
  <2>1. Sparse(c, represented) \in {FromSources("bm25", ask), FromMilvus("native", ask), {}}
        BY SparseFinds
  <2>2. Fine(Sparse(c, represented)) BY <1>1, <1>2, <1>3, <1>5, <2>1
  <2>3. QED BY <1>5, <2>2 DEF Leg, Fine
<1>6. CASE leg = "graph"
  <2>1. \/ Graph(c) = {}
        \/ Graph(c) = FromSources("graph", ask)
        \/ ask.plan.ppr /\ Graph(c) = FromSources("ppr", ask)
    <3> DEFINE plan == IF call[c].sync THEN [ask.plan EXCEPT !.on = FALSE] ELSE ask.plan
               channel == IF plan.on /\ plan.ppr THEN "ppr" ELSE "graph"
    <3>1. plan.ppr <=> ask.plan.ppr OBVIOUS
    <3>2. Graph(c) = {} \/ Graph(c) = FromSources(channel, ask) BY DEF Graph
    <3> HIDE DEF plan
    <3>3. channel = "graph" \/ (channel = "ppr" /\ ask.plan.ppr) BY <3>1, Zenon
    <3> HIDE DEF channel
    <3>4. QED BY <3>2, <3>3
  <2>2. Fine(Graph(c)) BY <1>1, <1>2, <1>3, <1>6, <2>1
  <2>3. QED BY <1>6, <2>2 DEF Leg, Fine
<1>7. QED BY <1>4, <1>5, <1>6 DEF Legs

LEMMA FusedIsFiltered ==
    ASSUME NEW c \in Calls, call[c].ask \in Requested
    PROVE  /\ Fused(c) \subseteq Passages
           /\ Filtered(call[c].ask, Fused(c))
           /\ Supported(call[c].ask, Fused(c))
<1>1. Represented(call[c].ask) \in BOOLEAN BY DEF Represented
<1>2. \A leg \in Counted(c) : leg \in Legs /\ leg \in Weighted(call[c].ask.plan)
      BY DEF Counted, Weighted
<1>3. Fused(c) = UNION {Leg(leg, c, Represented(call[c].ask)) : leg \in Counted(c)}
      BY DEF Fused, Counted
<1>4. \A leg \in Counted(c) :
         LET docs == Leg(leg, c, Represented(call[c].ask))
         IN  /\ docs \subseteq Passages
             /\ Filtered(call[c].ask, docs)
             /\ Supported(call[c].ask, docs)
      BY <1>1, <1>2, LegIsFiltered
<1>5. QED BY <1>3, <1>4 DEF Filtered, Supported

LEMMA OptionalIsFiltered ==
    ASSUME NEW c \in Calls, call[c].ask \in Requested
    PROVE  /\ Optional(c) \subseteq Passages
           /\ Filtered(call[c].ask, Optional(c))
           /\ Supported(call[c].ask, Optional(c))
<1> DEFINE ask == call[c].ask
           asked == {option \in Options \cap ask.plan.weights : Up(c, {option})}
<1>1. Optional(c) = UNION {FromSources(channel, ask) : channel \in asked} BY DEF Optional
<1>2. asked \subseteq Channels /\ asked \subseteq Speaking(ask.plan)
      BY DEF Options, Channels, Speaking
<1> HIDE DEF asked
<1>3. QED BY <1>1, <1>2, SourcesAreFiltered DEF Filtered, Supported

\* A cut of a list that is not empty is not empty.
LEMMA CutKeeps ==
    ASSUME NEW docs \in SUBSET Passages, NEW k \in Nat \ {0}, NEW kept \in Cut(docs, k)
    PROVE  kept \subseteq docs /\ (kept = {} => docs = {})
<1>1. IsFiniteSet(docs) /\ Cardinality(docs) \in Nat
      BY PipelineAssumption, FS_Subset, FS_CardinalityType
<1>2. kept \subseteq docs
      /\ Cardinality(kept) = IF Cardinality(docs) < k THEN Cardinality(docs) ELSE k
      BY DEF Cut
<1>3. kept = {} => Cardinality(kept) = 0 BY FS_EmptySet
<1>4. Cardinality(docs) = 0 => docs = {} BY <1>1, FS_EmptySet
<1>5. QED BY <1>1, <1>2, <1>3, <1>4

LEMMA SelectedKeeps ==
    ASSUME NEW docs \in SUBSET Passages, NEW k \in Nat \ {0}, NEW kept \in Selected(docs, k)
    PROVE  kept \subseteq docs /\ (kept = {} => docs = {})
<1>1. IsFiniteSet(docs) BY PipelineAssumption, FS_Subset
<1>2. IsFiniteSet(Parents(docs))
  <2> DEFINE f == [p \in docs |-> ParentOf[p]]
  <2>1. f \in Surjection(docs, Parents(docs)) BY DEF Surjection, Parents
  <2>2. QED BY <1>1, <2>1, FS_Surjection
<1>3. Cardinality(Parents(docs)) \in Nat BY <1>2, FS_CardinalityType
<1>4. kept \subseteq docs
      /\ Cardinality(kept) = IF Cardinality(Parents(docs)) < k
                             THEN Cardinality(Parents(docs)) ELSE k
      BY DEF Selected
<1>5. kept = {} => Cardinality(kept) = 0 BY FS_EmptySet
<1>6. Cardinality(Parents(docs)) = 0 => Parents(docs) = {} BY <1>2, FS_EmptySet
<1>7. Parents(docs) = {} => docs = {} BY DEF Parents
<1>8. QED BY <1>3, <1>4, <1>5, <1>6, <1>7

LEMMA FinishedKeeps ==
    ASSUME NEW docs \in SUBSET Passages, NEW plan, NEW kept \in Finished(docs, plan)
    PROVE  kept \subseteq docs /\ (kept = {} => docs = {})
BY CutKeeps, SelectedKeeps, PipelineAssumption DEF Finished
-----------------------------------------------------------------------------
(* The steps.                                                              *)

LEMMA SettingStays ==
    ASSUME setting' = setting
    PROVE  Requested' = Requested /\ CallStates' = CallStates
<1>1. Requested' = Requested
      BY DEF Requested, Request, Plan, Healthy, Retried, Built, Third
<1>2. QED BY <1>1 DEF CallStates

LEMMA SupportedStays ==
    ASSUME setting' = setting
    PROVE  \A plan : Speaking(plan)' = Speaking(plan)
BY DEF Speaking, Weighted, Active

\* What a leg finds depends on what was asked, and on what was up.
LEMMA LegsStay ==
    ASSUME NEW c \in Calls, setting' = setting, call'[c].ask = call[c].ask,
           call'[c].sync = call[c].sync, call'[c].down = call[c].down
    PROVE  NothingFound(c)' <=> NothingFound(c)
<1> DEFINE ask == call[c].ask
<1>1. Counted(c)' = Counted(c)
      BY DEF Counted, Weighted, Started, Active, SparseCapability
<1>2. Represented(call[c].ask)' = Represented(call[c].ask)
      BY DEF Represented, Active
<1>3. Dense(c)' = Dense(c) /\ Legacy(c)' = Legacy(c)
      BY DEF Dense, Legacy, Up
<1>4. \A r : Native(c, r)' = Native(c, r) BY <1>3 DEF Native, Up
<1>5. \A r : Sparse(c, r)' = Sparse(c, r) BY <1>3, <1>4 DEF Sparse
<1>6. Graph(c)' = Graph(c) BY DEF Graph, Active, Up
<1>7. \A leg, r : Leg(leg, c, r)' = Leg(leg, c, r) BY <1>3, <1>5, <1>6 DEF Leg
<1>8. QED BY <1>1, <1>2, <1>7 DEF NothingFound

LEMMA CallMoves ==
    ASSUME PipelineInv, NEW c \in Calls, NEW new \in CallStates, Goes(c, new),
           setting' = setting,
           new.at # "unstarted", new.ask \in Requested,
           Filtered(new.ask, new.docs),
           ~new.raised => Supported(new.ask, new.docs),
           new.at \notin {"unstarted", "legs"} /\ ~new.hit /\ ~new.raised /\ new.docs = {}
               => NothingFound(c)',
           new.raised => new.at \in {"found", "over"},
           DOMAIN results' \subseteq {Key(ask) : ask \in Requested},
           \A k \in DOMAIN results' : results'[k] \subseteq Passages,
           \A ask \in Requested : Key(ask) \in DOMAIN results' =>
               Filtered(ask, results'[Key(ask)]) /\ Supported(ask, results'[Key(ask)]),
           reranker' \in [attempted : BOOLEAN, loaded : BOOLEAN, lock : Calls \union {Free}],
           new.at = "holding" <=> reranker'.lock = c,
           \A p \in Calls \ {c} : reranker'.lock = p <=> reranker.lock = p,
           reranker'.lock # Free => reranker'.attempted,
           raises' \in 0 .. MaxRaises
    PROVE  PipelineInv'
<1>1. call \in [Calls -> CallStates] BY DEF PipelineInv, PipelineTypeOK
<1>2. /\ call' \in [Calls -> CallStates] /\ call'[c] = new
      /\ \A p \in Calls \ {c} : call'[p] = call[p]
      BY <1>1 DEF Goes
<1>3. Requested' = Requested /\ CallStates' = CallStates BY SettingStays
<1>4. \A plan : Speaking(plan)' = Speaking(plan) BY SupportedStays
<1>5. PipelineTypeOK'
  <2>1. \A p \in Calls : call'[p].at # "unstarted" => call'[p].ask \in Requested
        BY <1>2 DEF PipelineInv, PipelineTypeOK
  <2>2. \A p \in Calls : call'[p].at = "holding" <=> reranker'.lock = p
        BY <1>2 DEF PipelineInv, PipelineTypeOK
  <2>3. \A ask : Key(ask)' = Key(ask) BY DEF Key
  <2>4. {Key(ask) : ask \in Requested}' = {Key(ask) : ask \in Requested}
        BY <1>3 DEF Key
  <2>5. QED BY <1>2, <1>3, <2>1, <2>2, <2>4 DEF PipelineTypeOK
<1>10. UnstartedOK' BY <1>2 DEF PipelineInv, UnstartedOK
<1>6. ResultsOK'
      BY <1>3, <1>4 DEF ResultsOK, Key, Filtered, Supported
<1>7. DocsOK'
  <2>1. ASSUME NEW p \in Calls, call'[p].at # "unstarted"
        PROVE  /\ Filtered(call'[p].ask, call'[p].docs)
               /\ ~call'[p].raised => Supported(call'[p].ask, call'[p].docs)
    <3>1. CASE p = c BY <1>2, <3>1
    <3>2. CASE p # c BY <1>2, <2>1, <3>2 DEF PipelineInv, DocsOK
    <3>3. QED BY <3>1, <3>2
  <2>2. QED BY <1>4, <2>1 DEF DocsOK, Filtered, Supported
<1>8. LegsOK'
  <2>1. ASSUME NEW p \in Calls, p # c PROVE NothingFound(p)' <=> NothingFound(p)
        BY <1>2, <2>1, LegsStay
  <2>2. ASSUME NEW p \in Calls
        PROVE  /\ call'[p].at \notin {"unstarted", "legs"} /\ ~call'[p].hit /\ ~call'[p].raised
                  /\ call'[p].docs = {} => NothingFound(p)'
               /\ call'[p].raised => call'[p].at \in {"found", "over"}
    <3>1. CASE p = c BY <1>2, <3>1
    <3>2. CASE p # c BY <1>2, <2>1, <3>2 DEF PipelineInv, LegsOK
    <3>3. QED BY <3>1, <3>2
  <2>3. QED BY <2>2 DEF LegsOK
<1>9. QED BY <1>5, <1>6, <1>7, <1>8, <1>10 DEF PipelineInv
\* What the invariant says of a call that has begun.
LEMMA Begun ==
    ASSUME PipelineInv, NEW c \in Calls, call[c].at # "unstarted"
    PROVE  /\ call[c] \in CallStates /\ call[c].ask \in Requested
           /\ call[c].docs \subseteq Passages
           /\ Filtered(call[c].ask, call[c].docs)
           /\ ~call[c].raised => Supported(call[c].ask, call[c].docs)
           /\ call[c].raised => call[c].at \in {"found", "over"}
           /\ call[c].at \notin {"unstarted", "legs"} /\ ~call[c].hit /\ ~call[c].raised
                /\ call[c].docs = {} => NothingFound(c)
BY DEF PipelineInv, PipelineTypeOK, DocsOK, LegsOK, CallStates

\* What it says of the cache, the cross-encoder and the exceptions.
LEMMA Shared ==
    ASSUME PipelineInv
    PROVE  /\ DOMAIN results \subseteq {Key(ask) : ask \in Requested}
           /\ \A k \in DOMAIN results : results[k] \subseteq Passages
           /\ \A ask \in Requested : Key(ask) \in DOMAIN results =>
                Filtered(ask, results[Key(ask)]) /\ Supported(ask, results[Key(ask)])
           /\ reranker \in [attempted : BOOLEAN, loaded : BOOLEAN, lock : Calls \union {Free}]
           /\ \A c \in Calls : call[c].at = "holding" <=> reranker.lock = c
           /\ reranker.lock # Free => reranker.attempted
           /\ raises \in 0 .. MaxRaises
BY DEF PipelineInv, PipelineTypeOK, ResultsOK

\* A call waits: it goes to another place with what it has.
LEMMA WaitKeeps ==
    ASSUME PipelineInv, NEW c \in Calls, NEW place \in CallPlaces, Waits(c, place),
           call[c].at \notin {"unstarted", "legs", "found", "over"},
           place \notin {"unstarted", "legs"},
           UNCHANGED <<setting, results, raises>>,
           reranker' \in [attempted : BOOLEAN, loaded : BOOLEAN, lock : Calls \union {Free}],
           place = "holding" <=> reranker'.lock = c,
           \A p \in Calls \ {c} : reranker'.lock = p <=> reranker.lock = p,
           reranker'.lock # Free => reranker'.attempted
    PROVE  PipelineInv'
<1> DEFINE new == [call[c] EXCEPT !.at = place]
<1>1. call[c] \in CallStates BY Begun
<1>2. /\ new \in CallStates /\ new.at = place /\ new.ask = call[c].ask
      /\ new.sync = call[c].sync /\ new.down = call[c].down /\ new.docs = call[c].docs
      BY <1>1 DEF CallStates
<1>3. (new.raised <=> call[c].raised) /\ (new.hit <=> call[c].hit) BY <1>1 DEF CallStates
<1>4. Goes(c, new) BY DEF Waits
<1>5. call'[c] = new
  <2>1. call \in [Calls -> CallStates] BY DEF PipelineInv, PipelineTypeOK
  <2>2. QED BY <1>4, <2>1 DEF Goes
<1> HIDE DEF new
<1>6. NothingFound(c)' <=> NothingFound(c) BY <1>2, <1>5, LegsStay
<1>7. QED BY <1>2, <1>3, <1>4, <1>6, Begun, Shared, CallMoves

LEMMA PeekKeeps ==
    ASSUME PipelineInv, NEW c \in Calls, Peek(c)
    PROVE  PipelineInv'
<1>1. PICK place \in {"scoring", "ranked", "waiting"} : Waits(c, place) BY DEF Peek
<1>2. place \in CallPlaces /\ place \notin {"unstarted", "legs", "holding"}
      BY <1>1 DEF CallPlaces
<1>3. call[c].at = "loading" /\ UNCHANGED <<setting, results, reranker, raises>> BY DEF Peek
<1>4. reranker.lock # c BY <1>3, Shared
<1>5. QED BY <1>1, <1>2, <1>3, <1>4, Shared, WaitKeeps

LEMMA LockKeeps ==
    ASSUME PipelineInv, NEW c \in Calls, Lock(c)
    PROVE  PipelineInv'
<1>1. /\ call[c].at = "waiting" /\ reranker.lock = Free
      /\ UNCHANGED <<setting, results, raises>>
      BY DEF Lock
<1>2. Free \notin Calls BY PipelineAssumption
<1>3. CASE reranker.attempted
  <2>1. PICK place \in {"scoring", "ranked"} : Waits(c, place)
        BY <1>3 DEF Lock
  <2>2. place \in CallPlaces /\ place \notin {"unstarted", "legs", "holding"}
        BY <2>1 DEF CallPlaces
  <2>3. UNCHANGED reranker BY <1>3 DEF Lock
  <2>4. QED BY <1>1, <1>2, <2>1, <2>2, <2>3, Shared, WaitKeeps
<1>4. CASE ~reranker.attempted
  <2>1. /\ Waits(c, "holding")
        /\ reranker' = [reranker EXCEPT !.attempted = TRUE, !.lock = c]
        BY <1>4 DEF Lock
  <2>2. reranker \in [attempted : BOOLEAN, loaded : BOOLEAN, lock : Calls \union {Free}]
        BY Shared
  <2>3. /\ reranker' \in [attempted : BOOLEAN, loaded : BOOLEAN, lock : Calls \union {Free}]
        /\ reranker'.lock = c /\ reranker'.attempted
        BY <2>1, <2>2
  <2>4. "holding" \in CallPlaces BY DEF CallPlaces
  <2>5. QED BY <1>1, <1>2, <2>1, <2>3, <2>4, WaitKeeps
<1>5. QED BY <1>3, <1>4

LEMMA LoadEndsKeeps ==
    ASSUME PipelineInv, NEW c \in Calls, LoadEnds(c)
    PROVE  PipelineInv'
<1>1. PICK ready \in BOOLEAN :
         /\ reranker' = [reranker EXCEPT !.loaded = ready, !.lock = Free]
         /\ Waits(c, IF ready THEN "scoring" ELSE "ranked")
      BY DEF LoadEnds
<1>2. call[c].at = "holding" /\ UNCHANGED <<setting, results, raises>> BY DEF LoadEnds
<1>3. PICK place \in {"scoring", "ranked"} : Waits(c, place) BY <1>1
<1>4. place \in CallPlaces /\ place \notin {"unstarted", "legs", "holding"}
      BY <1>3 DEF CallPlaces
<1>5. reranker \in [attempted : BOOLEAN, loaded : BOOLEAN, lock : Calls \union {Free}]
      BY Shared
<1>6. /\ reranker' \in [attempted : BOOLEAN, loaded : BOOLEAN, lock : Calls \union {Free}]
      /\ reranker'.lock = Free
      BY <1>1, <1>5
<1>7. Free \notin Calls BY PipelineAssumption
<1>8. reranker.lock = c BY <1>2, Shared
<1>9. QED BY <1>2, <1>3, <1>4, <1>6, <1>7, <1>8, WaitKeeps

LEMMA ScoreKeeps ==
    ASSUME PipelineInv, NEW c \in Calls, Score(c)
    PROVE  PipelineInv'
<1>1. Waits(c, "ranked") /\ "ranked" \in CallPlaces BY DEF Score, CallPlaces
<1>2. call[c].at = "scoring" /\ UNCHANGED <<setting, results, reranker, raises>> BY DEF Score
<1>3. reranker.lock # c BY <1>2, Shared
<1>4. QED BY <1>1, <1>2, <1>3, Shared, WaitKeeps

\* A call ends a stage with other passages; the others and what they share stay.
LEMMA DocsChange ==
    ASSUME PipelineInv, NEW c \in Calls, NEW docs \in SUBSET Passages, NEW place \in CallPlaces,
           NEW raised \in BOOLEAN,
           Goes(c, [call[c] EXCEPT !.docs = docs, !.raised = raised, !.at = place]),
           call[c].at \notin {"unstarted", "holding", "over"}, place \notin {"unstarted", "holding"},
           raised => place \in {"found", "over"},
           Filtered(call[c].ask, docs),
           ~raised => Supported(call[c].ask, docs),
           place # "legs" /\ ~call[c].hit /\ ~raised /\ docs = {} => NothingFound(c),
           UNCHANGED <<setting, reranker>>,
           DOMAIN results' \subseteq {Key(ask) : ask \in Requested},
           \A k \in DOMAIN results' : results'[k] \subseteq Passages,
           \A ask \in Requested : Key(ask) \in DOMAIN results' =>
               Filtered(ask, results'[Key(ask)]) /\ Supported(ask, results'[Key(ask)]),
           raises' \in 0 .. MaxRaises
    PROVE  PipelineInv'
<1> DEFINE new == [call[c] EXCEPT !.docs = docs, !.raised = raised, !.at = place]
<1>1. call[c] \in CallStates /\ call[c].ask \in Requested BY Begun
<1>2. /\ new \in CallStates /\ new.at = place /\ new.ask = call[c].ask
      /\ new.sync = call[c].sync /\ new.down = call[c].down /\ new.docs = docs
      BY <1>1 DEF CallStates
<1>3. (new.raised <=> raised) /\ (new.hit <=> call[c].hit) BY <1>1 DEF CallStates
<1>4. Goes(c, new) OBVIOUS
<1>5. call'[c] = new
  <2>1. call \in [Calls -> CallStates] BY DEF PipelineInv, PipelineTypeOK
  <2>2. QED BY <1>4, <2>1 DEF Goes
<1> HIDE DEF new
<1>6. NothingFound(c)' <=> NothingFound(c) BY <1>2, <1>5, LegsStay
<1>7. reranker.lock # c BY Shared
<1>8. QED BY <1>1, <1>2, <1>3, <1>4, <1>6, <1>7, Shared, CallMoves

LEMMA SearchKeeps ==
    ASSUME PipelineInv, NEW c \in Calls, Search(c)
    PROVE  PipelineInv'
<1> DEFINE place == IF "reranker" \in setting /\ Fused(c) # {} THEN "loading" ELSE "ranked"
<1>1. /\ call[c].at = "legs" /\ UNCHANGED <<setting, results, reranker, raises>>
      /\ Goes(c, [call[c] EXCEPT !.docs = Fused(c), !.at = place])
      BY DEF Search
<1>2. place \in CallPlaces \ {"unstarted", "holding"} BY DEF CallPlaces
<1>3. /\ call[c] \in CallStates /\ call[c].ask \in Requested /\ ~call[c].raised
      BY <1>1, Begun
<1>4. [call[c] EXCEPT !.docs = Fused(c), !.at = place]
        = [call[c] EXCEPT !.docs = Fused(c), !.raised = FALSE, !.at = place]
      BY <1>3 DEF CallStates
<1> HIDE DEF place
<1>5. /\ Fused(c) \in SUBSET Passages
      /\ Filtered(call[c].ask, Fused(c)) /\ Supported(call[c].ask, Fused(c))
      BY <1>3, FusedIsFiltered
<1>6. Fused(c) = {} => NothingFound(c) BY DEF Fused, NothingFound, Counted
<1>7. QED BY <1>1, <1>2, <1>4, <1>5, <1>6, Shared, DocsChange

LEMMA FinishKeeps ==
    ASSUME PipelineInv, NEW c \in Calls, Finish(c)
    PROVE  PipelineInv'
<1> DEFINE ask == call[c].ask
           key == Key(call[c].ask)
<1>1. PICK ranked \in Cut(call[c].docs, ask.plan.rerank) :
        \E docs \in Finished(ranked, ask.plan) :
           /\ Goes(c, [call[c] EXCEPT !.docs = docs, !.at = "found"])
           /\ results' = [k \in DOMAIN results \union {key} |->
                            IF k = key THEN docs ELSE results[k]]
      BY DEF Finish
<1>2. PICK docs \in Finished(ranked, ask.plan) :
           /\ Goes(c, [call[c] EXCEPT !.docs = docs, !.at = "found"])
           /\ results' = [k \in DOMAIN results \union {key} |->
                            IF k = key THEN docs ELSE results[k]]
      BY <1>1
<1>3. call[c].at = "ranked" /\ UNCHANGED <<setting, reranker, raises>> BY DEF Finish
<1>4. /\ call[c] \in CallStates /\ ask \in Requested /\ ~call[c].raised
      /\ call[c].docs \in SUBSET Passages
      /\ Filtered(ask, call[c].docs) /\ Supported(ask, call[c].docs)
      /\ ~call[c].hit /\ call[c].docs = {} => NothingFound(c)
      BY <1>3, Begun
<1>5. ask.plan.rerank \in Nat \ {0} BY <1>4, Requests, PipelineAssumption
<1>6. ranked \subseteq call[c].docs /\ (ranked = {} => call[c].docs = {})
      BY <1>1, <1>4, <1>5, CutKeeps
<1>7. docs \subseteq ranked /\ (docs = {} => ranked = {})
  <2>1. ranked \in SUBSET Passages BY <1>4, <1>6
  <2>2. QED BY <1>2, <2>1, FinishedKeeps
<1>8. /\ docs \in SUBSET Passages /\ Filtered(ask, docs) /\ Supported(ask, docs)
      /\ ~call[c].hit /\ docs = {} => NothingFound(c)
      BY <1>4, <1>6, <1>7 DEF Filtered, Supported
<1>9. [call[c] EXCEPT !.docs = docs, !.at = "found"]
        = [call[c] EXCEPT !.docs = docs, !.raised = FALSE, !.at = "found"]
      BY <1>4 DEF CallStates
<1>10. /\ DOMAIN results' \subseteq {Key(other) : other \in Requested}
       /\ \A k \in DOMAIN results' : results'[k] \subseteq Passages
       BY <1>2, <1>4, <1>8, Shared
<1>11. ASSUME NEW other \in Requested, Key(other) \in DOMAIN results'
       PROVE  Filtered(other, results'[Key(other)]) /\ Supported(other, results'[Key(other)])
  <2>1. CASE Key(other) = key
    <3>1. other.query = ask.query /\ other.filter = ask.filter /\ other.plan = ask.plan
          BY <2>1 DEF Key
    <3>2. results'[Key(other)] = docs BY <1>2, <2>1
    <3>3. QED BY <1>8, <3>1, <3>2 DEF Filtered, Supported
  <2>2. CASE Key(other) # key
    <3>1. Key(other) \in DOMAIN results /\ results'[Key(other)] = results[Key(other)]
          BY <1>2, <1>11, <2>2
    <3>2. QED BY <3>1, Shared
  <2>3. QED BY <2>1, <2>2
<1>12. "found" \in CallPlaces BY DEF CallPlaces
<1>13. Goes(c, [call[c] EXCEPT !.docs = docs, !.raised = FALSE, !.at = "found"])
       BY <1>2, <1>9
<1>14. raises' \in 0 .. MaxRaises BY <1>3, Shared
<1>15. QED BY <1>3, <1>8, <1>10, <1>11, <1>12, <1>13, <1>14, DocsChange

LEMMA RaiseKeeps ==
    ASSUME PipelineInv, NEW c \in Calls, Raise(c)
    PROVE  PipelineInv'
<1> DEFINE ask == call[c].ask
           dense == IF "dense" \in Started(ask) THEN Dense(c) ELSE {}
           sparse == IF "sparse" \in Started(ask) THEN Sparse(c, FALSE) ELSE {}
<1>1. PICK kept \in Cut(IF dense # {} THEN dense ELSE sparse, Final) :
        Goes(c, [call[c] EXCEPT !.docs = IF call[c].sync THEN kept ELSE {},
                                !.raised = TRUE, !.at = "found"])
      BY DEF Raise
<1>2. /\ call[c].at = "ranked" /\ UNCHANGED <<setting, results, reranker>>
      /\ raises < MaxRaises /\ raises' = raises + 1
      BY DEF Raise
<1>3. ask \in Requested BY <1>2, Begun
<1>4. dense \subseteq Passages /\ Filtered(ask, dense)
  <2>1. "dense" \in Channels BY DEF Channels
  <2>2. QED BY <1>3, <2>1, DenseFinds, MilvusIsFiltered DEF Filtered
<1>5. sparse \subseteq Passages /\ Filtered(ask, sparse)
  <2>1. "bm25" \in Channels /\ "native" \in Channels BY DEF Channels
  <2>2. Sparse(c, FALSE) \in {FromSources("bm25", ask), FromMilvus("native", ask), {}}
        BY SparseFinds
  <2>3. QED BY <1>3, <2>1, <2>2, MilvusIsFiltered, SourcesAreFiltered DEF Filtered
<1> DEFINE found == IF dense # {} THEN dense ELSE sparse
           docs == IF call[c].sync THEN kept ELSE {}
<1>6. found \in SUBSET Passages /\ Filtered(ask, found) BY <1>4, <1>5
<1>7. kept \subseteq found BY <1>1 DEF Cut
<1> HIDE DEF found
<1>8. docs \in SUBSET Passages /\ Filtered(ask, docs) BY <1>6, <1>7 DEF Filtered
<1>9. Goes(c, [call[c] EXCEPT !.docs = docs, !.raised = TRUE, !.at = "found"]) BY <1>1
<1>10. raises' \in 0 .. MaxRaises BY <1>2, Shared, PipelineAssumption
<1>11. "found" \in CallPlaces BY DEF CallPlaces
<1> HIDE DEF docs
<1>12. /\ DOMAIN results' \subseteq {Key(other) : other \in Requested}
       /\ \A k \in DOMAIN results' : results'[k] \subseteq Passages
       /\ \A other \in Requested : Key(other) \in DOMAIN results' =>
             Filtered(other, results'[Key(other)]) /\ Supported(other, results'[Key(other)])
       BY <1>2, Shared
<1>13. call[c].at = "ranked" /\ UNCHANGED <<setting, reranker>> BY <1>2
<1>14. QED BY <1>8, <1>9, <1>10, <1>11, <1>12, <1>13, DocsChange

LEMMA AugmentKeeps ==
    ASSUME PipelineInv, NEW c \in Calls, Augment(c)
    PROVE  PipelineInv'
<1> DEFINE ask == call[c].ask
           own == IF ask.plan.weights \cap Legs # {} THEN call[c].docs ELSE {}
<1>1. PICK docs \in IF Optional(c) = {} THEN {call[c].docs}
                    ELSE Selected(own \union Optional(c), Final) :
         Goes(c, [call[c] EXCEPT !.docs = docs, !.at = "over"])
      BY DEF Augment
<1>2. call[c].at = "found" /\ UNCHANGED <<setting, results, reranker, raises>> BY DEF Augment
<1>3. /\ call[c] \in CallStates /\ ask \in Requested
      /\ call[c].docs \in SUBSET Passages
      /\ Filtered(ask, call[c].docs)
      /\ ~call[c].raised => Supported(ask, call[c].docs)
      /\ ~call[c].hit /\ ~call[c].raised /\ call[c].docs = {} => NothingFound(c)
      BY <1>2, Begun
<1>4. /\ Optional(c) \subseteq Passages
      /\ Filtered(ask, Optional(c)) /\ Supported(ask, Optional(c))
      BY <1>3, OptionalIsFiltered
<1>5. own \subseteq call[c].docs OBVIOUS
<1>6. docs \subseteq call[c].docs \union Optional(c)
      /\ (docs = {} => call[c].docs = {} \/ own = {})
  <2>1. CASE Optional(c) = {} BY <1>1, <2>1
  <2>2. CASE Optional(c) # {}
    <3>1. own \union Optional(c) \in SUBSET Passages BY <1>3, <1>4, <1>5
    <3>2. docs \subseteq own \union Optional(c)
          /\ (docs = {} => own \union Optional(c) = {})
          BY <1>1, <2>2, <3>1, SelectedKeeps, PipelineAssumption
    <3>3. QED BY <1>5, <3>2
  <2>3. QED BY <2>1, <2>2
<1>7. own = {} /\ call[c].docs # {} => NothingFound(c)
  <2>1. own = {} /\ call[c].docs # {} => Counted(c) = {}
        BY DEF Counted, Weighted
  <2>2. QED BY <2>1 DEF NothingFound
<1>8. docs \in SUBSET Passages /\ Filtered(ask, docs)
      BY <1>3, <1>4, <1>6 DEF Filtered
<1>14. ~call[c].raised => Supported(ask, docs)
      BY <1>3, <1>4, <1>6 DEF Supported
<1>9. ~call[c].hit /\ ~call[c].raised /\ docs = {} => NothingFound(c)
      BY <1>3, <1>6, <1>7
<1>10. [call[c] EXCEPT !.docs = docs, !.at = "over"]
         = [call[c] EXCEPT !.docs = docs, !.raised = call[c].raised, !.at = "over"]
       BY <1>3 DEF CallStates
<1>11. call[c].raised \in BOOLEAN BY <1>3 DEF CallStates
<1>12. "over" \in CallPlaces BY DEF CallPlaces
<1> HIDE DEF own
<1>13. Goes(c, [call[c] EXCEPT !.docs = docs, !.raised = call[c].raised, !.at = "over"])
       BY <1>1, <1>10
<1>15. call[c].at = "found" /\ UNCHANGED <<setting, reranker>> BY <1>2
<1>16. /\ DOMAIN results' \subseteq {Key(other) : other \in Requested}
       /\ \A k \in DOMAIN results' : results'[k] \subseteq Passages
       /\ \A other \in Requested : Key(other) \in DOMAIN results' =>
             Filtered(other, results'[Key(other)]) /\ Supported(other, results'[Key(other)])
       /\ raises' \in 0 .. MaxRaises
       BY <1>2, Shared
<1>17. QED BY <1>8, <1>9, <1>11, <1>12, <1>13, <1>14, <1>15, <1>16, DocsChange

LEMMA AskKeeps ==
    ASSUME PipelineInv, NEW c \in Calls, Ask(c)
    PROVE  PipelineInv'
<1>1. PICK asked \in Asks, sync \in BOOLEAN, down \in Outages :
        LET ask == Request(asked)
            begun == [call[c] EXCEPT !.ask = ask, !.sync = sync, !.down = down]
        IN  \/ /\ ask.filter.kind = "invalid"
               /\ Goes(c, [begun EXCEPT !.at = "over"])
            \/ /\ ask.filter.kind # "invalid" /\ Key(ask) \in DOMAIN results
               /\ Goes(c, [begun EXCEPT !.at = "found", !.hit = TRUE,
                                        !.docs = results[Key(ask)]])
            \/ /\ ask.filter.kind # "invalid" /\ Key(ask) \notin DOMAIN results
               /\ Goes(c, [begun EXCEPT !.at = "legs"])
      BY DEF Ask
<1> DEFINE ask == Request(asked)
           begun == [call[c] EXCEPT !.ask = ask, !.sync = sync, !.down = down]
<1>2. call[c].at = "unstarted" /\ UNCHANGED <<setting, results, reranker, raises>> BY DEF Ask
<1>3. call[c] \in CallStates /\ call[c].docs = {} /\ call[c].raised = FALSE
      BY <1>2 DEF PipelineInv, PipelineTypeOK, UnstartedOK
<1>4. ask \in Requested BY DEF Requested
<1>5. /\ begun \in CallStates /\ begun.ask = ask /\ begun.docs = {} /\ begun.raised = FALSE
      BY <1>3, <1>4 DEF CallStates
<1> HIDE DEF begun, ask
<1>6. {"over", "found", "legs"} \subseteq CallPlaces BY DEF CallPlaces
<1>7. reranker.lock # c BY <1>2, Shared
<1>8. CASE ask.filter.kind = "invalid"
  <2> DEFINE new == [begun EXCEPT !.at = "over"]
  <2>1. Goes(c, new) BY <1>1, <1>8 DEF begun, ask
  <2>2. /\ new \in CallStates /\ new.at = "over" /\ new.ask = ask /\ new.docs = {}
        /\ new.raised = FALSE
        BY <1>5, <1>6 DEF CallStates
  <2> HIDE DEF new
  <2>3. call'[c] = new
    <3>1. call \in [Calls -> CallStates] BY DEF PipelineInv, PipelineTypeOK
    <3>2. QED BY <2>1, <3>1 DEF Goes
  <2>4. call'[c].ask.filter.kind = "invalid" BY <1>8, <2>2, <2>3
  <2>8. Counted(c)' = {}
    <3>1. \A capability : ~Supports(call'[c].ask.filter, capability) BY <2>4 DEF Supports
    <3>2. QED BY <3>1 DEF Counted, Started
  <2>5. NothingFound(c)' BY <2>8 DEF NothingFound
  <2>6. Filtered(ask, {}) /\ Supported(ask, {}) BY DEF Filtered, Supported
  <2>7. QED BY <1>2, <1>4, <1>7, <2>1, <2>2, <2>5, <2>6, Shared, CallMoves
<1>9. CASE ask.filter.kind # "invalid" /\ Key(ask) \in DOMAIN results
  <2> DEFINE new == [begun EXCEPT !.at = "found", !.hit = TRUE, !.docs = results[Key(ask)]]
  <2>1. Goes(c, new) BY <1>1, <1>9 DEF begun, ask
  <2>2. results[Key(ask)] \subseteq Passages BY <1>9, Shared
  <2>3. /\ new \in CallStates /\ new.at = "found" /\ new.ask = ask
        /\ new.docs = results[Key(ask)] /\ new.raised = FALSE /\ new.hit = TRUE
        BY <1>5, <1>6, <2>2 DEF CallStates
  <2>4. new.hit BY <2>3
  <2> HIDE DEF new
  <2>5. Filtered(ask, new.docs) /\ Supported(ask, new.docs) BY <1>4, <1>9, <2>3, Shared
  <2>6. QED BY <1>2, <1>4, <1>7, <2>1, <2>3, <2>4, <2>5, Shared, CallMoves
<1>10. CASE ask.filter.kind # "invalid" /\ Key(ask) \notin DOMAIN results
  <2> DEFINE new == [begun EXCEPT !.at = "legs"]
  <2>1. Goes(c, new) BY <1>1, <1>10 DEF begun, ask
  <2>2. /\ new \in CallStates /\ new.at = "legs" /\ new.ask = ask /\ new.docs = {}
        /\ new.raised = FALSE
        BY <1>5, <1>6 DEF CallStates
  <2> HIDE DEF new
  <2>3. Filtered(ask, {}) /\ Supported(ask, {}) BY DEF Filtered, Supported
  <2>4. QED BY <1>2, <1>4, <1>7, <2>1, <2>2, <2>3, Shared, CallMoves
<1>11. QED BY <1>8, <1>9, <1>10

-----------------------------------------------------------------------------
LEMMA PipelineBegins == PipelineInit => PipelineInv
<1> SUFFICES ASSUME PipelineInit PROVE PipelineInv OBVIOUS
<1>1. Unstarted \in CallStates /\ Unstarted.at = "unstarted" /\ Unstarted.raised = FALSE
      /\ Unstarted.docs = {}
      BY DEF Unstarted, CallStates, CallPlaces
<1>2. \A c \in Calls : call[c] = Unstarted BY DEF PipelineInit
<1>3. call \in [Calls -> CallStates] BY <1>1 DEF PipelineInit
<1>4. DOMAIN results = {} BY DEF PipelineInit
<1>5. reranker = [attempted |-> FALSE, loaded |-> FALSE, lock |-> Free] /\ raises = 0
      BY DEF PipelineInit
<1>6. PipelineTypeOK /\ UnstartedOK
      BY <1>1, <1>2, <1>3, <1>4, <1>5, PipelineAssumption DEF PipelineTypeOK, UnstartedOK
<1>7. ResultsOK BY <1>4 DEF ResultsOK
<1>8. DocsOK /\ LegsOK BY <1>1, <1>2 DEF DocsOK, LegsOK
<1>9. QED BY <1>6, <1>7, <1>8 DEF PipelineInv

LEMMA PipelineSteps == PipelineInv /\ [PipelineNext]_pipelineVars => PipelineInv'
<1> SUFFICES ASSUME PipelineInv, [PipelineNext]_pipelineVars PROVE PipelineInv' OBVIOUS
<1>1. ASSUME PipelineNext PROVE PipelineInv'
      BY <1>1, AskKeeps, SearchKeeps, PeekKeeps, LockKeeps, LoadEndsKeeps, ScoreKeeps,
         FinishKeeps, RaiseKeeps, AugmentKeeps DEF PipelineNext
<1>2. CASE UNCHANGED pipelineVars
  <2>1. UNCHANGED <<setting, results, reranker, call, raises>> BY <1>2 DEF pipelineVars
  <2>2. Requested' = Requested /\ CallStates' = CallStates BY <2>1, SettingStays
  <2>3. \A plan : Speaking(plan)' = Speaking(plan) BY <2>1, SupportedStays
  <2>4. PipelineTypeOK' /\ UnstartedOK'
        BY <2>1, <2>2 DEF PipelineInv, PipelineTypeOK, UnstartedOK, Key
  <2>5. ResultsOK' BY <2>1, <2>2, <2>3 DEF PipelineInv, ResultsOK, Key, Filtered, Supported
  <2>6. DocsOK' BY <2>1, <2>3 DEF PipelineInv, DocsOK, Filtered, Supported
  <2>7. \A c \in Calls : NothingFound(c)' <=> NothingFound(c) BY <2>1, LegsStay
  <2>8. LegsOK' BY <2>1, <2>7 DEF PipelineInv, LegsOK
  <2>9. QED BY <2>4, <2>5, <2>6, <2>8 DEF PipelineInv
<1>3. QED BY <1>1, <1>2

\* The conjuncts of PipelineInv hold for every deployment, outage, query,
\* filter and number of calls that share the cache and the cross-encoder.
THEOREM PipelineInvariant == PipelineSpec => []PipelineInv
BY PipelineBegins, PipelineSteps, PTL DEF PipelineSpec

\* No passage outside the filter reaches a caller, from a live channel, from a
\* fallback or from the cache, for whatever each index finds.
THEOREM FilterAlwaysHolds == PipelineSpec => []FilterHolds
<1>1. PipelineInv => FilterHolds BY DEF PipelineInv, DocsOK, FilterHolds, Over, Filtered
<1>2. QED BY <1>1, PipelineInvariant, PTL

\* What a call returns was found for its own query by a channel of its own
\* plan: the cache key tells apart all that decides a result.
THEOREM EvidenceIsAlwaysOwn == PipelineSpec => []EvidenceIsOwn
<1>1. PipelineInv => EvidenceIsOwn BY DEF PipelineInv, DocsOK, EvidenceIsOwn, Over, Supported
<1>2. QED BY <1>1, PipelineInvariant, PTL

\* A leg that answers brings what it has.
LEMMA AnsweringLegs ==
    ASSUME PipelineInv, NEW c \in Calls, call[c].at # "unstarted", NEW leg \in Counted(c),
           Answering(c, leg)
    PROVE  Candidates(c, leg) = Leg(leg, c, Represented(call[c].ask))
<1> DEFINE ask == call[c].ask
<1>1. call[c] \in CallStates /\ ask \in Requested BY Begun
<1>2. leg \in Legs /\ Active(leg, ask.plan) BY DEF Counted, Started
<1>3. CASE leg = "dense" BY <1>3 DEF Answering, Candidates, Leg, Dense
<1>4. CASE leg = "sparse"
  <2>1. CASE "native" \notin setting
        BY <1>4, <2>1 DEF Answering, Candidates, Leg, Sparse, Legacy
  <2>2. CASE "native" \in setting /\ ~Represented(ask)
    <3>1. Up(c, {"encoder", "milvus"}) BY <1>4, <2>2 DEF Answering
    <3>2. Native(c, Represented(ask)) = FromMilvus("native", ask) BY <2>2, <3>1 DEF Native
    <3>3. Leg(leg, c, Represented(ask)) = FromMilvus("native", ask)
          BY <1>4, <2>2, <3>2 DEF Leg, Sparse
    <3>4. Candidates(c, leg) = FromMilvus("native", ask)
          BY <1>4, <2>2, <3>1 DEF Candidates
    <3>5. QED BY <3>3, <3>4
  <2>3. CASE "native" \in setting /\ Represented(ask)
    <3>1. Up(c, {"bm25"}) BY <1>4, <2>3 DEF Answering
    <3>2. Legacy(c) = FromSources("bm25", ask) BY <3>1 DEF Legacy
    <3>3. Up(c, {"encoder", "milvus"}) => Up(c, {"encoder"}) BY DEF Up
    <3>4. CASE "heads" \notin setting
      <4>1. Native(c, Represented(ask)) = Legacy(c)
        <5>1. CASE Up(c, {"encoder"}) BY <2>3, <3>4, <5>1 DEF Native
        <5>2. CASE ~Up(c, {"encoder"}) BY <2>3, <3>3, <5>2 DEF Native
        <5>3. QED BY <5>1, <5>2
      <4>2. QED BY <1>4, <2>3, <3>2, <3>4, <4>1 DEF Candidates, Leg, Sparse
    <3>5. CASE "heads" \in setting
          BY <1>4, <2>3, <3>2, <3>5 DEF Candidates, Leg, Sparse, Native
    <3>6. QED BY <3>4, <3>5
  <2>4. QED BY <2>1, <2>2, <2>3
<1>5. CASE leg = "graph"
  <2>1. Up(c, {"encoder", "graph"}) /\ (call[c].sync => "graph" \in setting)
        BY <1>5 DEF Answering
  <2>2. CASE call[c].sync
    <3> DEFINE plan == [ask.plan EXCEPT !.on = FALSE]
    <3>1. plan.on = FALSE OBVIOUS
    <3>2. QED BY <1>5, <2>1, <2>2 DEF Candidates, Leg, Graph, Active
  <2>3. CASE ~call[c].sync
    <3>1. Graph(c) = FromSources(IF ask.plan.on /\ ask.plan.ppr THEN "ppr" ELSE "graph", ask)
          BY <1>2, <1>5, <2>1, <2>3 DEF Graph
    <3>2. ask.plan.on /\ ask.plan.ppr <=> ask.plan.ppr BY <1>1, Requests
    <3>3. QED BY <1>5, <2>3, <3>1, <3>2 DEF Candidates, Leg
  <2>4. QED BY <2>2, <2>3
<1>6. QED BY <1>2, <1>3, <1>4, <1>5 DEF Legs

\* A call that ran the pipeline to its end empty-handed had no leg that was up
\* and held something: fusion, the rerank budget, the final cut and the
\* diversity selection of any size leave a non-empty list non-empty.
THEOREM AnyLegIsEnough == PipelineSpec => []OneLegIsEnough
<1>1. ASSUME PipelineInv, NEW c \in Calls, Over(c), ~call[c].hit, ~call[c].raised,
             call[c].docs = {}, NEW leg \in Weighted(call[c].ask.plan) \cap Started(call[c].ask),
             Answering(c, leg)
      PROVE  Candidates(c, leg) = {}
  <2>1. call[c].at = "over" BY <1>1 DEF Over
  <2>2. NothingFound(c) BY <1>1, <2>1 DEF PipelineInv, LegsOK
  <2>3. leg \in Counted(c) BY <1>1 DEF Counted
  <2>4. QED BY <1>1, <2>1, <2>2, <2>3, AnsweringLegs DEF NothingFound
<1>2. PipelineInv => OneLegIsEnough BY <1>1 DEF OneLegIsEnough
<1>3. QED BY <1>2, PipelineInvariant, PTL

-----------------------------------------------------------------------------
(* The collections.                                                        *)

\* Whatever stands in a collection was embedded by the model recorded for it:
\* a collection is created empty, and nobody writes before it is recorded.
VectorsOK ==
    \A c \in Collections : Exists(c) => \A k \in collection[c].chunks : k.model = recorded[c]

\* A collection the server has not recorded yet is empty.
RegisterOK ==
    ServerIs("register") => Exists(server.name) /\ collection[server.name].chunks = {}

\* The server and a running command never name the same collection.
ApartOK == ~CommandOver => server.name # command.target

Made == {"record", "write", "verify", "verified"}

TargetOK ==
    /\ command.at \in Made => Exists(command.target)
    /\ CommandIs("record") => collection[command.target].chunks = {}
    /\ CommandIs("write") => recorded[command.target] = command.model
    /\ Verified => ~(ServerIs("register") /\ server.name = command.target)

\* A target that stood there when the command began is never created again.
BeforeOK ==
    ~CommandOver /\ command.target \in command.before =>
        /\ Exists(command.target)
        /\ command.at \notin {"create", "record", "write", "verify"}
        /\ ~command.created

OwedOK ==
    \A o \in command.owed : \E r \in command.rows : r.doc = o[1] /\ r.section = o[2]

\* What the command wrote is there, and stays: a delete does not find it.
WrittenOK ==
    command.at \in {"verify", "verified"} =>
        \A r \in command.rows : \E k \in collection[command.target].chunks :
            k.doc = r.doc /\ k.section = r.section /\ ~k.hashed

CorpusInv ==
    CorpusTypeOK /\ VectorsOK /\ RegisterOK /\ ApartOK /\ TargetOK /\ BeforeOK /\ OwedOK
      /\ WrittenOK

ServerStates == [task : ServerTasks, doc : Uploads \cup {Gone}, name : Collections,
                 model : Embeddings]
CommandStates == [at : CommandPlaces, target : Collections \cup {Gone},
                  model : Embeddings \cup {Gone}, rows : SUBSET ParentRows,
                  created : BOOLEAN, before : SUBSET Collections,
                  owed : SUBSET (Uploads \X Sections)]
RowStates == {"none", "processing", "indexed", "failed", "deleted"}

LEMMA Serving ==
    ASSUME CorpusTypeOK, NEW task \in ServerTasks, NEW d \in Uploads \cup {Gone}, Serve(task, d)
    PROVE  /\ server' \in ServerStates
           /\ server'.task = task /\ server'.doc = d
           /\ server'.name = server.name /\ server'.model = server.model
BY DEF CorpusTypeOK, Serve, ServerStates

LEMMA Going ==
    ASSUME CorpusTypeOK, NEW at \in CommandPlaces, Go(at)
    PROVE  /\ command' \in CommandStates /\ command'.at = at
           /\ command'.target = command.target /\ command'.model = command.model
           /\ command'.rows = command.rows /\ command'.created = command.created
           /\ command'.before = command.before /\ command'.owed = command.owed
BY DEF CorpusTypeOK, Go, CommandStates

LEMMA Creating ==
    ASSUME CorpusTypeOK, NEW c \in Collections, NEW m \in Embeddings,
           collection' = Created(c, m)
    PROVE  /\ collection' \in [Collections -> Standing \cup {Gone}]
           /\ collection'[c] # Gone /\ collection'[c].chunks = {}
           /\ \A d \in Collections \ {c} : collection'[d] = collection[d]
<1> DEFINE empty == [dim |-> m.dim, sparse |-> m.sparse, chunks |-> {}]
<1>1. empty \in Standing BY MigrationAssumption DEF Standing
<1>2. empty # Gone BY <1>1, MigrationAssumption
<1>3. empty.chunks = {} OBVIOUS
<1>4. collection' = [collection EXCEPT ![c] = empty] BY DEF Created
<1> HIDE DEF empty
<1>5. QED BY <1>1, <1>2, <1>3, <1>4 DEF CorpusTypeOK

LEMMA Inserting ==
    ASSUME CorpusTypeOK, NEW c \in Collections, Exists(c), NEW new \in SUBSET Chunks,
           collection' = Inserted(c, new)
    PROVE  /\ collection' \in [Collections -> Standing \cup {Gone}]
           /\ collection'[c] # Gone
           /\ collection'[c].chunks = collection[c].chunks \union new
           /\ \A d \in Collections \ {c} : collection'[d] = collection[d]
<1> DEFINE fuller == [collection[c] EXCEPT !.chunks = collection[c].chunks \union new]
<1>1. collection[c] \in Standing BY DEF CorpusTypeOK, Exists
<1>2. fuller \in Standing BY <1>1 DEF Standing
<1>3. fuller # Gone BY <1>2, MigrationAssumption
<1>4. fuller.chunks = collection[c].chunks \union new BY <1>1 DEF Standing
<1>5. collection' = [collection EXCEPT ![c] = fuller] BY DEF Inserted
<1> HIDE DEF fuller
<1>6. QED BY <1>2, <1>3, <1>4, <1>5 DEF CorpusTypeOK

LEMMA Dropping ==
    ASSUME CorpusTypeOK, NEW c \in Collections, collection' = [collection EXCEPT ![c] = Gone]
    PROVE  /\ collection' \in [Collections -> Standing \cup {Gone}]
           /\ collection'[c] = Gone
           /\ \A d \in Collections \ {c} : collection'[d] = collection[d]
BY DEF CorpusTypeOK

\* Chunks are written for the sections of documents that are there.
LEMMA ChunkType ==
    ASSUME NEW d \in Uploads, NEW s \in Sections, NEW m \in Embeddings, NEW hashed \in BOOLEAN
    PROVE  /\ ChunkOf(d, s, m, hashed) \in Chunks
           /\ ChunkOf(d, s, m, hashed).doc = d /\ ChunkOf(d, s, m, hashed).section = s
           /\ ChunkOf(d, s, m, hashed).model = m /\ ChunkOf(d, s, m, hashed).hashed = hashed
BY DEF ChunkOf, Chunks

\* What the invariant says of collections, records and the command does not
\* read the registry or the parent store, and of the server only its place.
LEMMA NothingWritten ==
    ASSUME CorpusInv, CorpusTypeOK', UNCHANGED <<collection, recorded, command>>,
           server'.name = server.name, server'.task # "register"
    PROVE  CorpusInv'
<1>1. VectorsOK' BY DEF CorpusInv, VectorsOK, Exists
<1>2. RegisterOK' BY DEF RegisterOK, ServerIs
<1>3. ApartOK' /\ BeforeOK' BY DEF CorpusInv, ApartOK, BeforeOK, CommandOver, Exists
<1>4. TargetOK' BY DEF CorpusInv, TargetOK, CommandIs, Verified, Exists, ServerIs
<1>5. OwedOK' /\ WrittenOK' BY DEF CorpusInv, OwedOK, WrittenOK
<1>6. QED BY <1>1, <1>2, <1>3, <1>4, <1>5 DEF CorpusInv

LEMMA UploadKeeps ==
    ASSUME CorpusInv, NEW d \in Uploads, Upload(d)
    PROVE  CorpusInv'
<1>1. Serve("parents", d) /\ "parents" \in ServerTasks BY DEF Upload, ServerTasks
<1>2. CorpusTypeOK BY DEF CorpusInv
<1>3. server' \in ServerStates /\ server'.task = "parents" /\ server'.doc = d
      /\ server'.name = server.name
      BY <1>1, <1>2, Serving
<1>4. CorpusTypeOK' BY <1>2, <1>3 DEF Upload, CorpusTypeOK, ServerStates
<1>5. QED BY <1>3, <1>4, NothingWritten DEF Upload

LEMMA WriteParentsKeeps ==
    ASSUME CorpusInv, WriteParents
    PROVE  CorpusInv'
<1>1. Serve("ensure", server.doc) /\ "ensure" \in ServerTasks BY DEF WriteParents, ServerTasks
<1>2. CorpusTypeOK /\ server.doc \in Uploads BY DEF CorpusInv, CorpusTypeOK, WriteParents, ServerIs
<1>3. server' \in ServerStates /\ server'.task = "ensure" /\ server'.doc = server.doc
      /\ server'.name = server.name
      BY <1>1, <1>2, Serving
<1>4. \A s \in Sections : ParentRow(server.doc, s, KeyOf(server.doc)) \in ParentRows
      BY <1>2 DEF ParentRow, ParentRows, KeyOf
<1>5. parentRows' \subseteq ParentRows
      BY <1>2, <1>4 DEF WriteParents, CorpusTypeOK
<1>6. UNCHANGED <<row, collection, recorded, command>> BY DEF WriteParents
<1>7. CorpusTypeOK' BY <1>2, <1>3, <1>5, <1>6 DEF CorpusTypeOK, ServerStates
<1>8. QED BY <1>3, <1>6, <1>7, NothingWritten

LEMMA UploadFailsKeeps ==
    ASSUME CorpusInv, UploadFails
    PROVE  CorpusInv'
<1>1. Serve("idle", Gone) /\ "idle" \in ServerTasks BY DEF UploadFails, ServerTasks
<1>2. CorpusTypeOK BY DEF CorpusInv
<1>3. server' \in ServerStates /\ server'.task = "idle" /\ server'.name = server.name
      BY <1>1, <1>2, Serving
<1>4. row' \in [Uploads -> RowStates] BY <1>2 DEF UploadFails, CorpusTypeOK, RowStates
<1>5. CorpusTypeOK' BY <1>2, <1>3, <1>4 DEF UploadFails, CorpusTypeOK, ServerStates, RowStates
<1>6. QED BY <1>3, <1>5, NothingWritten DEF UploadFails

\* The server writes to the collection it names, which no running command has
\* for its target.
LEMMA ServerWrites ==
    ASSUME CorpusInv, CorpusTypeOK', UNCHANGED command,
           server'.name = server.name,
           \A d \in Collections \ {server.name} :
               collection'[d] = collection[d] /\ recorded'[d] = recorded[d],
           collection'[server.name] # Gone =>
               \A k \in collection'[server.name].chunks : k.model = recorded'[server.name],
           RegisterOK',
           Verified /\ command.target = server.name =>
               /\ collection'[server.name] # Gone
               /\ server'.task # "register"
               /\ \A k \in collection[server.name].chunks :
                      ~k.hashed => k \in collection'[server.name].chunks
    PROVE  CorpusInv'
<1>1. VectorsOK'
  <2>1. ASSUME NEW c \in Collections, collection'[c] # Gone
        PROVE  \A k \in collection'[c].chunks : k.model = recorded'[c]
    <3>1. CASE c = server.name BY <2>1, <3>1
    <3>2. CASE c # server.name BY <2>1, <3>2 DEF CorpusInv, VectorsOK, Exists
    <3>3. QED BY <3>1, <3>2
  <2>2. QED BY <2>1 DEF VectorsOK, Exists
<1>2. ApartOK' BY DEF CorpusInv, ApartOK, CommandOver
<1>3. ASSUME ~CommandOver, command.target \in Collections
      PROVE  /\ command.target # server.name
             /\ collection'[command.target] = collection[command.target]
             /\ recorded'[command.target] = recorded[command.target]
      BY <1>3 DEF CorpusInv, ApartOK
<1>4. command.at # "none" => command.target \in Collections
      BY DEF CorpusInv, CorpusTypeOK
<1>5. CommandOver <=> command.at \in {"none", "verified", "refused", "killed"}
      BY DEF CommandOver
<1>6. Verified <=> command.at = "verified" BY DEF Verified
<1>7. TargetOK'
  <2>1. ASSUME command.at \in {"record", "write", "verify"}
        PROVE  /\ collection'[command.target] # Gone
               /\ command.at = "record" => collection'[command.target].chunks = {}
               /\ command.at = "write" => recorded'[command.target] = command.model
        BY <2>1, <1>3, <1>4, <1>5 DEF CorpusInv, TargetOK, Exists, CommandIs, Made
  <2>2. ASSUME command.at = "verified"
        PROVE  /\ collection'[command.target] # Gone
               /\ ~(server'.task = "register" /\ server'.name = command.target)
    <3>1. CASE command.target = server.name BY <2>2, <3>1, <1>6
    <3>2. CASE command.target # server.name
          BY <2>2, <3>2, <1>4 DEF CorpusInv, TargetOK, Exists, Made
    <3>3. QED BY <3>1, <3>2
  <2>3. QED BY <2>1, <2>2 DEF TargetOK, Exists, CommandIs, Made, Verified, ServerIs
<1>8. BeforeOK'
      BY <1>3, <1>4, <1>5 DEF CorpusInv, BeforeOK, CommandOver, Exists
<1>9. OwedOK' BY DEF CorpusInv, OwedOK
<1>10. WrittenOK'
  <2>1. CASE command.at = "verify"
        BY <2>1, <1>3, <1>4, <1>5 DEF CorpusInv, WrittenOK
  <2>2. CASE command.at = "verified" /\ command.target # server.name
        BY <2>2, <1>4 DEF CorpusInv, WrittenOK
  <2>3. CASE command.at = "verified" /\ command.target = server.name
    <3>1. ASSUME NEW r \in command.rows
          PROVE  \E k \in collection'[command.target].chunks :
                    k.doc = r.doc /\ k.section = r.section /\ ~k.hashed
      <4>1. PICK k \in collection[command.target].chunks :
                k.doc = r.doc /\ k.section = r.section /\ ~k.hashed
            BY <2>3 DEF CorpusInv, WrittenOK
      <4>2. k \in collection'[command.target].chunks BY <2>3, <4>1, <1>6
      <4>3. QED BY <4>1, <4>2
    <3>2. QED BY <3>1, <2>3 DEF WrittenOK
  <2>4. QED BY <2>1, <2>2, <2>3 DEF WrittenOK
<1>11. QED BY <1>1, <1>2, <1>7, <1>8, <1>9, <1>10 DEF CorpusInv

LEMMA EnsureKeeps ==
    ASSUME CorpusInv, Ensure
    PROVE  CorpusInv'
<1>1. Serve("register", server.doc) /\ "register" \in ServerTasks BY DEF Ensure, ServerTasks
<1>2. CorpusTypeOK /\ server.doc \in Uploads \cup {Gone}
      /\ server.name \in Collections /\ server.model \in Embeddings
      BY DEF CorpusInv, CorpusTypeOK
<1>3. /\ server' \in ServerStates /\ server'.task = "register" /\ server'.doc = server.doc
      /\ server'.name = server.name
      BY <1>1, <1>2, Serving
<1>4. collection' = Created(server.name, server.model) /\ ~Exists(server.name)
      /\ UNCHANGED <<row, parentRows, recorded, command>>
      BY DEF Ensure
<1>5. /\ collection' \in [Collections -> Standing \cup {Gone}]
      /\ collection'[server.name] # Gone /\ collection'[server.name].chunks = {}
      /\ \A d \in Collections \ {server.name} : collection'[d] = collection[d]
      BY <1>2, <1>4, Creating
<1>6. CorpusTypeOK' BY <1>2, <1>3, <1>4, <1>5 DEF CorpusTypeOK, ServerStates
<1>7. RegisterOK' BY <1>3, <1>5 DEF RegisterOK, Exists
<1>8. Verified => Exists(command.target) BY DEF CorpusInv, TargetOK, Verified, Made
<1>9. QED BY <1>3, <1>4, <1>5, <1>6, <1>7, <1>8, ServerWrites

LEMMA RegisterKeeps ==
    ASSUME CorpusInv, Register
    PROVE  CorpusInv'
<1>1. /\ server.task = "register" /\ Exists(server.name)
      /\ collection[server.name].chunks = {}
      BY DEF CorpusInv, RegisterOK, Register, ServerIs
<1>2. CorpusTypeOK /\ server.doc \in Uploads \cup {Gone}
      /\ server.name \in Collections /\ server.model \in Embeddings
      BY DEF CorpusInv, CorpusTypeOK
<1>3. ~(Verified /\ command.target = server.name)
      BY <1>1 DEF CorpusInv, TargetOK, ServerIs
<1>4. CASE /\ recorded' = [recorded EXCEPT ![server.name] = server.model]
           /\ Serve(IF server.doc = Gone THEN "idle" ELSE "ensure", server.doc)
           /\ UNCHANGED <<row, parentRows, collection, command, used>>
  <2> DEFINE task == IF server.doc = Gone THEN "idle" ELSE "ensure"
  <2>1. task \in ServerTasks /\ task # "register" /\ (task = "ensure" => server.doc # Gone)
        /\ task \in {"idle", "ensure"}
        BY DEF ServerTasks
  <2>2. Serve(task, server.doc) BY <1>4
  <2> HIDE DEF task
  <2>3. /\ server' \in ServerStates /\ server'.task = task /\ server'.doc = server.doc
        /\ server'.name = server.name
        BY <1>2, <2>1, <2>2, Serving
  <2>4. /\ recorded' \in [Collections -> Embeddings \cup {Gone}]
        /\ \A d \in Collections \ {server.name} : recorded'[d] = recorded[d]
        BY <1>2, <1>4 DEF CorpusTypeOK
  <2>5. CorpusTypeOK' BY <1>2, <1>4, <2>1, <2>3, <2>4 DEF CorpusTypeOK, ServerStates
  <2>6. RegisterOK' BY <2>1, <2>3 DEF RegisterOK, ServerIs
  <2>7. QED BY <1>1, <1>3, <1>4, <2>3, <2>4, <2>5, <2>6, ServerWrites
<1>5. CASE /\ collection' = [collection EXCEPT ![server.name] = Gone]
           /\ row' = [d \in Uploads |-> IF d = server.doc THEN "failed" ELSE row[d]]
           /\ Serve("idle", Gone)
           /\ UNCHANGED <<parentRows, recorded, command>>
  <2>1. /\ server' \in ServerStates /\ server'.task = "idle" /\ server'.name = server.name
        BY <1>2, <1>5, Serving DEF ServerTasks
  <2>2. /\ collection' \in [Collections -> Standing \cup {Gone}]
        /\ collection'[server.name] = Gone
        /\ \A d \in Collections \ {server.name} : collection'[d] = collection[d]
        BY <1>2, <1>5, Dropping
  <2>3. row' \in [Uploads -> RowStates] BY <1>2, <1>5 DEF CorpusTypeOK, RowStates
  <2>4. CorpusTypeOK' BY <1>2, <1>5, <2>1, <2>2, <2>3 DEF CorpusTypeOK, ServerStates, RowStates
  <2>5. RegisterOK' BY <2>1 DEF RegisterOK, ServerIs
  <2>6. QED BY <1>3, <1>5, <2>1, <2>2, <2>4, <2>5, ServerWrites
<1>6. QED BY <1>4, <1>5 DEF Register

LEMMA AddDocumentsKeeps ==
    ASSUME CorpusInv, AddDocuments
    PROVE  CorpusInv'
<1>1. CASE UploadFails BY <1>1, UploadFailsKeeps
<1>2. ASSUME NEW lost \in SUBSET Sections, Fits(server.name, server.model),
             collection' = Inserted(server.name,
                    {ChunkOf(server.doc, s, server.model, TRUE) : s \in Sections \ lost}),
             row' = [row EXCEPT ![server.doc] = "indexed"],
             Serve("idle", Gone), UNCHANGED <<parentRows, recorded, command>>
      PROVE  CorpusInv'
  <2> DEFINE new == {ChunkOf(server.doc, s, server.model, TRUE) : s \in Sections \ lost}
  <2>1. CorpusTypeOK /\ server.doc \in Uploads /\ server.name \in Collections
        /\ server.model \in Embeddings /\ Exists(server.name)
        BY DEF CorpusInv, CorpusTypeOK, AddDocuments, ServerIs
  <2>2. new \in SUBSET Chunks /\ \A k \in new : k.model = server.model
    <3> DEFINE chunk(s) == ChunkOf(server.doc, s, server.model, TRUE)
    <3>1. ASSUME NEW s \in Sections PROVE chunk(s) \in Chunks
          BY <2>1 DEF ChunkOf, Chunks
    <3>2. \A s : chunk(s).model = server.model BY DEF ChunkOf
    <3>3. new = {chunk(s) : s \in Sections \ lost} OBVIOUS
    <3> HIDE DEF chunk, new
    <3>4. QED BY <3>1, <3>2, <3>3
  <2>3. /\ server' \in ServerStates /\ server'.task = "idle" /\ server'.name = server.name
        BY <1>2, <2>1, Serving DEF ServerTasks
  <2>4. collection' = Inserted(server.name, new) BY <1>2
  <2> HIDE DEF new
  <2>5. /\ collection' \in [Collections -> Standing \cup {Gone}]
        /\ collection'[server.name] # Gone
        /\ collection'[server.name].chunks = collection[server.name].chunks \union new
        /\ \A d \in Collections \ {server.name} : collection'[d] = collection[d]
        BY <2>1, <2>2, <2>4, Inserting
  <2>6. row' \in [Uploads -> RowStates] BY <1>2, <2>1 DEF CorpusTypeOK, RowStates
  <2>7. CorpusTypeOK' BY <1>2, <2>1, <2>3, <2>5, <2>6 DEF CorpusTypeOK, ServerStates, RowStates
  <2>8. RegisterOK' BY <2>3 DEF RegisterOK, ServerIs
  <2>9. \A k \in collection'[server.name].chunks : k.model = recorded'[server.name]
    <3>1. recorded[server.name] = server.model BY <1>2, <2>1 DEF Fits
    <3>2. \A k \in collection[server.name].chunks : k.model = recorded[server.name]
          BY <2>1 DEF CorpusInv, VectorsOK
    <3>3. QED BY <1>2, <2>2, <2>5, <3>1, <3>2
  <2>10. QED BY <1>2, <2>3, <2>5, <2>7, <2>8, <2>9, ServerWrites
<1>3. QED BY <1>1, <1>2 DEF AddDocuments

LEMMA DeleteKeeps ==
    ASSUME CorpusInv, NEW d \in Uploads, Delete(d)
    PROVE  CorpusInv'
<1>1. /\ CorpusTypeOK /\ server.name \in Collections /\ server.task = "idle"
      /\ UNCHANGED <<parentRows, recorded, server, command>>
      /\ row' = [row EXCEPT ![d] = "deleted"]
      BY DEF CorpusInv, CorpusTypeOK, Delete, ServerIs
<1>2. row' \in [Uploads -> RowStates] BY <1>1 DEF CorpusTypeOK, RowStates
<1>3. CASE ~Exists(server.name)
  <2>1. collection' = collection BY <1>3 DEF Delete
  <2>2. CorpusTypeOK' BY <1>1, <1>2, <2>1 DEF CorpusTypeOK, RowStates
  <2>3. QED BY <1>1, <2>1, <2>2, NothingWritten
<1>4. CASE Exists(server.name)
  <2> DEFINE less == [collection[server.name] EXCEPT !.chunks = {k \in @ : k.doc # d \/ ~k.hashed}]
  <2>1. collection[server.name] \in Standing BY <1>1, <1>4 DEF CorpusTypeOK, Exists
  <2>2. /\ less \in Standing
        /\ less.chunks = {k \in collection[server.name].chunks : k.doc # d \/ ~k.hashed}
        BY <2>1 DEF Standing
  <2>3. collection' = [collection EXCEPT ![server.name] = less] BY <1>4 DEF Delete
  <2>4. less # Gone BY <2>2, MigrationAssumption
  <2> HIDE DEF less
  <2>5. /\ collection' \in [Collections -> Standing \cup {Gone}]
        /\ collection'[server.name] = less
        /\ \A c \in Collections \ {server.name} : collection'[c] = collection[c]
        BY <1>1, <2>2, <2>3 DEF CorpusTypeOK
  <2>6. CorpusTypeOK' BY <1>1, <1>2, <2>5 DEF CorpusTypeOK, RowStates
  <2>7. RegisterOK' BY <1>1 DEF RegisterOK, ServerIs
  <2>8. \A k \in less.chunks : k.model = recorded[server.name]
        BY <1>1, <1>4, <2>2 DEF CorpusInv, VectorsOK
  <2>9. \A k \in collection[server.name].chunks : ~k.hashed => k \in less.chunks BY <2>2
  <2>10. server'.task # "register" BY <1>1
  <2>11. QED BY <1>1, <2>4, <2>5, <2>6, <2>7, <2>8, <2>9, <2>10, ServerWrites
<1>5. QED BY <1>3, <1>4

LEMMA ReconfigureKeeps ==
    ASSUME CorpusInv, Reconfigure
    PROVE  CorpusInv'
<1>1. PICK m \in Embeddings, c \in Collections :
         /\ CommandOver \/ c # command.target
         /\ server' = [task |-> "idle", doc |-> Gone, name |-> c, model |-> m]
      BY DEF Reconfigure
<1>2. UNCHANGED <<row, parentRows, collection, recorded, command>> BY DEF Reconfigure
<1>3. server' \in ServerStates /\ server'.task = "idle" /\ server'.name = c
      BY <1>1 DEF ServerStates, ServerTasks
<1>4. CorpusTypeOK' BY <1>2, <1>3 DEF CorpusInv, CorpusTypeOK, ServerStates
<1>5. VectorsOK' BY <1>2 DEF CorpusInv, VectorsOK, Exists
<1>6. RegisterOK' BY <1>3 DEF RegisterOK, ServerIs
<1>7. ApartOK' BY <1>1, <1>2, <1>3 DEF ApartOK, CommandOver
<1>8. TargetOK' /\ BeforeOK'
      BY <1>2, <1>3 DEF CorpusInv, TargetOK, BeforeOK, CommandIs, Verified, Exists, ServerIs, CommandOver
<1>9. OwedOK' /\ WrittenOK' BY <1>2 DEF CorpusInv, OwedOK, WrittenOK
<1>10. QED BY <1>4, <1>5, <1>6, <1>7, <1>8, <1>9 DEF CorpusInv

-----------------------------------------------------------------------------
\* The command while it reads: nothing is written.
LEMMA CommandReads ==
    ASSUME CorpusInv, NEW at \in CommandPlaces, Go(at), ~CommandOver,
           UNCHANGED <<row, collection, recorded, server>>, parentRows' \subseteq ParentRows,
           at \in Made => CommandIs("verify") /\ at = "verified",
           at = "create" => command.target \notin command.before
    PROVE  CorpusInv'
<1>1. CorpusTypeOK BY DEF CorpusInv
<1>2. /\ command' \in CommandStates /\ command'.at = at
      /\ command'.target = command.target /\ command'.model = command.model
      /\ command'.rows = command.rows /\ command'.created = command.created
      /\ command'.before = command.before /\ command'.owed = command.owed
      BY <1>1, Going
<1>3. command.at # "none" BY DEF CommandOver
<1>4. CorpusTypeOK' BY <1>1, <1>2, <1>3 DEF CorpusTypeOK, CommandStates
<1>5. VectorsOK' /\ RegisterOK' BY DEF CorpusInv, VectorsOK, RegisterOK, Exists, ServerIs
<1>6. ApartOK' BY <1>2 DEF CorpusInv, ApartOK, CommandOver
<1>7. TargetOK'
  <2>1. ASSUME at \in Made
        PROVE  at = "verified" /\ Exists(command.target) /\ server.name # command.target
        BY <2>1 DEF CorpusInv, TargetOK, ApartOK, CommandIs, CommandOver, Made
  <2>2. QED BY <1>2, <2>1 DEF TargetOK, CommandIs, Verified, Exists, ServerIs, Made
<1>8. BeforeOK'
      BY <1>2 DEF CorpusInv, BeforeOK, CommandOver, CommandIs, Exists, Made
<1>9. OwedOK' BY <1>2 DEF CorpusInv, OwedOK
<1>10. WrittenOK' BY <1>2 DEF CorpusInv, WrittenOK, CommandIs, Made
<1>11. QED BY <1>4, <1>5, <1>6, <1>7, <1>8, <1>9, <1>10 DEF CorpusInv

LEMMA StartCommandKeeps ==
    ASSUME CorpusInv, NEW t \in Collections, NEW m \in Embeddings, StartCommand(t, m)
    PROVE  CorpusInv'
<1> DEFINE owed == {r \in parentRows : r.doc \in Indexed}
           place == IF parentRows = {} THEN "refused" ELSE "sources"
           before == {c \in Collections : Exists(c)}
           owing == {<<r.doc, r.section>> : r \in owed}
<1>1. command' = [NoCommand EXCEPT !.at = place, !.target = t, !.model = m, !.rows = parentRows,
                                   !.before = before, !.owed = owing]
      BY DEF StartCommand
<1>2. /\ command'.at = place /\ command'.target = t /\ command'.model = m
      /\ command'.rows = parentRows /\ command'.before = before /\ command'.owed = owing
      /\ command'.created = FALSE
      BY <1>1 DEF NoCommand
<1>3. CorpusTypeOK /\ parentRows \subseteq ParentRows BY DEF CorpusInv, CorpusTypeOK
<1>4. owing \subseteq Uploads \X Sections BY <1>3 DEF ParentRows
<1>5. before \subseteq Collections /\ \A c \in before : Exists(c) OBVIOUS
<1>6. place \in {"refused", "sources"} OBVIOUS
<1>7. \A o \in owing : \E r \in parentRows : r.doc = o[1] /\ r.section = o[2] OBVIOUS
<1>8. command' \in CommandStates
      BY <1>1, <1>3, <1>4, <1>5, <1>6 DEF NoCommand, CommandStates, CommandPlaces
<1> HIDE DEF owed, place, before, owing
<1>9. UNCHANGED <<row, parentRows, collection, recorded, server>> /\ t # server.name
      BY DEF StartCommand
<1>10. CorpusTypeOK' BY <1>2, <1>3, <1>8, <1>9 DEF CorpusTypeOK, CommandStates
<1>11. VectorsOK' /\ RegisterOK'
       BY <1>9 DEF CorpusInv, VectorsOK, RegisterOK, Exists, ServerIs
<1>12. ApartOK' BY <1>2, <1>9 DEF ApartOK
<1>13. TargetOK' /\ WrittenOK'
       BY <1>2, <1>6 DEF TargetOK, WrittenOK, CommandIs, Verified, Made
<1>14. BeforeOK' BY <1>2, <1>5, <1>6, <1>9 DEF BeforeOK, Exists
<1>15. OwedOK' BY <1>2, <1>7 DEF OwedOK
<1>16. QED BY <1>10, <1>11, <1>12, <1>13, <1>14, <1>15 DEF CorpusInv

LEMMA CheckSourcesKeeps ==
    ASSUME CorpusInv, CheckSources
    PROVE  CorpusInv'
<1> DEFINE place == IF \A d \in Indexed : \E r \in command.rows : ParentSource(r) = d
                    THEN "split" ELSE "refused"
<1>1. Go(place) /\ place \in {"split", "refused"} BY DEF CheckSources
<1> HIDE DEF place
<1>2. place \in CommandPlaces /\ place \notin Made /\ place # "create"
      BY <1>1 DEF CommandPlaces, Made
<1>3. ~CommandOver BY DEF CheckSources, CommandIs, CommandOver
<1>4. parentRows' \subseteq ParentRows BY DEF CheckSources, CorpusInv, CorpusTypeOK
<1>5. QED BY <1>1, <1>2, <1>3, <1>4, CommandReads DEF CheckSources

LEMMA ResplitKeeps ==
    ASSUME CorpusInv, Resplit
    PROVE  CorpusInv'
<1>1. Go("list") /\ "list" \in CommandPlaces /\ "list" \notin Made
      BY DEF Resplit, CommandPlaces, Made
<1>2. ~CommandOver BY DEF Resplit, CommandIs, CommandOver
<1>3. command.rows \subseteq ParentRows /\ parentRows \subseteq ParentRows
      BY DEF CorpusInv, CorpusTypeOK
<1>4. parentRows' \subseteq ParentRows BY <1>3 DEF Resplit, ParentRows, ParentRow
<1>5. QED BY <1>1, <1>2, <1>4, CommandReads DEF Resplit

LEMMA ListTargetsKeeps ==
    ASSUME CorpusInv, ListTargets
    PROVE  CorpusInv'
<1> DEFINE place == IF Exists(command.target) THEN "cleanup" ELSE "create"
<1>1. Go(place) /\ place \in {"cleanup", "create"} BY DEF ListTargets
<1>2. ~CommandOver BY DEF ListTargets, CommandIs, CommandOver
<1>3. place = "create" => command.target \notin command.before
      BY <1>2 DEF CorpusInv, BeforeOK
<1> HIDE DEF place
<1>4. place \in CommandPlaces /\ place \notin Made BY <1>1 DEF CommandPlaces, Made
<1>5. parentRows' \subseteq ParentRows BY DEF ListTargets, CorpusInv, CorpusTypeOK
<1>6. QED BY <1>1, <1>2, <1>3, <1>4, <1>5, CommandReads DEF ListTargets

LEMMA VerifyTargetKeeps ==
    ASSUME CorpusInv, VerifyTarget
    PROVE  CorpusInv'
<1>1. PICK place \in {"verified", "cleanup"} : Go(place) BY DEF VerifyTarget
<1>2. place \in CommandPlaces /\ (place \in Made => place = "verified") /\ place # "create"
      BY <1>1 DEF CommandPlaces, Made
<1>3. ~CommandOver /\ CommandIs("verify") BY DEF VerifyTarget, CommandIs, CommandOver
<1>4. parentRows' \subseteq ParentRows BY DEF VerifyTarget, CorpusInv, CorpusTypeOK
<1>5. QED BY <1>1, <1>2, <1>3, <1>4, CommandReads DEF VerifyTarget

LEMMA KillCommandKeeps ==
    ASSUME CorpusInv, KillCommand
    PROVE  CorpusInv'
<1>1. Go("killed") /\ "killed" \in CommandPlaces /\ "killed" \notin Made
      BY DEF KillCommand, CommandPlaces, Made
<1>2. parentRows' \subseteq ParentRows BY DEF KillCommand, CorpusInv, CorpusTypeOK
<1>3. QED BY <1>1, <1>2, CommandReads DEF KillCommand

\* The command writes to its target, which it created, and to nothing else.
LEMMA TargetWritten ==
    ASSUME CorpusInv, CorpusTypeOK', ~CommandOver, UNCHANGED server,
           command'.target = command.target, command'.before = command.before,
           command'.owed = command.owed, command'.rows = command.rows,
           \A d \in Collections \ {command.target} :
               collection'[d] = collection[d] /\ recorded'[d] = recorded[d],
           collection'[command.target] # Gone =>
               \A k \in collection'[command.target].chunks : k.model = recorded'[command.target],
           command'.at \notin {"none", "verified"},
           command'.at \in {"record", "write", "verify"} =>
               /\ command.target \notin command.before
               /\ collection'[command.target] # Gone
               /\ command'.at = "record" => collection'[command.target].chunks = {}
               /\ command'.at = "write" => recorded'[command.target] = command'.model,
           command'.at # "create",
           command.target \in command.before =>
               ~command'.created /\ collection'[command.target] # Gone,
           command'.at = "verify" =>
               \A r \in command.rows : \E k \in collection'[command.target].chunks :
                   k.doc = r.doc /\ k.section = r.section /\ ~k.hashed
    PROVE  CorpusInv'
<1>1. command.target \in Collections
      BY DEF CorpusInv, CorpusTypeOK, CommandOver
<1>2. server.name # command.target BY DEF CorpusInv, ApartOK
<1>3. VectorsOK'
  <2>1. ASSUME NEW c \in Collections, collection'[c] # Gone
        PROVE  \A k \in collection'[c].chunks : k.model = recorded'[c]
    <3>1. CASE c = command.target BY <2>1, <3>1
    <3>2. CASE c # command.target BY <2>1, <3>2 DEF CorpusInv, VectorsOK, Exists
    <3>3. QED BY <3>1, <3>2
  <2>2. QED BY <2>1 DEF VectorsOK, Exists
<1>4. RegisterOK'
  <2>1. collection'[server.name] = collection[server.name]
        BY <1>2 DEF CorpusInv, CorpusTypeOK
  <2>2. QED BY <2>1 DEF CorpusInv, RegisterOK, ServerIs, Exists
<1>5. ApartOK' BY <1>2 DEF ApartOK
<1>6. TargetOK' BY DEF TargetOK, CommandIs, Verified, Exists, Made
<1>7. BeforeOK' BY DEF BeforeOK, Exists
<1>8. OwedOK' BY DEF CorpusInv, OwedOK
<1>9. WrittenOK' BY DEF WrittenOK
<1>10. QED BY <1>3, <1>4, <1>5, <1>6, <1>7, <1>8, <1>9 DEF CorpusInv

LEMMA RunningCommand ==
    ASSUME CorpusInv, ~CommandOver
    PROVE  /\ command.target \in Collections /\ command.model \in Embeddings
           /\ command.at \in {"create", "record", "write"} => command.target \notin command.before
BY DEF CorpusInv, CorpusTypeOK, CommandOver, BeforeOK

LEMMA CreateKeeps ==
    ASSUME CorpusInv, Create
    PROVE  CorpusInv'
<1>1. CorpusTypeOK /\ command.at = "create" /\ ~CommandOver
      BY DEF CorpusInv, Create, CommandIs, CommandOver
<1>2. command.target \in Collections /\ command.model \in Embeddings
      /\ command.target \notin command.before
      BY <1>1, RunningCommand
<1>3. /\ command' \in CommandStates /\ command'.at = "record"
      /\ command'.target = command.target /\ command'.model = command.model
      /\ command'.rows = command.rows /\ command'.before = command.before
      /\ command'.owed = command.owed
      BY <1>1, Going DEF Create, CommandPlaces
<1>4. /\ collection' \in [Collections -> Standing \cup {Gone}]
      /\ collection'[command.target] # Gone /\ collection'[command.target].chunks = {}
      /\ \A d \in Collections \ {command.target} : collection'[d] = collection[d]
      BY <1>1, <1>2, Creating DEF Create
<1>5. UNCHANGED <<row, parentRows, recorded, server>> BY DEF Create
<1>6. CorpusTypeOK' BY <1>1, <1>2, <1>3, <1>4, <1>5 DEF CorpusTypeOK, CommandStates
<1>7. QED BY <1>1, <1>2, <1>3, <1>4, <1>5, <1>6, TargetWritten

LEMMA RecordKeeps ==
    ASSUME CorpusInv, Record
    PROVE  CorpusInv'
<1>1. CorpusTypeOK /\ command.at = "record" /\ ~CommandOver
      BY DEF CorpusInv, Record, CommandIs, CommandOver
<1>2. command.target \in Collections /\ command.model \in Embeddings
      /\ command.target \notin command.before
      BY <1>1, RunningCommand
<1>3. UNCHANGED <<row, parentRows, server>> BY DEF Record
<1>4. Exists(command.target) /\ collection[command.target].chunks = {}
      BY <1>1 DEF CorpusInv, TargetOK, CommandIs, Made
<1>5. CASE /\ recorded' = [recorded EXCEPT ![command.target] = command.model]
           /\ command' = [command EXCEPT !.at = "write", !.created = TRUE]
           /\ UNCHANGED collection
  <2>1. /\ command' \in CommandStates /\ command'.at = "write"
        /\ command'.target = command.target /\ command'.model = command.model
        /\ command'.rows = command.rows /\ command'.before = command.before
        /\ command'.owed = command.owed
        BY <1>1, <1>5 DEF CorpusTypeOK, CommandStates, CommandPlaces
  <2>2. /\ recorded' \in [Collections -> Embeddings \cup {Gone}]
        /\ recorded'[command.target] = command.model
        /\ \A d \in Collections \ {command.target} : recorded'[d] = recorded[d]
        BY <1>1, <1>2, <1>5 DEF CorpusTypeOK
  <2>3. CorpusTypeOK' BY <1>1, <1>2, <1>3, <1>5, <2>1, <2>2 DEF CorpusTypeOK, CommandStates
  <2>4. QED BY <1>1, <1>2, <1>3, <1>4, <1>5, <2>1, <2>2, <2>3, TargetWritten DEF Exists
<1>6. CASE /\ collection' = [collection EXCEPT ![command.target] = Gone]
           /\ Go("cleanup")
           /\ UNCHANGED recorded
  <2>1. /\ command' \in CommandStates /\ command'.at = "cleanup"
        /\ command'.target = command.target /\ command'.model = command.model
        /\ command'.rows = command.rows /\ command'.before = command.before
        /\ command'.owed = command.owed
        BY <1>1, <1>6, Going DEF CommandPlaces
  <2>2. /\ collection' \in [Collections -> Standing \cup {Gone}]
        /\ collection'[command.target] = Gone
        /\ \A d \in Collections \ {command.target} : collection'[d] = collection[d]
        BY <1>1, <1>2, <1>6, Dropping
  <2>3. CorpusTypeOK' BY <1>1, <1>2, <1>3, <1>6, <2>1, <2>2 DEF CorpusTypeOK, CommandStates
  <2>4. QED BY <1>1, <1>2, <1>3, <1>6, <2>1, <2>2, <2>3, TargetWritten
<1>7. QED BY <1>5, <1>6 DEF Record

LEMMA WriteTargetKeeps ==
    ASSUME CorpusInv, WriteTarget
    PROVE  CorpusInv'
<1>1. CorpusTypeOK /\ command.at = "write" /\ ~CommandOver
      BY DEF CorpusInv, WriteTarget, CommandIs, CommandOver
<1>2. command.target \in Collections /\ command.model \in Embeddings
      /\ command.target \notin command.before
      BY <1>1, RunningCommand
<1>3. UNCHANGED <<row, parentRows, recorded, server>> BY DEF WriteTarget
<1>4. Exists(command.target) /\ recorded[command.target] = command.model
      BY <1>1 DEF CorpusInv, TargetOK, CommandIs, Made
<1>5. PICK lost \in SUBSET command.rows :
         /\ collection' = Inserted(command.target,
              {ChunkOf(r.doc, r.section, command.model, FALSE) : r \in command.rows \ lost})
         /\ Go(IF Whole(lost) THEN "verify" ELSE "cleanup")
      BY DEF WriteTarget
<1> DEFINE new == {ChunkOf(r.doc, r.section, command.model, FALSE) : r \in command.rows \ lost}
           place == IF Whole(lost) THEN "verify" ELSE "cleanup"
<1>6. command.rows \subseteq ParentRows BY <1>1 DEF CorpusTypeOK
<1> DEFINE chunk(r) == ChunkOf(r.doc, r.section, command.model, FALSE)
<1>7. ASSUME NEW r \in command.rows
       PROVE  /\ chunk(r) \in Chunks /\ chunk(r).model = command.model
              /\ chunk(r).doc = r.doc /\ chunk(r).section = r.section /\ ~chunk(r).hashed
  <2>1. r.doc \in Uploads /\ r.section \in Sections BY <1>6 DEF ParentRows
  <2>2. chunk(r).hashed = FALSE BY DEF ChunkOf
  <2>3. chunk(r).model = command.model /\ chunk(r).doc = r.doc /\ chunk(r).section = r.section
        BY DEF ChunkOf
  <2>4. chunk(r) \in Chunks BY <1>2, <2>1 DEF ChunkOf, Chunks
  <2>5. ~chunk(r).hashed BY <2>2 DEF ChunkOf
  <2>6. QED BY <2>3, <2>4, <2>5
<1>8. new = {chunk(r) : r \in command.rows \ lost} OBVIOUS
<1>9. /\ collection' = Inserted(command.target, new) /\ Go(place)
      /\ place \in {"verify", "cleanup"} /\ (place = "verify" => lost = {})
      BY <1>5 DEF Whole
<1> HIDE DEF new, place, chunk
<1>10. new \in SUBSET Chunks /\ \A k \in new : k.model = command.model BY <1>7, <1>8
<1>11. lost = {} => \A r \in command.rows : \E k \in new :
                      k.doc = r.doc /\ k.section = r.section /\ ~k.hashed
      BY <1>7, <1>8
<1>12. /\ collection' \in [Collections -> Standing \cup {Gone}]
       /\ collection'[command.target] # Gone
       /\ collection'[command.target].chunks = collection[command.target].chunks \union new
       /\ \A d \in Collections \ {command.target} : collection'[d] = collection[d]
       BY <1>1, <1>2, <1>4, <1>10, <1>9, Inserting
<1>13. /\ command' \in CommandStates /\ command'.at = place
       /\ command'.target = command.target /\ command'.model = command.model
       /\ command'.rows = command.rows /\ command'.before = command.before
       /\ command'.owed = command.owed
       BY <1>1, <1>9, Going DEF CommandPlaces
<1>14. CorpusTypeOK' BY <1>1, <1>2, <1>3, <1>12, <1>13 DEF CorpusTypeOK, CommandStates
<1>15. \A k \in collection'[command.target].chunks : k.model = recorded'[command.target]
  <2>1. \A k \in collection[command.target].chunks : k.model = recorded[command.target]
        BY <1>2, <1>4 DEF CorpusInv, VectorsOK
  <2>2. QED BY <1>3, <1>4, <1>10, <1>12, <2>1
<1>16. place = "verify" =>
          \A r \in command.rows : \E k \in collection'[command.target].chunks :
              k.doc = r.doc /\ k.section = r.section /\ ~k.hashed
       BY <1>11, <1>9, <1>12
<1>17. QED BY <1>1, <1>2, <1>3, <1>9, <1>12, <1>13, <1>14, <1>15, <1>16, TargetWritten

LEMMA CleanupKeeps ==
    ASSUME CorpusInv, Cleanup
    PROVE  CorpusInv'
<1>1. CorpusTypeOK /\ command.at = "cleanup" /\ ~CommandOver
      BY DEF CorpusInv, Cleanup, CommandIs, CommandOver
<1>2. command.target \in Collections /\ command.model \in Embeddings
      BY <1>1, RunningCommand
<1>3. UNCHANGED <<row, parentRows, recorded, server>> BY DEF Cleanup
<1>4. /\ command' \in CommandStates /\ command'.at = "refused"
      /\ command'.target = command.target /\ command'.model = command.model
      /\ command'.rows = command.rows /\ command'.created = command.created
      /\ command'.before = command.before /\ command'.owed = command.owed
      BY <1>1, Going DEF Cleanup, CommandPlaces
<1>5. command.target \in command.before => ~command.created /\ Exists(command.target)
      BY <1>1 DEF CorpusInv, BeforeOK
<1>6. \/ collection' = collection
      \/ command.created /\ collection' = [collection EXCEPT ![command.target] = Gone]
      BY DEF Cleanup
<1>7. /\ collection' \in [Collections -> Standing \cup {Gone}]
      /\ \A d \in Collections \ {command.target} : collection'[d] = collection[d]
      /\ collection'[command.target] \in {Gone, collection[command.target]}
      /\ ~command.created => collection' = collection
      BY <1>1, <1>2, <1>6, Dropping DEF CorpusTypeOK
<1>8. CorpusTypeOK' BY <1>1, <1>2, <1>3, <1>4, <1>7 DEF CorpusTypeOK, CommandStates
<1>9. collection'[command.target] # Gone =>
         \A k \in collection'[command.target].chunks : k.model = recorded'[command.target]
      BY <1>2, <1>3, <1>7 DEF CorpusInv, VectorsOK, Exists
<1>10. QED BY <1>1, <1>2, <1>3, <1>4, <1>5, <1>7, <1>8, <1>9, TargetWritten DEF Exists

-----------------------------------------------------------------------------
LEMMA CorpusBegins == CorpusInit => CorpusInv
<1> SUFFICES ASSUME CorpusInit PROVE CorpusInv OBVIOUS
<1>1. PICK c \in Collections :
         server = [task |-> "idle", doc |-> Gone, name |-> c, model |-> FirstModel]
      BY DEF CorpusInit
<1>2. server \in ServerStates /\ server.task = "idle"
      BY <1>1, MigrationAssumption DEF ServerStates, ServerTasks
<1>3. command \in CommandStates /\ command.at = "none" /\ command.owed = {}
      /\ command.before = {}
      BY DEF CorpusInit, NoCommand, CommandStates, CommandPlaces
<1>4. /\ parentRows = {} /\ \A d \in Collections : collection[d] = Gone
      /\ collection \in [Collections -> Standing \cup {Gone}]
      /\ recorded \in [Collections -> Embeddings \cup {Gone}]
      /\ row \in [Uploads -> RowStates]
      BY DEF CorpusInit, RowStates
<1>5. CorpusTypeOK BY <1>2, <1>3, <1>4 DEF CorpusTypeOK, ServerStates, CommandStates, RowStates
<1>6. VectorsOK /\ RegisterOK BY <1>2, <1>4 DEF VectorsOK, RegisterOK, Exists, ServerIs
<1>7. ApartOK /\ TargetOK /\ BeforeOK /\ OwedOK /\ WrittenOK
      BY <1>3 DEF ApartOK, TargetOK, BeforeOK, OwedOK, WrittenOK, CommandOver, CommandIs, Verified, Made
<1>8. QED BY <1>5, <1>6, <1>7 DEF CorpusInv

LEMMA CorpusSteps == CorpusInv /\ [CorpusNext]_corpusVars => CorpusInv'
<1> SUFFICES ASSUME CorpusInv, [CorpusNext]_corpusVars PROVE CorpusInv' OBVIOUS
<1>1. CASE ServerStep
      BY <1>1, UploadKeeps, DeleteKeeps, WriteParentsKeeps, EnsureKeeps, RegisterKeeps,
         AddDocumentsKeeps, ReconfigureKeeps DEF ServerStep
<1>2. CASE CommandStep
      BY <1>2, StartCommandKeeps, CheckSourcesKeeps, ResplitKeeps, ListTargetsKeeps, CreateKeeps,
         RecordKeeps, WriteTargetKeeps, VerifyTargetKeeps, CleanupKeeps, KillCommandKeeps
      DEF CommandStep
<1>3. CASE UNCHANGED corpusVars
      BY <1>3 DEF corpusVars, CorpusInv, CorpusTypeOK, VectorsOK, RegisterOK, ApartOK, TargetOK,
                  BeforeOK, OwedOK, WrittenOK, CommandOver, CommandIs, Verified, Exists, ServerIs
<1>4. QED BY <1>1, <1>2, <1>3 DEF CorpusNext

\* The conjuncts of CorpusInv hold for every set of collections, uploads,
\* models and failures of a server and a reindex command side by side.
THEOREM CorpusInvariant == CorpusSpec => []CorpusInv
BY CorpusBegins, CorpusSteps, PTL DEF CorpusSpec

\* Every collection holds vectors of one schema, that of the model recorded
\* for it, whoever wrote them.
THEOREM VectorsAlwaysMatch == CorpusSpec => []VectorsMatch
<1>1. CorpusInv => VectorsMatch
      BY DEF CorpusInv, VectorsOK, VectorsMatch, Fits
<1>2. QED BY <1>1, CorpusInvariant, PTL

\* A reindex that reports success left every section it owed in its target,
\* deletes by the server in the meantime notwithstanding.
THEOREM SuccessIsWhole == CorpusSpec => []VerifiedIsWhole
<1>1. CorpusInv => VerifiedIsWhole
  <2>1. ASSUME CorpusInv, Verified, NEW o \in command.owed
        PROVE  \E k \in collection[command.target].chunks : k.doc = o[1] /\ k.section = o[2]
    <3>1. PICK r \in command.rows : r.doc = o[1] /\ r.section = o[2]
          BY <2>1 DEF CorpusInv, OwedOK
    <3>2. QED BY <2>1, <3>1 DEF CorpusInv, WrittenOK, Verified
  <2>2. QED BY <2>1 DEF VerifiedIsWhole
<1>2. QED BY <1>1, CorpusInvariant, PTL

LEMMA CommandStepTypes ==
    ASSUME CorpusInv
    PROVE  command.before \subseteq Collections /\ collection \in [Collections -> Standing \cup {Gone}]
BY DEF CorpusInv, CorpusTypeOK

LEMMA CommandSparesOthers ==
    ASSUME CorpusInv, CommandStep, NEW c \in command.before
    PROVE  collection'[c] = collection[c]
<1>1. CASE UNCHANGED collection BY <1>1
<1>2. CASE Create \/ Record
  <2>1. ~CommandOver /\ command.at \in {"create", "record"}
        BY <1>2 DEF Create, Record, CommandIs, CommandOver
  <2>2. c # command.target BY <2>1, RunningCommand
  <2>3. QED BY <1>2, <2>2, CommandStepTypes DEF Create, Record, Created
<1>3. CASE WriteTarget
  <2>1. ~CommandOver /\ command.at = "write" BY <1>3 DEF WriteTarget, CommandIs, CommandOver
  <2>2. c # command.target BY <2>1, RunningCommand
  <2>3. QED BY <1>3, <2>2, CommandStepTypes DEF WriteTarget, Inserted
<1>4. CASE Cleanup
  <2>1. ~CommandOver BY <1>4 DEF Cleanup, CommandIs, CommandOver
  <2>2. c = command.target => ~command.created BY <2>1 DEF CorpusInv, BeforeOK
  <2>3. QED BY <1>4, <2>2, CommandStepTypes DEF Cleanup
<1>5. QED BY <1>1, <1>2, <1>3, <1>4
          DEF CommandStep, StartCommand, CheckSources, Resplit, ListTargets, VerifyTarget, KillCommand

\* No step of the command changes a collection that stood before it began,
\* its own cleanup after a failure included.
THEOREM OthersAreSpared == CorpusSpec => OthersUntouched
<1>1. CorpusInv /\ [CorpusNext]_corpusVars
         => [CommandStep => \A c \in command.before : collection'[c] = collection[c]]_corpusVars
      BY CommandSparesOthers
<1>2. QED BY <1>1, CorpusInvariant, PTL DEF CorpusSpec, OthersUntouched
=============================================================================
