---------------------------- MODULE QueryPipeline ----------------------------
(***************************************************************************)
(* One call of HybridRetriever.retrieve or aretrieve, as the retrieval     *)
(* workflow makes it: the filter is parsed, the result cache consulted,    *)
(* the query encoded once, the planned channels searched side by side,     *)
(* their hits fused, reranked by the shared cross-encoder, cut and         *)
(* selected, the result cached, and the optional RAPTOR channel added.     *)
(*                                                                         *)
(* The indexes do not change here (RetrievalPath is about their writers):  *)
(* Finds says what each channel has for each query.  What may change is    *)
(* which services answer, and whether the cross-encoder is loaded.  A      *)
(* ranked list is kept as the set of its members; a cut of a list to k is  *)
(* any k of them.                                                          *)
(***************************************************************************)
EXTENDS Naturals, FiniteSets

CONSTANTS
    Calls,        \* one call each
    Asks,         \* what may be asked: records [query, filter, type, action]
    Settings,     \* the deployments
    Outages,      \* the sets of services that may be down together
    Finds,        \* Finds[channel][query]: the passages an index holds for it
    ParentOf,     \* ParentOf[p]: the parent section of passage p
    SourceOf,     \* SourceOf[p]: the file it was read from
    Final,        \* final_k
    Reservoir,    \* rerank_k of the plans that rerank more than they return
    MaxRaises     \* bound on exceptions after fusion

\* A filter is what FilterScope.parse makes of an expression: its kind, the
\* passages Milvus admits for the expression, and the sources read out of it.
\* An ask names the kind of its query, "none" when the caller makes no plan,
\* and the corrective action when it is a retry.
Legs == {"dense", "sparse", "graph"}
Options == {"raptor", "visual"}
Passages == DOMAIN ParentOf
Channels == {"dense", "native", "bm25", "graph", "ppr", "raptor", "visual"}

Free == "free"

\* Nothing ties the parsed sources of a filter to what Milvus admits for its
\* expression: FilterScope.parse strips the values, which the expression does
\* not, and reads up to the last quote.
ASSUME PipelineAssumption ==
    /\ IsFiniteSet(Passages)
    /\ Final \in Nat \ {0} /\ Reservoir \in Nat \ {0}
    /\ MaxRaises \in Nat
    /\ Free \notin Calls
    /\ \A channel \in Channels, asked \in Asks :
          Finds[channel][asked.query] \subseteq Passages
    /\ \A asked \in Asks : asked.filter.kind = "none" => Passages \subseteq asked.filter.admits
    /\ \A asked \in Asks : asked.filter.kind = "source_set" => asked.filter.sources # {}

VARIABLES
    setting,      \* what is on of dense, sparse, graph, native, heads, reranker, reuse
                  \* and of the planner's flags comparison, ppr, raptor, visual
    results,        \* the cached keys and their passages
    reranker,     \* [attempted, loaded, lock]
    call,         \* call[c]: the progress of call c
    raises        \* exceptions so far

pipelineVars == <<setting, results, reranker, call, raises>>

Unstarted == [at |-> "unstarted", ask |-> <<>>, sync |-> FALSE, down |-> {},
              docs |-> {}, raised |-> FALSE, hit |-> FALSE]

PipelineInit ==
    /\ setting \in Settings
    /\ results = [k \in {} |-> {}]
    /\ reranker = [attempted |-> FALSE, loaded |-> FALSE, lock |-> Free]
    /\ call = [c \in Calls |-> Unstarted]
    /\ raises = 0

Goes(c, f) == call' = [call EXCEPT ![c] = f]
Waits(c, place) == Goes(c, [call[c] EXCEPT !.at = place])
Up(c, services) == services \cap call[c].down = {}

-----------------------------------------------------------------------------
(* The plan: the channels of positive weight, whether the graph is walked  *)
(* (use_ppr), and two budgets.                                             *)

Expanded == {"comparison", "multi_hop", "global_summary"}

\* RetrievalPlanner._build: the third channel each kind of query adds to
\* dense and sparse, if its flag is set.
Third(type) ==
    CASE type = "comparison" /\ "comparison" \in setting -> {"graph"}
      [] type = "multi_hop" /\ "ppr" \in setting -> {"graph"}
      [] type = "global_summary" /\ "raptor" \in setting -> {"raptor"}
      [] type = "visual" /\ "visual" \in setting -> {"visual"}
      [] OTHER -> {}

Built(type) ==
    [on |-> TRUE,
     weights |-> {"dense", "sparse"} \union Third(type),
     ppr |-> type = "multi_hop" /\ "ppr" \in setting,
     rerank |-> IF type \in Expanded THEN Reservoir ELSE Final]

\* Without a plan the configured weights and final_k count.
Compatible == [on |-> FALSE, weights |-> Legs, ppr |-> FALSE, rerank |-> Final]

\* for_retry: more candidates, and what the corrective action turns on.
Retried(plan, action) ==
    [plan EXCEPT !.rerank = Reservoir,
                 !.ppr = @ \/ action = "enable_graph_ppr",
                 !.weights = CASE action = "enable_graph_ppr" -> @ \union {"graph"}
                               [] action = "enable_raptor" -> @ \union {"raptor"}
                               [] OTHER -> @]

\* apply_channel_health with the health the workflow computes from the
\* deployment: a leg that is off loses its weight, and the graph its walk.
Healthy(plan) ==
    [plan EXCEPT !.weights = @ \ (Legs \ setting),
                 !.ppr = @ /\ "graph" \in setting]

Plan(ask) ==
    LET plan == Healthy(Built(ask.type))
    IN  IF ask.type = "none" THEN Compatible
        ELSE IF ask.action = "none" THEN plan ELSE Healthy(Retried(plan, ask.action))

\* active_policy(plan): a leg the deployment turned off stays off whatever
\* the plan says, but a plan may turn the graph on.
Active(leg, plan) ==
    leg \in setting \/ (leg = "graph" /\ plan.on /\ "graph" \in plan.weights)

\* The legs whose hits the fusion counts: active and of positive weight.
Weighted(plan) == {leg \in Legs : Active(leg, plan) /\ leg \in plan.weights}

-----------------------------------------------------------------------------
(* The filter, and the legs it lets run.                                   *)

\* FilterScope.supports: no filter is understood by everyone, an expression
\* by Milvus only, a set of sources by everyone.
Supports(filter, capability) ==
    \/ filter.kind \in {"none", "source_set"}
    \/ filter.kind = "milvus_expression" /\ capability = "milvus_expression"

SparseCapability == IF "native" \in setting THEN "milvus_expression" ELSE "source_set"

\* The legs a call starts.
Started(ask) ==
    {leg \in Legs :
        /\ Active(leg, ask.plan)
        /\ Supports(ask.filter,
                    CASE leg = "dense" -> "milvus_expression"
                      [] leg = "sparse" -> SparseCapability
                      [] leg = "graph" -> "source_set")}

\* The shared representation is prepared for a plan, or when query reuse is
\* configured, and only when some stage consumes it.
Represented(ask) ==
    /\ "reuse" \in setting \/ ask.plan.on
    /\ \/ Active("dense", ask.plan)
       \/ Active("sparse", ask.plan) /\ "native" \in setting
             /\ Supports(ask.filter, "milvus_expression")
       \/ Active("graph", ask.plan) /\ Supports(ask.filter, "source_set")

-----------------------------------------------------------------------------
(* The channels.                                                           *)

\* Milvus takes the expression itself.
FromMilvus(channel, ask) == Finds[channel][ask.query] \cap ask.filter.admits

\* The others look at the parsed sources, everywhere when there are none, and
\* first ask whether sources are all there is to the filter.
OfSources(channel, ask) ==
    {p \in Finds[channel][ask.query] :
        ask.filter.sources # {} => SourceOf[p] \in ask.filter.sources}

\* BM25 and the graph asked whatever the filter is: an expression has no
\* sources, so it would filter nothing.
FromSourcesUnchecked(channel, ask) == OfSources(channel, ask)

FromSources(channel, ask) ==
    IF Supports(ask.filter, "source_set") THEN OfSources(channel, ask) ELSE {}

Dense(c) ==
    IF Up(c, {"encoder", "milvus"}) THEN FromMilvus("dense", call[c].ask) ELSE {}

\* _sparse_retrieve on BM25, and _legacy_sparse_fallback.
Legacy(c) == IF Up(c, {"bm25"}) THEN FromSources("bm25", call[c].ask) ELSE {}

\* No fallback on BM25 for a failing native search.
NativeAlone(c, represented) ==
    IF Up(c, {"encoder", "milvus"}) THEN FromMilvus("native", call[c].ask) ELSE {}

\* A representation without a sparse head, or a search that raises, falls
\* back on BM25; without a representation a raise leaves the leg empty.
Native(c, represented) ==
    IF Up(c, {"encoder", "milvus"}) /\ (represented => "heads" \in setting)
    THEN FromMilvus("native", call[c].ask)
    ELSE IF represented THEN Legacy(c) ELSE {}

Sparse(c, represented) ==
    IF "native" \in setting THEN Native(c, represented) ELSE Legacy(c)

\* The plan reaches the graph leg through a ContextVar, which the threads of
\* the synchronous path do not inherit: those never walk the graph, and serve
\* only a deployment that has it on.
Graph(c) ==
    LET ask == call[c].ask
        plan == IF call[c].sync THEN [ask.plan EXCEPT !.on = FALSE] ELSE ask.plan
    IN  IF Active("graph", plan) /\ Up(c, {"encoder", "graph"})
        THEN FromSources(IF plan.on /\ plan.ppr THEN "ppr" ELSE "graph", ask)
        ELSE {}

Leg(leg, c, represented) ==
    CASE leg = "dense" -> Dense(c)
      [] leg = "sparse" -> Sparse(c, represented)
      [] leg = "graph" -> Graph(c)

\* _rrf_fusion: the union of the hits of the weighted legs.
Fused(c) ==
    LET ask == call[c].ask
    IN  UNION {Leg(leg, c, Represented(ask)) : leg \in Started(ask) \cap Weighted(ask.plan)}

-----------------------------------------------------------------------------
(* The stages after fusion.                                                *)

\* Any k of a ranked list.
Cut(docs, k) ==
    {kept \in SUBSET docs :
        Cardinality(kept) = IF Cardinality(docs) < k THEN Cardinality(docs) ELSE k}

Parents(docs) == {ParentOf[p] : p \in docs}

\* select_evidence: at most k passages, of different parents, backfilled from
\* the whole list.
Selected(docs, k) ==
    {kept \in SUBSET docs :
        /\ Cardinality(Parents(kept)) = Cardinality(kept)
        /\ Cardinality(kept) = IF Cardinality(Parents(docs)) < k
                               THEN Cardinality(Parents(docs)) ELSE k}

\* Time decay, ColBERT, authority and MMR only reorder the list; with a plan
\* the selector ends the pipeline, without one the first final_k stay.
Finished(docs, plan) ==
    IF plan.on THEN Selected(docs, Final) ELSE Cut(docs, Final)

\* The plan left out of the cache key.
KeyWithoutPlan(ask) == <<ask.query, ask.filter>>

Key(ask) == <<ask.query, ask.filter, ask.plan>>

\* The optional channels are searched with the filter's sources, for plans
\* that weigh them.
Optional(c) ==
    UNION {FromSources(channel, call[c].ask) :
              channel \in {option \in Options \cap call[c].ask.plan.weights : Up(c, {option})}}

-----------------------------------------------------------------------------
(* The call.                                                               *)

Request(asked) == [query |-> asked.query, filter |-> asked.filter, plan |-> Plan(asked)]

Ask(c) ==
    /\ call[c].at = "unstarted"
    /\ \E asked \in Asks, sync \in BOOLEAN, down \in Outages :
          LET ask == Request(asked)
              begun == [call[c] EXCEPT !.ask = ask, !.sync = sync, !.down = down]
          IN  \/ /\ ask.filter.kind = "invalid"
                 /\ Goes(c, [begun EXCEPT !.at = "over"])
              \/ /\ ask.filter.kind # "invalid" /\ Key(ask) \in DOMAIN results
                 /\ Goes(c, [begun EXCEPT !.at = "found", !.hit = TRUE,
                                          !.docs = results[Key(ask)]])
              \/ /\ ask.filter.kind # "invalid" /\ Key(ask) \notin DOMAIN results
                 /\ Goes(c, [begun EXCEPT !.at = "legs"])
    /\ UNCHANGED <<setting, results, reranker, raises>>

\* An empty list is never reranked.
Search(c) ==
    /\ call[c].at = "legs"
    /\ Goes(c, [call[c] EXCEPT !.docs = Fused(c),
                               !.at = IF "reranker" \in setting /\ Fused(c) # {}
                                      THEN "loading" ELSE "ranked"])
    /\ UNCHANGED <<setting, results, reranker, raises>>

\* Reranker.load, before the lock: loaded, or given up, or being loaded by
\* somebody else, which is taken for given up.
Peek(c) ==
    /\ call[c].at = "loading"
    /\ Waits(c, CASE reranker.loaded -> "scoring"
                  [] reranker.attempted /\ ~reranker.loaded -> "ranked"
                  [] OTHER -> "waiting")
    /\ UNCHANGED <<setting, results, reranker, raises>>

\* ... and once more under the lock.
Lock(c) ==
    /\ call[c].at = "waiting"
    /\ reranker.lock = Free
    /\ IF reranker.attempted
       THEN /\ Waits(c, IF reranker.loaded THEN "scoring" ELSE "ranked")
            /\ UNCHANGED reranker
       ELSE /\ Waits(c, "holding")
            /\ reranker' = [reranker EXCEPT !.attempted = TRUE, !.lock = c]
    /\ UNCHANGED <<setting, results, raises>>

\* The load ends, with the model or for the life of the process without.
LoadEnds(c) ==
    /\ call[c].at = "holding"
    /\ \E ready \in BOOLEAN :
          /\ reranker' = [reranker EXCEPT !.loaded = ready, !.lock = Free]
          /\ Waits(c, IF ready THEN "scoring" ELSE "ranked")
    /\ UNCHANGED <<setting, results, raises>>

\* The model orders the list; a prediction that raises leaves its order.
Score(c) ==
    /\ call[c].at = "scoring"
    /\ Waits(c, "ranked")
    /\ UNCHANGED <<setting, results, reranker, raises>>

\* The rerank budget cuts the list whether or not it was scored; the rest of
\* the pipeline runs and its result is cached, an empty one too.
Finish(c) ==
    /\ call[c].at = "ranked"
    /\ \E ranked \in Cut(call[c].docs, call[c].ask.plan.rerank) :
          \E docs \in Finished(ranked, call[c].ask.plan) :
             /\ Goes(c, [call[c] EXCEPT !.docs = docs, !.at = "found"])
             /\ LET key == Key(call[c].ask)
                IN  results' = [k \in DOMAIN results \union {key} |->
                                 IF k = key THEN docs ELSE results[k]]
    /\ UNCHANGED <<setting, reranker, raises>>

\* An exception after the legs: the synchronous path searches again, dense
\* and if that is empty sparse, without plan or fusion; the other gives up.
\* Neither result is cached.
Raise(c) ==
    /\ call[c].at = "ranked"
    /\ raises < MaxRaises
    /\ raises' = raises + 1
    /\ LET ask == call[c].ask
           dense == IF "dense" \in Started(ask) THEN Dense(c) ELSE {}
           sparse == IF "sparse" \in Started(ask) THEN Sparse(c, FALSE) ELSE {}
       IN  \E docs \in Cut(IF dense # {} THEN dense ELSE sparse, Final) :
              Goes(c, [call[c] EXCEPT !.docs = IF call[c].sync THEN docs ELSE {},
                                      !.raised = TRUE, !.at = "found"])
    /\ UNCHANGED <<setting, results, reranker>>

\* _augment_optional_channels: summaries and pages join the result, whose own
\* weight is that of its legs, and the whole is selected again.
Augment(c) ==
    /\ call[c].at = "found"
    /\ LET plan == call[c].ask.plan
           own == IF plan.weights \cap Legs # {} THEN call[c].docs ELSE {}
       IN  \E docs \in IF Optional(c) = {} THEN {call[c].docs}
                       ELSE Selected(own \union Optional(c), Final) :
              Goes(c, [call[c] EXCEPT !.docs = docs, !.at = "over"])
    /\ UNCHANGED <<setting, results, reranker, raises>>

PipelineNext ==
    \E c \in Calls :
        \/ Ask(c) \/ Search(c) \/ Peek(c) \/ Lock(c) \/ LoadEnds(c)
        \/ Score(c) \/ Finish(c) \/ Raise(c) \/ Augment(c)

-----------------------------------------------------------------------------
(* Properties.                                                             *)

CallPlaces == {"unstarted", "legs", "loading", "waiting", "holding", "scoring", "ranked",
               "found", "over"}
Requested == {Request(asked) : asked \in Asks}
CallStates == [at : CallPlaces, ask : Requested \union {<<>>}, sync : BOOLEAN,
               down : Outages \union {{}}, docs : SUBSET Passages, raised : BOOLEAN,
               hit : BOOLEAN]

\* The state is of the kind its declaration says; the lock of the cross-encoder
\* is held by the one call that is loading it, if any, which is the first to try.
PipelineTypeOK ==
    /\ call \in [Calls -> CallStates]
    /\ \A c \in Calls : call[c].at # "unstarted" => call[c].ask \in Requested
    /\ DOMAIN results \subseteq {Key(ask) : ask \in Requested}
    /\ \A k \in DOMAIN results : results[k] \subseteq Passages
    /\ reranker \in [attempted : BOOLEAN, loaded : BOOLEAN, lock : Calls \union {Free}]
    /\ \A c \in Calls : call[c].at = "holding" <=> reranker.lock = c
    /\ reranker.lock # Free => reranker.attempted
    /\ raises \in 0 .. MaxRaises

Over(c) == call[c].at = "over"

\* What a filter lets through: the passages Milvus admits for its expression
\* and, if it is a set of sources, those its parsed sources name.  The two are
\* the same unless the values are padded.
Allowed(filter) ==
    filter.admits \union
        {p \in Passages : filter.kind = "source_set" /\ SourceOf[p] \in filter.sources}

\* A filter holds whichever channel a passage came from, live, by a fallback
\* or from the cache: a channel that cannot apply the filter contributes
\* nothing (filter_scope.py, "fail-closed channel routing").  For an expression
\* that is what Milvus admits, also when BM25 stands in for Milvus.
FilterHolds ==
    \A c \in Calls : Over(c) =>
        call[c].docs \subseteq Allowed(call[c].ask.filter)

\* The channels that may speak for a plan.
Speaking(plan) ==
    (IF "dense" \in Weighted(plan) THEN {"dense"} ELSE {})
        \union (IF "sparse" \in Weighted(plan) THEN {"native", "bm25"} ELSE {})
        \union (IF "graph" \in Weighted(plan) THEN {"graph"} ELSE {})
        \union (IF plan.ppr THEN {"ppr"} ELSE {})
        \union (Options \cap plan.weights)

\* What a call returns was found for its own query, by a channel its own plan
\* counts: results are shared between calls through the cache only when
\* everything that decides them is the same.
EvidenceIsOwn ==
    \A c \in Calls : Over(c) /\ ~call[c].raised =>
        \A p \in call[c].docs :
            \E channel \in Speaking(call[c].ask.plan) :
                p \in Finds[channel][call[c].ask.query]

\* A leg whose services answer, or whose fallback does.
Answering(c, leg) ==
    CASE leg = "dense" -> Up(c, {"encoder", "milvus"})
      [] leg = "sparse" -> Up(c, IF "native" \in setting /\ ~Represented(call[c].ask)
                                 THEN {"encoder", "milvus"} ELSE {"bm25"})
      [] leg = "graph" -> Up(c, {"encoder", "graph"})
                             /\ (call[c].sync => "graph" \in setting)

Candidates(c, leg) ==
    CASE leg = "dense" -> FromMilvus("dense", call[c].ask)
      [] leg = "sparse" ->
            IF "native" \in setting /\ Up(c, {"encoder", "milvus"})
               /\ ("heads" \in setting \/ ~Represented(call[c].ask))
            THEN FromMilvus("native", call[c].ask)
            ELSE FromSources("bm25", call[c].ask)
      [] leg = "graph" ->
            FromSources(IF call[c].ask.plan.ppr /\ ~call[c].sync THEN "ppr" ELSE "graph",
                        call[c].ask)

\* Failures degrade, they do not empty an answer: as long as one leg of the
\* plan answers and has something that the filter admits, a call that ran
\* the pipeline to its end returns evidence, whatever else is down and
\* whether or not the cross-encoder could be loaded.
OneLegIsEnough ==
    \A c \in Calls :
        Over(c) /\ ~call[c].hit /\ ~call[c].raised /\ call[c].docs = {}
            => \A leg \in Weighted(call[c].ask.plan) \cap Started(call[c].ask) :
                  Answering(c, leg) => Candidates(c, leg) = {}

=============================================================================
