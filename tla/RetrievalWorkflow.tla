-------------------------- MODULE RetrievalWorkflow --------------------------
(***************************************************************************)
(* rag/core/retrieval/workflow.py and corrective.py: one call of aretrieve *)
(* with the evidence filter that RetrieveSkill applies to its documents.   *)
(* The call keeps no state, so it is the set of its results, over          *)
(* everything the hybrid retriever may answer.                             *)
(*                                                                         *)
(* A question has facets 1..FacetCount, each asked of the retriever; a     *)
(* plain question has one facet, the whole of it.  A document found for a  *)
(* facet is a copy [doc, facet, score].  The score stands for the          *)
(* reranker's probability against the thresholds 0.30 (min_relevance_      *)
(* threshold) and 0.35 (relevance_threshold, min_rerank_prob).  The        *)
(* retriever's ranking is left open.  final_k is larger than the number of *)
(* facets (at most four), and its cut is left out.                         *)
(***************************************************************************)
EXTENDS Integers, FiniteSets

CONSTANTS
    Docs,           \* evidence keys: parents, or chunks without one
    FacetCount,     \* facets of the question
    Rivals,         \* active documents of one family and authority that differ in revision
    None

ASSUME WorkflowAssumption ==
    /\ FacetCount \in Nat \ {0}
    /\ Rivals \subseteq Docs
    /\ None \notin Docs
    /\ None \notin {"unscored", "low", "fair", "high"}
    /\ None \notin {"accept", "weak", "conflict", "empty"}

Facets == 1..FacetCount
Scores == {"low", "fair", "high"}
Verdicts == {"accept", "weak", "conflict", "empty"}

\* What the retriever may answer to one facet: documents with their scores.
\* A query that raises is gathered as an exception and adds nothing: {}.
Answers == UNION {[found -> Scores \union {"unscored"}] : found \in SUBSET Docs}

-----------------------------------------------------------------------------
(***************************************************************************)
(* select_evidence: every facet in turn takes its best document whose key  *)
(* is still free, then the remaining documents follow in ranking order,    *)
(* each key once.                                                          *)
(***************************************************************************)
SlotsOf(answer) ==
    {slot \in [Facets -> Docs \union {None}] :
        \A f \in Facets :
            LET free == DOMAIN answer[f] \ {slot[g] : g \in 1..(f - 1)} IN
            IF free = {} THEN slot[f] = None ELSE slot[f] \in free}

KeptFor(answer, slot, d) ==
    LET facets == IF \E f \in Facets : slot[f] = d
                  THEN {f \in Facets : slot[f] = d}
                  ELSE {f \in Facets : d \in DOMAIN answer[f]}
    IN CHOOSE f \in facets : \A g \in facets : f <= g

SelectEvidence(answer) ==
    LET found == UNION {DOMAIN answer[f] : f \in Facets}
        Copy(slot, d) == [doc |-> d, facet |-> KeptFor(answer, slot, d),
                          score |-> answer[KeptFor(answer, slot, d)][d]]
    IN {{Copy(slot, d) : d \in found} : slot \in SlotsOf(answer)}

RetrieveOnce == UNION {SelectEvidence(answer) : answer \in [Facets -> Answers]}

-----------------------------------------------------------------------------
Covered(docs) == {c.facet : c \in docs}
Scored(docs, level) == \E c \in docs : c.score = level

StructuredVersionConflict(docs) ==
    \E c, d \in docs : c.doc # d.doc /\ {c.doc, d.doc} \subseteq Rivals

\* evaluate_evidence: no score at all (reranker degraded) is weak, too.
EvaluateEvidence(docs) ==
    CASE docs = {} -> "empty"
      [] docs # {} /\ StructuredVersionConflict(docs) -> "conflict"
      [] docs # {} /\ ~StructuredVersionConflict(docs) ->
           IF Scored(docs, "high") /\ Covered(docs) = Facets THEN "accept" ELSE "weak"

\* One corrective retry of what is not accepted.  It asks every facet again,
\* and its documents replace the first ones unless there are none.
Corrected(first, second) ==
    IF EvaluateEvidence(first) # "accept" /\ second # {} THEN second ELSE first

\* The state in which aretrieve ends; without an active channel the verdict
\* is empty whatever the retriever returns.
WorkflowResults ==
    {[docs |-> Corrected(first, second),
      verdict |-> EvaluateEvidence(Corrected(first, second))] :
        first \in RetrieveOnce, second \in RetrieveOnce}
    \union {[docs |-> docs, verdict |-> "empty"] : docs \in RetrieveOnce}

-----------------------------------------------------------------------------
\* _filter_by_rerank_score: scored documents below the floor go, and of those
\* above it the ones that are low in the batch; the best stays.  When none is
\* above the floor, one is kept only beside documents without a score.
FilterByRerankScore(docs) ==
    LET others == {c \in docs : c.score = "unscored"}
        Of(level) == {c \in docs : c.score = level}
        best == IF Of("fair") # {} THEN Of("fair") ELSE Of("low")
    IN IF Of("high") # {}
       THEN {kept \union others : kept \in (SUBSET Of("high")) \ {{}}}
       ELSE IF others = {} THEN {{}}
       ELSE IF best = {} THEN {others}
       ELSE {{c} \union others : c \in best}

\* _compute_max_rerank_prob: None when nothing was reranked.
MaxRerankProb(docs) ==
    CASE Scored(docs, "high") -> "high"
      [] ~Scored(docs, "high") /\ Scored(docs, "fair") -> "fair"
      [] ~Scored(docs, "high") /\ ~Scored(docs, "fair") ->
           IF Scored(docs, "low") THEN "low" ELSE None

\* What retrieval leaves in the shared state: the facets its evidence covers
\* (none when there is no evidence), its best score, and the verdict, which
\* the path without the workflow does not produce.
Published(docs, verdict) ==
    {[covers |-> Covered(kept), prob |-> MaxRerankProb(kept), verdict |-> verdict] :
        kept \in FilterByRerankScore(docs)}

WorkflowOutcomes == UNION {Published(r.docs, r.verdict) : r \in WorkflowResults}
PlainOutcomes == UNION {Published(docs, None) : docs \in RetrieveOnce}
=============================================================================
