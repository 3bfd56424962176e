------------------------------- MODULE LLMJudge -------------------------------
(***************************************************************************)
(* The judge of rag/agent/eval/judge.py: one object per process with a     *)
(* verdict cache on disk and a count of the failures in a row, which turns *)
(* it off.  It is asked with a prompt and answers with a text or not at    *)
(* all.  Only operators: the modules that share a judge hold its state.    *)
(***************************************************************************)
EXTENDS Naturals, Sequences, FiniteSets

CONSTANTS
    Threshold,      \* failures in a row that turn the judge off
    Unjudged        \* Python's None

\* The prompts: is the claim supported by the contexts, which question does
\* the answer answer, does the context help with the query.
Entail(claim, contexts) == <<"entail", claim, contexts>>
ReverseQuestion(query) == <<"reverse", query>>
Relevant(query, context) == <<"relevant", query, context>>

\* What the model answers: a verdict or a text that is none, and to what is not
\* a claim some text.
Replies(p) == IF p[1] = "entail" THEN {"yes", "no", "garbled"} ELSE {"text"}

NewJudge == [cache |-> <<>>, failures |-> 0, tripped |-> FALSE]

\* A new process: the verdicts are on disk, the count is not.
Reopened(j) == [NewJudge EXCEPT !.cache = j.cache]

Available(j) == ~j.tripped

RecordSuccess(j) == [j EXCEPT !.failures = 0, !.tripped = FALSE]

RecordFailure(j) ==
    [j EXCEPT !.failures = @ + 1, !.tripped = @ \/ j.failures + 1 >= Threshold]

Cached(j, p) == p \in DOMAIN j.cache

\* INSERT OR REPLACE: of two answers to one prompt the later stays.
Heard(j, p, text) ==
    RecordSuccess([j EXCEPT !.cache = [x \in DOMAIN @ \union {p} |->
                                          IF x = p THEN text ELSE @[x]]])

\* The text a prompt has without a call: of the cache, or none at all.
NeedsCall(j, p) == Available(j) /\ ~Cached(j, p)
AtOnce(j, p) == IF Available(j) THEN j.cache[p] ELSE Unjudged

\* Mutation of Verdict: what could not be judged counts as unsupported.
VerdictOrNo(text) == IF text = "yes" THEN "yes" ELSE "no"

\* JSON or a plain yes or no; anything else is no verdict.
Verdict(text) == IF text \in {"yes", "no"} THEN text ELSE Unjudged

\* How many of the texts are a verdict, and how many of those support.
Judged(texts) == Cardinality({i \in DOMAIN texts : Verdict(texts[i]) # Unjudged})
Supported(texts) == Cardinality({i \in DOMAIN texts : Verdict(texts[i]) = "yes"})

\* The supported share of the judged claims: below one half, or nothing.
Below(texts) == Judged(texts) > 0 /\ 2 * Supported(texts) < Judged(texts)
Nothing(texts) == Judged(texts) > 0 /\ Supported(texts) = 0
=============================================================================
