----------------------------- MODULE AnswerGuard -----------------------------
(***************************************************************************)
(* From the evidence of a request to the answer that is served, and from a *)
(* rating of that answer back to the judge: the generate skill             *)
(* (rag/agent/skills/generate/skill.py), the grounding guardrail, the      *)
(* output guardrail that runs as a hook after it, and the feedback         *)
(* flywheel (rag/agent/eval/flywheel.py).  All of them share one judge.    *)
(*                                                                         *)
(* Requests are coroutines of one event loop.  The claims of an answer are *)
(* judged concurrently there; the guardrail's second try and the flywheel  *)
(* call the judge synchronously and keep the loop until they are done.     *)
(*                                                                         *)
(* A draft is a sequence of claims and flags: it holds personal data, says *)
(* itself that it is no advice, is cut off, or cites a source nobody gave  *)
(* it.  What decides whether a request gets as far as a draft is           *)
(* AgentLoop's; confidence, reasoning and the wording are left out.        *)
(***************************************************************************)
EXTENDS LLMJudge

CONSTANTS
    Requests,       \* questions, each asked once
    Claims,         \* what a text may claim
    EvidencesFor,   \* what retrieval may hand over for each: sequences of documents
    SizeOf,         \* tokens of each document there is
    Budget,         \* tokens for the documents, the history taken off
    DraftsFor,      \* what the model may write for each
    Hard,           \* the claims that state a value, a step or a conclusion
    Boilerplate,    \* the claims of each text the guardrail appends
    CorrectionClaims, \* the claims of a corrected answer
    MaxAttempts,    \* max_retries + 1
    MaxRatings,     \* bound on ratings
    MaxRestarts     \* bound on process restarts

Drafts == [claims : Seq(Claims), flags : SUBSET {"pii", "noted", "cut", "miscites"}]

ASSUME GuardAssumption ==
    /\ Threshold \in Nat \ {0} /\ MaxAttempts \in Nat \ {0}
    /\ Budget \in Nat /\ MaxRatings \in Nat /\ MaxRestarts \in Nat
    /\ Unjudged \notin Requests
    /\ Unjudged \notin {"yes", "no", "guard", "rate", "allow", "sanitize", "escalate"}
    /\ \A q \in Requests : EvidencesFor[q] \subseteq Seq(DOMAIN SizeOf)
    /\ \A q \in Requests : DraftsFor[q] \subseteq Drafts
    /\ \A mark \in {"caveat", "disclaimer", "hint"} : Boilerplate[mark] \in Seq(Claims)
    /\ CorrectionClaims \in Seq(Claims)

VARIABLES
    judge,      \* the process's judge
    request,    \* request[q]: the coroutine and what it has
    loop,       \* what keeps the event loop while it asks the judge
    rated,      \* the requests whose answer was rated
    misses,     \* retrieval_misses: the requests a miss was recorded for
    said,       \* every verdict the model ever gave, with its prompt (history)
    restarts

guardVars == <<judge, request, loop, rated, misses, said, restarts>>

\* Answers without claims: no evidence, a refusal, or every attempt failed.
Fixed == [claims |-> <<>>, flags |-> {}]

NewRequest ==
    [at |-> "new", contexts |-> <<>>, attempt |-> 1, draft |-> Fixed,
     texts |-> <<>>, pending |-> {}, marks |-> {}, action |-> Unjudged]

Free == [for |-> Unjudged, use |-> Unjudged, todo |-> <<>>, texts |-> <<>>]

GuardInit ==
    /\ judge = NewJudge
    /\ request = [q \in Requests |-> NewRequest]
    /\ loop = Free
    /\ rated = {} /\ misses = {} /\ said = {}
    /\ restarts = 0

LoopIsFree == loop = Free
At(q, places) == request[q].at \in places

\* The members of s that may follow what was kept of those before them.
Sift(s, MayFollow(_, _)) ==
    LET kept[n \in 0 .. Len(s)] ==
            IF n = 0 THEN <<>>
            ELSE IF MayFollow(kept[n - 1], s[n]) THEN Append(kept[n - 1], s[n])
                 ELSE kept[n - 1]
    IN  kept[Len(s)]

HardOf(claims) == Sift(claims, LAMBDA kept, c : c \in Hard)

\* One prompt for each of the claims.
Prompts(claims, contexts) == [i \in DOMAIN claims |-> Entail(claims[i], contexts)]

-----------------------------------------------------------------------------
\* prepare_evidence: a document that does not fit is passed over.
Tokens(docs) ==
    LET sum[n \in 0 .. Len(docs)] == IF n = 0 THEN 0 ELSE sum[n - 1] + SizeOf[docs[n]]
    IN  sum[Len(docs)]

PrepareEvidence(evidence, budget) ==
    Sift(evidence, LAMBDA kept, d : Tokens(Append(kept, d)) <= budget)

\* Without a document that fits nothing is generated, unless something was found
\* and the request has a history, which is then the whole context.
Begin(q) ==
    /\ LoopIsFree /\ At(q, {"new"})
    /\ \E e \in EvidencesFor[q] :
          LET kept == PrepareEvidence(e, Budget) IN
          \E place \in {"draft", "guard"} :
             /\ place = "draft" => e # <<>>
             /\ place = "guard" => kept = <<>>
             /\ request' = [request EXCEPT ![q].contexts = kept, ![q].at = place]
    /\ UNCHANGED <<judge, loop, rated, misses, said, restarts>>

\* An answer without hard claims is as good as supported, if the judge is there.
NothingToVerify == IF Available(judge) THEN <<"yes">> ELSE <<>>

\* The tasks of gather start in order before the first of them is answered.
Gathered(r, prompts) ==
    [r EXCEPT !.texts = IF prompts = <<>> THEN NothingToVerify
                        ELSE [i \in DOMAIN prompts |->
                                IF NeedsCall(judge, prompts[i]) THEN Unjudged
                                ELSE AtOnce(judge, prompts[i])],
              !.pending = {i \in DOMAIN prompts : NeedsCall(judge, prompts[i])}]

\* The model streams an answer to its end, and it is judged if there are contexts
\* to judge it by.  The attempts are of no use any more and forgotten, here and
\* below.
Draft(q) ==
    /\ LoopIsFree /\ At(q, {"draft"})
    /\ \E d \in DraftsFor[q] :
          \/ /\ request[q].contexts # <<>>
             /\ request' = [request EXCEPT ![q] =
                    [Gathered(@, Prompts(HardOf(d.claims), @.contexts)) EXCEPT
                        !.at = "ground", !.draft = d, !.attempt = 1]]
          \/ /\ request[q].contexts = <<>>
             /\ request' = [request EXCEPT
                    ![q].at = "guard", ![q].draft = d, ![q].attempt = 1]
    /\ UNCHANGED <<judge, loop, rated, misses, said, restarts>>

\* Mutation of AttemptFails: it is not counted.
AttemptFailsUncounted(q) ==
    /\ LoopIsFree /\ At(q, {"draft"})
    /\ request' = [request EXCEPT ![q].attempt = IF @ = 1 THEN 2 ELSE 1]
    /\ UNCHANGED <<judge, loop, rated, misses, said, restarts>>

\* The stream breaks off: another attempt, or the apology and no evidence.
AttemptFails(q) ==
    /\ LoopIsFree /\ At(q, {"draft"})
    /\ request' = [request EXCEPT
          ![q] = IF @.attempt < MaxAttempts THEN [@ EXCEPT !.attempt = request[q].attempt + 1]
                 ELSE [@ EXCEPT !.at = "guard", !.contexts = <<>>, !.attempt = 1]]
    /\ UNCHANGED <<judge, loop, rated, misses, said, restarts>>

PromptOf(q, i) == Entail(HardOf(request[q].draft.claims)[i], request[q].contexts)

Replied(q, i) ==
    /\ LoopIsFree /\ At(q, {"ground"}) /\ i \in request[q].pending
    /\ \E text \in Replies(PromptOf(q, i)) :
          /\ judge' = Heard(judge, PromptOf(q, i), text)
          /\ request' = [request EXCEPT ![q].pending = @ \ {i}, ![q].texts[i] = text]
          /\ said' = said \union {<<PromptOf(q, i), text>>}
    /\ UNCHANGED <<loop, rated, misses, restarts>>

CallFails(q, i) ==
    /\ LoopIsFree /\ At(q, {"ground"}) /\ i \in request[q].pending
    /\ judge' = RecordFailure(judge)
    /\ request' = [request EXCEPT ![q].pending = @ \ {i}]
    /\ UNCHANGED <<loop, rated, misses, said, restarts>>

-----------------------------------------------------------------------------
(***************************************************************************)
(* OutputGuardrail.validate.  texts are what the judge said of the hard    *)
(* claims; when that is nothing the sources the draft cites are compared   *)
(* with those it was given.                                                *)
(***************************************************************************)
Miscites(r) == "miscites" \in r.draft.flags /\ r.contexts # <<>>

Hallucination(r, texts) ==
    CASE Nothing(texts) -> "escalate"
      [] Below(texts) /\ ~Nothing(texts) -> "sanitize"
      [] Judged(texts) = 0 /\ Miscites(r) -> "escalate"
      [] OTHER -> "allow"

\* Mutation of Validated: personal data is handled first.
ValidatedPiiFirst(r, texts) ==
    LET found == IF "pii" \in r.draft.flags THEN "sanitize" ELSE Hallucination(r, texts)
    IN  [action |-> found, marks |-> {}]

\* The disclaimer, else the structure hint, if nothing was found before; then
\* redaction, which keeps an escalation and replaces every other finding.
\* Only the disclaimer is part of what is redacted.
Validated(r, texts) ==
    LET found == Hallucination(r, texts)
        extra == CASE found # "allow" -> IF found = "sanitize" THEN {"caveat"} ELSE {}
                   [] found = "allow" /\ "noted" \notin r.draft.flags -> {"disclaimer"}
                   [] found = "allow" /\ {"noted", "cut"} \subseteq r.draft.flags -> {"hint"}
                   [] OTHER -> {}
    IN  IF "pii" \notin r.draft.flags
        THEN [action |-> IF found = "allow" /\ extra # {} THEN "sanitize" ELSE found,
              marks |-> extra]
        ELSE [action |-> IF found = "escalate" THEN found ELSE "sanitize",
              marks |-> {"redacted"} \union (extra \ {"caveat", "hint"})]

Served(r, texts) ==
    LET v == Validated(r, texts) IN
    [r EXCEPT !.at = "served", !.texts = texts, !.action = v.action, !.marks = v.marks]

\* The hook has the verdict of the skill, or nobody to get one from.
Guard(q) ==
    /\ LoopIsFree
    /\ \/ At(q, {"guard"})
       \/ /\ At(q, {"ground"}) /\ request[q].pending = {}
          /\ Judged(request[q].texts) > 0 \/ ~Available(judge)
    /\ request' = [request EXCEPT ![q] = Served(@, @.texts)]
    /\ UNCHANGED <<judge, loop, rated, misses, said, restarts>>

\* The skill could not get a verdict: the hook asks again, claim by claim.
GuardAgain(q) ==
    /\ LoopIsFree /\ At(q, {"ground"}) /\ request[q].pending = {}
    /\ Judged(request[q].texts) = 0 /\ Available(judge)
    /\ loop' = [Free EXCEPT !.for = q, !.use = "guard",
           !.texts = IF HardOf(request[q].draft.claims) = <<>> THEN NothingToVerify ELSE @,
           !.todo = Prompts(HardOf(request[q].draft.claims), request[q].contexts)]
    /\ UNCHANGED <<judge, request, rated, misses, said, restarts>>

GuardEnds ==
    /\ loop.use = "guard" /\ loop.todo = <<>>
    /\ request' = [request EXCEPT ![loop.for] = Served(@, loop.texts)]
    /\ loop' = Free
    /\ UNCHANGED <<judge, rated, misses, said, restarts>>

-----------------------------------------------------------------------------
\* A synchronous call of the judge, and what it answers.
Ask ==
    /\ loop.todo # <<>>
    /\ LET p == Head(loop.todo)
           Next1(text) == [loop EXCEPT !.todo = Tail(@), !.texts = Append(@, text)]
       IN  \/ /\ ~NeedsCall(judge, p)
              /\ loop' = Next1(AtOnce(judge, p))
              /\ UNCHANGED <<judge, said>>
           \/ /\ NeedsCall(judge, p)
              /\ \E text \in Replies(p) :
                    /\ judge' = Heard(judge, p, text)
                    /\ said' = said \union {<<p, text>>}
                    /\ loop' = Next1(text)
           \/ /\ NeedsCall(judge, p)
              /\ judge' = RecordFailure(judge)
              /\ loop' = Next1(Unjudged)
              /\ UNCHANGED said
    /\ UNCHANGED <<request, rated, misses, restarts>>

-----------------------------------------------------------------------------
(***************************************************************************)
(* A negative rating.  The inference that was captured holds the answer as *)
(* it was served: its claims are the draft's and those of the texts the    *)
(* guardrail appended.                                                     *)
(***************************************************************************)
Appended(r, mark) == IF mark \in r.marks THEN Boilerplate[mark] ELSE <<>>

ServedClaims(r) ==
    r.draft.claims \o Appended(r, "caveat") \o Appended(r, "disclaimer") \o Appended(r, "hint")

\* LLMJudge.evaluate: faithfulness, hallucination, relevancy, context
\* precision and, for a correction, context recall.
EvaluationOf(q, correction) ==
    LET r == request[q] IN
    (IF r.contexts = <<>> THEN <<>>
     ELSE Prompts(ServedClaims(r) \o HardOf(ServedClaims(r)), r.contexts))
    \o <<ReverseQuestion(q)>>
    \o [i \in DOMAIN r.contexts |-> Relevant(q, r.contexts[i])]
    \o (IF correction /\ r.contexts # <<>>
        THEN Prompts(CorrectionClaims, r.contexts) ELSE <<>>)

\* submit_feedback calls on_negative_feedback, which evaluates on the loop.
Rate(q) ==
    /\ LoopIsFree /\ At(q, {"served"}) /\ q \notin rated /\ Cardinality(rated) < MaxRatings
    /\ rated' = rated \union {q}
    /\ \/ /\ Available(judge)
          /\ \E correction \in BOOLEAN :
                loop' = [Free EXCEPT !.for = q, !.use = "rate",
                                     !.todo = EvaluationOf(q, correction)]
       \/ ~Available(judge) /\ UNCHANGED loop
    /\ UNCHANGED <<judge, request, misses, said, restarts>>

FaithTexts == SubSeq(loop.texts, 1, Len(ServedClaims(request[loop.for])))

RateEnds ==
    /\ loop.use = "rate" /\ loop.todo = <<>>
    /\ misses' = IF request[loop.for].contexts # <<>> /\ Below(FaithTexts)
                 THEN misses \union {loop.for} ELSE misses
    /\ loop' = Free
    /\ UNCHANGED <<judge, request, rated, said, restarts>>

-----------------------------------------------------------------------------
\* Requests that were not served are gone; the captured ones are on disk.
GuardRestart ==
    /\ restarts < MaxRestarts
    /\ restarts' = restarts + 1
    /\ judge' = Reopened(judge)
    /\ loop' = Free
    /\ request' = [q \in Requests |->
          IF At(q, {"new", "served"}) THEN request[q] ELSE [NewRequest EXCEPT !.at = "lost"]]
    /\ UNCHANGED <<rated, misses, said>>

Answer(q) == Draft(q) \/ AttemptFails(q) \/ Guard(q) \/ GuardAgain(q)
Judge(q) == \E i \in request[q].pending : Replied(q, i) \/ CallFails(q, i)
Blocking == Ask \/ GuardEnds \/ RateEnds

GuardNext ==
    \/ \E q \in Requests : Begin(q) \/ Answer(q) \/ Judge(q) \/ Rate(q)
    \/ Blocking
    \/ GuardRestart

\* Coroutines run, and every call of the model ends, by its timeout if need be.
GuardSpec == GuardInit /\ [][GuardNext]_guardVars
-----------------------------------------------------------------------------
Evidences == Seq(DOMAIN SizeOf)
AnyText == {"yes", "no", "garbled", "text", Unjudged}
AnyPrompt ==
    {Entail(c, e) : c \in Claims, e \in Evidences}
    \union {ReverseQuestion(q) : q \in Requests}
    \union {Relevant(q, d) : q \in Requests, d \in DOMAIN SizeOf}

RequestStates ==
    [at : {"new", "draft", "ground", "guard", "served", "lost"},
     contexts : Evidences, attempt : Nat, draft : Drafts, texts : Seq(AnyText),
     pending : SUBSET Nat, action : {Unjudged, "allow", "sanitize", "escalate"},
     marks : SUBSET {"caveat", "disclaimer", "hint", "redacted"}]

GuardTypeOK ==
    /\ judge \in [cache : {judge.cache}, failures : Nat, tripped : BOOLEAN]
    /\ \A p \in DOMAIN judge.cache : judge.cache[p] \in AnyText
    /\ request \in [Requests -> RequestStates]
    /\ loop \in [for : Requests \union {Unjudged}, use : {Unjudged, "guard", "rate"},
                 todo : Seq(AnyPrompt), texts : Seq(AnyText)]
    /\ rated \subseteq Requests /\ misses \subseteq Requests
    /\ restarts \in Nat

SaidNo(claims, contexts) ==
    \E i \in DOMAIN claims : <<Entail(claims[i], contexts), "no">> \in said

\* "Unavailable is not unsupported": a caveat, an escalation or a recorded miss
\* goes back to a claim of that very answer of which the model said, on the
\* contexts of that request, that they do not support it, or to a source the
\* answer cites and was not given (grounding_guardrail.py:130, judge.py:430).
NoFalseAlarm ==
    \A q \in Requests :
        LET r == request[q] IN
        /\ r.action = "escalate" \/ "caveat" \in r.marks =>
              \/ SaidNo(HardOf(r.draft.claims), r.contexts)
              \/ Judged(r.texts) = 0 /\ Miscites(r)
        /\ q \in misses => SaidNo(ServedClaims(r), r.contexts)

\* An answer of which at least one hard claim was judged and none supported is
\* served as an escalation whatever else is found in it; one with less than half
\* of them supported at least carries the caveat, unless personal data was
\* redacted from it (output_guardrails.py:242).
EscalationSurvives ==
    \A q \in Requests :
        LET r == request[q] IN
        At(q, {"served"}) =>
            /\ Nothing(r.texts) => r.action = "escalate"
            /\ Below(r.texts) => r.action = "escalate" \/ r.marks \cap {"caveat", "redacted"} # {}

\* Every request that was begun is answered, however its attempts and the calls
\* of the judge end, unless the process goes away.
AnswersComeBack ==
    \A q \in Requests :
        At(q, {"draft", "ground", "guard"}) ~> At(q, {"served", "lost"})
=============================================================================
