------------------------------ MODULE AgentLoop ------------------------------
(***************************************************************************)
(* rag/agent/harness/orchestrator.py and its five skills: the LangGraph    *)
(* loop agent -> retrieve -> grade -> (generate | rewrite -> agent), run   *)
(* by ainvoke / astream for the requests of one chat session.  The session *)
(* is the checkpointer's thread: a run starts from the last checkpoint any *)
(* run of the session wrote, works on channels of its own, and overwrites  *)
(* the checkpoint after every superstep.                                   *)
(*                                                                         *)
(* Of the channels, messages are left out: what the model answers, and so  *)
(* whether it calls the tool and how it grades, is free at every step.     *)
(* Long-term memories (relevant_memories) are left out too.                *)
(***************************************************************************)
EXTENDS RetrievalWorkflow

CONSTANTS
    Runs,           \* graph runs of the session that may overlap
    MaxRewrites,    \* HarnessConfig.max_rewrites
    MaxRequests,    \* bound on the requests of the session
    MaxCrashes      \* bound on process restarts

RunOutcomes ==
    {"unretrieved", "refused", "missing", "misrouted", "empty", "failed", "answer",
     "recalled"}

ASSUME LoopAssumption ==
    /\ None \notin RunOutcomes
    /\ MaxRewrites \in Nat \ {0}
    /\ MaxRequests \in Nat
    /\ MaxCrashes \in Nat

VARIABLES
    workflow,   \* RETRIEVAL_WORKFLOW_ENABLED of this process
    saved,      \* the channels in the session's last checkpoint
    run,        \* each run: its place, its channels, and its history
    requests,   \* requests so far
    crashes     \* restarts so far

vars == <<workflow, saved, run, requests, crashes>>

\* An attempt is one retrieval of one request; <<0, 0>> is none.
NoAttempt == <<0, 0>>

EmptyChannels ==
    [rewrites |-> 0,            \* rewrite_count
     covers |-> {},             \* retrieval_evidence, as the facets it covers
     evidenceOf |-> NoAttempt,  \* history: the attempt that wrote it
     prob |-> None,             \* max_rerank_prob
     verdict |-> None,          \* retrieval_diagnostics.state
     verdictOf |-> NoAttempt,   \* history: the attempt that wrote it
     sure |-> TRUE,             \* intent_confidence >= LOW_INTENT_THRESHOLD
     fallback |-> FALSE,        \* fallback_general_chat
     cited |-> {}]              \* generation_evidence

NoRun == [at |-> "idle", request |-> 0, attempts |-> 0, steps |-> 0,
          outcome |-> None, ch |-> EmptyChannels]

Init ==
    /\ workflow \in BOOLEAN
    /\ saved = EmptyChannels
    /\ run = [r \in Runs |-> NoRun]
    /\ requests = 0
    /\ crashes = 0

\* The counters of attempts and supersteps are history, cut off beyond what
\* the properties tell apart.
Saturate(n, bound) == IF n > bound THEN bound ELSE n
NextStep(r) == Saturate(run[r].steps + 1, 3 * MaxRewrites + 4)
NextAttempt(r) == Saturate(run[r].attempts + 1, MaxRewrites + 2)

Attempt(r) == <<run[r].request, run[r].attempts>>

-----------------------------------------------------------------------------
\* Mutation of RequestChannels: a request keeps what the last one cited.
RequestKeepsCited(sure) ==
    [EmptyChannels EXCEPT !.verdict = saved.verdict, !.verdictOf = saved.verdictOf,
                          !.sure = sure, !.cited = saved.cited]

\* _build_request_shared_state over the checkpoint: it names every key but
\* retrieval_diagnostics, and merge_shared_state keeps the unnamed.
RequestChannels(sure) ==
    [EmptyChannels EXCEPT !.verdict = saved.verdict, !.verdictOf = saved.verdictOf,
                          !.sure = sure]

\* The router starts a run for a question it classified with confidence, or
\* whose words look like the domain's although it is not sure of the intent.
Start(r) ==
    /\ run[r].at = "idle"
    /\ requests < MaxRequests
    /\ requests' = requests + 1
    /\ \E sure \in BOOLEAN :
         /\ run' = [run EXCEPT ![r] = [NoRun EXCEPT !.at = "agent",
                        !.request = requests + 1, !.ch = RequestChannels(sure)]]
         /\ saved' = RequestChannels(sure)
    /\ UNCHANGED <<workflow, crashes>>

\* The end of a superstep of run r with channels ch: they are checkpointed.
Superstep(r, next, ch) ==
    /\ run' = [run EXCEPT ![r].at = next, ![r].ch = ch, ![r].steps = NextStep(r)]
    /\ saved' = ch
    /\ UNCHANGED <<workflow, requests, crashes>>

\* AgentSkill calls the tool, or ends the run without retrieval: the model does
\* not call the tool even when nudged, answers nothing, or raises.
Agent(r) ==
    /\ run[r].at = "agent"
    /\ \/ Superstep(r, "retrieve", run[r].ch)
       \/ /\ run' = [run EXCEPT ![r].at = "done", ![r].steps = NextStep(r),
                                ![r].outcome = "unretrieved"]
          /\ saved' = run[r].ch
          /\ UNCHANGED <<workflow, requests, crashes>>

Outcomes == IF workflow THEN WorkflowOutcomes ELSE PlainOutcomes

\* The retrieval comes back; the grade edge belongs to the same superstep.
\* Without the workflow the verdict channel is not written.
RetrieveFinds(r) ==
    /\ run[r].at = "retrieve"
    /\ \E o \in Outcomes :
         LET attempt == <<run[r].request, NextAttempt(r)>>
             found == [run[r].ch EXCEPT !.covers = o.covers, !.evidenceOf = attempt,
                                        !.prob = o.prob]
         IN run' = [run EXCEPT ![r].at = "grade", ![r].attempts = NextAttempt(r),
                        ![r].ch = IF o.verdict = None THEN found
                                  ELSE [found EXCEPT !.verdict = o.verdict,
                                                     !.verdictOf = attempt]]
    /\ UNCHANGED <<workflow, saved, requests, crashes>>

\* Mutation of RetrieveFails: the error path returns the message only.
RetrieveFailsKeeping(r) ==
    /\ run[r].at = "retrieve"
    /\ run' = [run EXCEPT ![r].at = "grade", ![r].attempts = NextAttempt(r)]
    /\ UNCHANGED <<workflow, saved, requests, crashes>>

\* The tool was called with an empty query, or the retrieval raises: the
\* evidence is cleared, the diagnostics are not.
RetrieveFails(r) ==
    /\ run[r].at = "retrieve"
    /\ LET cleared == [run[r].ch EXCEPT !.covers = {}, !.prob = None,
                           !.evidenceOf = <<run[r].request, NextAttempt(r)>>]
       IN run' = [run EXCEPT ![r].at = "grade", ![r].attempts = NextAttempt(r),
                      ![r].ch = cleared]
    /\ UNCHANGED <<workflow, saved, requests, crashes>>

\* Where the grade sends the run: what the model says of the evidence is free,
\* but at the limit it is not asked, and whatever was found goes to generate.
GradeChoices(ch) ==
    {next \in {"generate", "rewrite"} : ch.rewrites >= MaxRewrites => next = "generate"}

\* The conditional edge after the grade.
Grade(r) ==
    /\ run[r].at = "grade"
    /\ \E next \in GradeChoices(run[r].ch) : Superstep(r, next, run[r].ch)

\* RewriteSkill counts failed rewrites too; at the limit it counts no more, but
\* the edge back to the agent is unconditional.
Rewrite(r) ==
    /\ run[r].at = "rewrite"
    /\ LET ch == run[r].ch IN
       Superstep(r, "agent", IF ch.rewrites >= MaxRewrites THEN ch
                             ELSE [ch EXCEPT !.rewrites = ch.rewrites + 1])

-----------------------------------------------------------------------------
\* GenerateSkill ends the run, in this order of precedence.
EndWith(r, outcome, cited) ==
    /\ run[r].at = "generate"
    /\ LET ch == [run[r].ch EXCEPT !.fallback = (outcome = "misrouted"), !.cited = cited]
       IN /\ run' = [run EXCEPT ![r].at = "done", ![r].steps = NextStep(r),
                                ![r].outcome = outcome, ![r].ch = ch]
          /\ saved' = ch
    /\ UNCHANGED <<workflow, requests, crashes>>

Terminal(ch) == ch.verdict # None /\ ch.verdict # "accept"

\* _workflow_terminal_result: the refusal words the verdict in the channels.
RefuseByVerdict(r) == Terminal(run[r].ch) /\ EndWith(r, "refused", {})

\* _should_fallback_or_refuse: the evidence is unusable.
Shunt(r) ==
    /\ ~Terminal(run[r].ch)
    /\ run[r].ch.prob = "low"
    /\ EndWith(r, IF run[r].ch.sure THEN "missing" ELSE "misrouted", {})

\* The context is blank: nothing was found, or nothing of it fits the budget
\* and the request came without a history.
GenerateEmpty(r) ==
    /\ ~Terminal(run[r].ch)
    /\ run[r].ch.prob # "low"
    /\ EndWith(r, "empty", {})

\* The model answers from what fits the budget, or fails on every attempt.
GenerateAnswer(r) ==
    /\ ~Terminal(run[r].ch)
    /\ run[r].ch.prob # "low"
    /\ run[r].ch.covers # {}
    /\ \/ \E kept \in (SUBSET run[r].ch.covers) \ {{}} : EndWith(r, "answer", kept)
       \/ EndWith(r, "failed", {})

\* Nothing of the evidence fits beside the history, which is then the whole
\* context: _should_refuse_prepared refuses unless the retrieved text carries
\* scores, and with them the model answers from the history alone, or fails.
Recall(r) ==
    /\ ~Terminal(run[r].ch)
    /\ run[r].ch.prob # "low"
    /\ run[r].ch.covers # {}
    /\ \E outcome \in {"refused", "recalled", "failed"} : EndWith(r, outcome, {})

Generate(r) ==
    RefuseByVerdict(r) \/ Shunt(r) \/ GenerateEmpty(r) \/ GenerateAnswer(r) \/ Recall(r)

\* The router has read the final state of its run.
Respond(r) ==
    /\ run[r].at = "done"
    /\ run' = [run EXCEPT ![r] = NoRun]
    /\ UNCHANGED <<workflow, saved, requests, crashes>>

\* The client closes its stream, and the run with it, at any await.
Disconnect(r) ==
    /\ run[r].at \notin {"idle", "done"}
    /\ run' = [run EXCEPT ![r] = NoRun]
    /\ UNCHANGED <<workflow, saved, requests, crashes>>

\* The checkpoints are in SQLite; the new process may run with the workflow
\* switched on or off.
Restart ==
    /\ crashes < MaxCrashes
    /\ crashes' = crashes + 1
    /\ workflow' \in BOOLEAN
    /\ run' = [r \in Runs |-> NoRun]
    /\ UNCHANGED <<saved, requests>>

Step(r) ==
    \/ Agent(r) \/ RetrieveFinds(r) \/ RetrieveFails(r)
    \/ Grade(r) \/ Rewrite(r) \/ Generate(r) \/ Respond(r)

Next ==
    \/ \E r \in Runs : Start(r) \/ Step(r) \/ Disconnect(r)
    \/ Restart

Spec == Init /\ [][Next]_vars

-----------------------------------------------------------------------------
Places == {"idle", "agent", "retrieve", "grade", "rewrite", "generate", "done"}
Channels == [rewrites : 0..MaxRewrites, covers : SUBSET Facets, evidenceOf : Nat \X Nat,
             prob : Scores \union {None}, verdict : Verdicts \union {None},
             verdictOf : Nat \X Nat, sure : BOOLEAN, fallback : BOOLEAN,
             cited : SUBSET Facets]

TypeOK ==
    /\ workflow \in BOOLEAN
    /\ saved \in Channels
    /\ run \in [Runs -> [at : Places, request : Nat, attempts : Nat, steps : Nat,
                         outcome : RunOutcomes \union {None}, ch : Channels]]
    /\ requests \in Nat
    /\ crashes \in Nat

\* The loop is cut off by its own budget and not by LangGraph's recursion limit
\* (25 supersteps, an error to the user): whatever the model decides, and
\* although a rewrite at the limit would go round again, a run takes at most
\* three supersteps per attempt, twelve with the default of three rewrites.
WithinRecursionLimit ==
    \A r \in Runs : run[r].steps <= 3 * (MaxRewrites + 1)

\* The model is asked for an answer only when the last retrieval of this very
\* request found something, and with the workflow on only after this retrieval
\* was accepted; and what the answer cites is part of what it found.  A later
\* failure, an earlier round, an earlier request of the session (or, with more
\* than one run slot, a concurrent one) never lend it evidence or verdict.  Only
\* an answer that cites nothing, because nothing found fits beside the history,
\* speaks from the earlier turns.
AnswerIsGrounded ==
    \A r \in Runs : run[r].outcome \in {"answer", "recalled"} =>
        LET ch == run[r].ch IN
        /\ ch.covers # {} /\ ch.evidenceOf = Attempt(r)
        /\ workflow => ch.verdict = "accept" /\ ch.verdictOf = Attempt(r)
        /\ ch.cited \subseteq ch.covers
        /\ ch.cited = {} <=> run[r].outcome = "recalled"

\* What the router reads off the final state is of this run: it takes over with
\* general chat only if this run was misrouted, and lists as sources only what
\* this run's answer was generated from, nothing of an earlier request whose
\* keys are still in the checkpoint.
ResponseIsOwn ==
    \A r \in Runs : run[r].at = "done" =>
        /\ run[r].ch.fallback <=> run[r].outcome = "misrouted"
        /\ run[r].ch.cited # {} =>
              /\ run[r].outcome = "answer"
              /\ run[r].ch.cited \subseteq run[r].ch.covers /\ run[r].ch.evidenceOf = Attempt(r)

-----------------------------------------------------------------------------
\* Supersteps of the attempts begun so far, and what is left of the budget.
StepsAt(place, done) ==
    CASE place = "agent" -> 3 * done
      [] place = "retrieve" -> 3 * done + 1
      [] place = "grade" -> 3 * done + 1
      [] place \in {"rewrite", "generate"} -> 3 * done + 2
      [] place \in {"idle", "done"} -> 3 * (done + 1)

\* The inductive invariant behind the three safety properties.
LoopInv ==
    /\ TypeOK
    /\ ResponseIsOwn
    /\ AnswerIsGrounded
    /\ \A r \in Runs :
         LET ch == run[r].ch IN
         /\ run[r].steps <= StepsAt(run[r].at, ch.rewrites)
         /\ run[r].at = "rewrite" => ch.rewrites < MaxRewrites
         /\ run[r].outcome # None => run[r].at = "done"
         /\ run[r].at # "done" => ~ch.fallback /\ ch.cited = {}
         /\ ch.covers # {} => ch.evidenceOf = Attempt(r)
         /\ ch.covers # {} /\ workflow => ch.verdict # None /\ ch.verdictOf = Attempt(r)
=============================================================================
