----------------------------- MODULE MCAnswering -----------------------------
(***************************************************************************)
(* AgentLoop, the CircuitBreaker around model calls and AnswerGuard, which *)
(* judges what the loop drafted, for TLC.  The three share no variable, so *)
(* no order of their steps is of interest: each is explored from the       *)
(* initial states of the others.  Of the loop one run at a time: runs meet *)
(* only in the checkpoint, and one that is disconnected at any superstep   *)
(* leaves there whatever a run beside the next one could have left.        *)
(***************************************************************************)
EXTENDS AgentLoop, CircuitBreaker, AnswerGuard, TLC

CONSTANTS q1, q2, a, b, s, d1, d2
AllRivals == {d1, d2}

\* d2 fits no budget, and alone it leaves the history if there is one; a and b
\* are hard claims, s is not.
SomeEvidence == (q1 :> {<<d2>>, <<d2, d1>>}) @@ (q2 :> {<<>>, <<d1>>, <<d2>>})
Sizes == (d1 :> 1) @@ (d2 :> 9)
SomeClaims == {a, b, s, "caveat", "disclaimer", "hint"}
HardClaims == {a, b, "caveat"}
SomeDrafts ==
    (q1 :> {[claims |-> <<a, b>>, flags |-> {"noted", "cut"}],
            [claims |-> <<b>>, flags |-> {"pii"}]})
    @@ (q2 :> {[claims |-> <<s>>, flags |-> {"noted", "miscites"}]})
Texts == [caveat |-> <<"caveat">>, disclaimer |-> <<"disclaimer">>, hint |-> <<"hint">>]
JustB == <<b>>

AgentMoves == BreakerInit /\ GuardInit /\ Next /\ UNCHANGED <<breakerVars, guardVars>>
BreakerMoves == Init /\ GuardInit /\ BreakerNext /\ UNCHANGED <<vars, guardVars>>
GuardMoves == Init /\ BreakerInit /\ GuardNext /\ UNCHANGED <<vars, breakerVars>>

\* What CircuitBreaker assumes of its surroundings, once it moves.
BreakerRuns ==
    /\ \A c \in Callers : WF_breakerVars(Finish(c))
    /\ WF_breakerVars(Init /\ GuardInit /\ \E c \in Callers : Admit(c))
    /\ WF_breakerVars(Init /\ GuardInit /\ ReadState)
    /\ WF_breakerVars(Init /\ GuardInit /\ RecoveryTimeout)

\* Coroutines run, and every call of the judge ends, by its timeout if need be.
GuardRuns ==
    /\ WF_guardVars(Blocking)
    /\ \A q \in Requests : WF_guardVars(Answer(q) \/ Judge(q))

AnsweringInit == Init /\ BreakerInit /\ GuardInit

AnsweringSpec ==
    /\ AnsweringInit
    /\ [][AgentMoves \/ BreakerMoves \/ GuardMoves]_<<vars, breakerVars, guardVars>>
    /\ BreakerRuns
    /\ GuardRuns
=============================================================================
