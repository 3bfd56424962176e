------------------------------ MODULE MCOffline ------------------------------
(***************************************************************************)
(* What is run from a shell, for TLC: BenchmarkCampaign, and after a       *)
(* campaign without events GoldenDataset or EvaluationGate.  The three     *)
(* work on different files and share no variable.                          *)
(***************************************************************************)
EXTENDS BenchmarkCampaign, GoldenDataset, EvaluationGate

\* With two variants "quick" and "balanced" run the same specifications.
TwoVariants == <<"a", "b">>

Usual == [quality |-> 1, p95 |-> 0]
Worse == [quality |-> 0, p95 |-> 0]
Slow == [quality |-> 1, p95 |-> 1]

\* All runs alike; one run of the variant "a" slower; the treatment "b", which
\* comes second and third, of less quality, or only in one of its runs.
Steady == <<Usual, Usual, Usual, Usual>>
Moving == <<Usual, Usual, Usual, Slow>>
Losing == <<Usual, Worse, Worse, Usual>>
Odd == <<Usual, Usual, Worse, Usual>>

BalancedAndPaired ==
    [kind : {"balanced"}, source : {"repo"}, results : {Steady, Moving}]
        \union [kind : {"paired"}, source : {"loose"}, results : {Steady, Losing, Odd}]

CampaignMoves ==
    /\ DatasetInit /\ GateInit
    /\ Next
    /\ UNCHANGED <<datasetVars, gateVars>>

Rests ==
    /\ setting = [kind |-> "balanced", source |-> "repo", results |-> Steady]
    /\ Over /\ driver.id = 1 /\ edits = 0
    /\ summary # None /\ summary.promotes

DatasetMoves == Rests /\ GateInit /\ DatasetNext /\ UNCHANGED <<vars, gateVars>>
GateMoves == Rests /\ DatasetInit /\ GateNext /\ UNCHANGED <<vars, datasetVars>>

OfflineInit == Init /\ DatasetInit /\ GateInit

OfflineSpec ==
    /\ OfflineInit
    /\ [][CampaignMoves \/ DatasetMoves \/ GateMoves]_<<vars, datasetVars, gateVars>>
    /\ WF_vars(DriverStep)
=============================================================================
