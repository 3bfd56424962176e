--------------------------- MODULE EvaluationGate ---------------------------
(***************************************************************************)
(* The evaluations of the answers offline: scripts/run_eval.py over the    *)
(* golden dataset and scripts/replay_eval.py over recorded questions run   *)
(* their cases (eval/runner.py), average the scores (eval/scorer.py), save *)
(* the run (eval/history.py) and may be gated on an earlier run.           *)
(*                                                                         *)
(* Every evaluation is a process of its own that may be killed between any *)
(* two steps; they share the run history without a lock.  Of a case's      *)
(* metrics one of the judge's is kept, None when the judge is off or       *)
(* unavailable.                                                            *)
(***************************************************************************)
EXTENDS Naturals, FiniteSets, SequencesExt

CONSTANTS
    Evaluations,    \* runs of the two scripts
    Datasets,       \* the datasets they are run on
    Recorded,       \* those of replay_eval
    Cases,          \* the cases the datasets ever have
    Levels,         \* what the metric of a case may be
    Threshold,      \* a drop by so much is a regression
    MaxKills,       \* bound on killed evaluations
    Absent,         \* Python's None
    Failed          \* the result of a case that failed

ASSUME GateAssumption ==
    /\ IsFiniteSet(Cases)
    /\ Recorded \subseteq Datasets
    /\ Levels \subseteq Nat /\ Absent \notin Levels
    /\ Absent \notin [n : Nat, sum : Nat]
    /\ Threshold \in Nat \ {0}
    /\ MaxKills \in Nat

VARIABLES
    evaluation,     \* evaluation[e]: a run of one of the scripts
    details,        \* the runs with a detail file
    runs,           \* history.jsonl
    kills

gateVars == <<evaluation, details, runs, kills>>

NoEvaluation == [at |-> "idle", dataset |-> Absent, cases |-> {}, results |-> <<>>,
                 average |-> Absent, baseline |-> "newest", against |-> Absent,
                 verdict |-> "none"]

GateInit ==
    /\ evaluation = [e \in Evaluations |-> NoEvaluation]
    /\ details = {}
    /\ runs = <<>>
    /\ kills = 0

EvaluationGoes(e, next) == evaluation' = [evaluation EXCEPT ![e] = next]

-----------------------------------------------------------------------------
\* load_dataset; a dataset that does not parse, or no case of it that passes the
\* filters, ends the run.  Which cases a run has is its own affair: --tag-filter,
\* --difficulty and --limit choose among them, and the file grows and changes.
Load(e) ==
    /\ evaluation[e] = NoEvaluation
    /\ \E dataset \in Datasets, some \in SUBSET Cases :
          EvaluationGoes(e, [NoEvaluation EXCEPT
              !.at = IF some = {} THEN "ended" ELSE "run",
              !.dataset = dataset, !.cases = some])
    /\ UNCHANGED <<details, runs, kills>>

Missing(e) == evaluation[e].cases \ DOMAIN evaluation[e].results

\* A case of a run, in any order: run_case_async turns whatever the agent or the
\* scorer raises into a failed case, score_record lets it end the run.
RunCase(e) ==
    /\ evaluation[e].at = "run"
    /\ \E c \in Missing(e), value \in Levels \union {Absent, Failed} :
          EvaluationGoes(e, [evaluation[e] EXCEPT
              !.results = [d \in DOMAIN @ \union {c} |-> IF d = c THEN value ELSE @[d]],
              !.at = IF value = Failed /\ evaluation[e].dataset \in Recorded
                     THEN "ended" ELSE @])
    /\ UNCHANGED <<details, runs, kills>>

\* _build_report: what an average is over, neither failed cases nor cases that
\* have no such metric.
Averaged(results) == {c \in DOMAIN results : results[c] \in Levels}

\* An average is kept as the sum and the number of what it is over.
Average(results) ==
    LET over == Averaged(results) IN
    IF over = {} THEN Absent
    ELSE [n |-> Cardinality(over),
          sum |-> FoldSet(LAMBDA c, sum : sum + results[c], 0, over)]

\* save_run: the detail file, then the line of the history.
SaveDetail(e) ==
    /\ evaluation[e].at = "run" /\ Missing(e) = {}
    /\ details' = details \union {e}
    /\ EvaluationGoes(e, [evaluation[e] EXCEPT !.at = "append",
                                               !.average = Average(evaluation[e].results)])
    /\ UNCHANGED <<runs, kills>>

Line(e) == [run |-> e, dataset |-> evaluation[e].dataset, average |-> evaluation[e].average]

AppendRun(e) ==
    /\ evaluation[e].at = "append"
    /\ runs' = Append(runs, Line(e))
    /\ \E at \in {"gate", "ended"} : EvaluationGoes(e, [evaluation[e] EXCEPT !.at = at])
    /\ UNCHANGED <<details, kills>>

\* _metric_delta: the drop is at least the threshold, sums and numbers crosswise;
\* what cannot be compared has not regressed.
Regressed(baseline, current) ==
    /\ baseline # Absent /\ current # Absent
    /\ current.sum * baseline.n + Threshold * baseline.n * current.n
            <= baseline.sum * current.n

\* Mutation of Prior: the run itself is among them.
PriorOrSelf(e) == {i \in DOMAIN runs : runs[i].dataset = evaluation[e].dataset}

Prior(e) ==
    {i \in DOMAIN runs : runs[i].dataset = evaluation[e].dataset /\ runs[i].run # e}

Finishes(e, baseline, against, verdict) ==
    EvaluationGoes(e, [evaluation[e] EXCEPT !.at = "ended", !.baseline = baseline,
                                            !.against = against, !.verdict = verdict])

Verdict(e, line) ==
    IF Regressed(line.average, evaluation[e].average) THEN "fail" ELSE "pass"

Compared(e, baseline, line) == Finishes(e, baseline, line.run, Verdict(e, line))

\* --fail-on-regression: against the newest other run of the dataset, or with
\* --baseline against the run it names, whatever dataset that was on.  Nothing
\* looks at the cases the two have measured.
Gate(e) ==
    /\ evaluation[e].at = "gate"
    /\ \/ Prior(e) = {} /\ Finishes(e, "newest", Absent, "skipped")
       \/ Prior(e) # {} /\ Compared(e, "newest", runs[Max(Prior(e))])
       \/ /\ evaluation[e].dataset \notin Recorded
          /\ \E i \in DOMAIN runs : Compared(e, "named", runs[i])
    /\ UNCHANGED <<details, runs, kills>>

Killed(e) ==
    /\ evaluation[e].at \in {"run", "append", "gate"} /\ kills < MaxKills
    /\ kills' = kills + 1
    /\ EvaluationGoes(e, [evaluation[e] EXCEPT !.at = "ended"])
    /\ UNCHANGED <<details, runs>>

GateNext ==
    \E e \in Evaluations :
        Load(e) \/ RunCase(e) \/ SaveDetail(e) \/ AppendRun(e) \/ Gate(e) \/ Killed(e)

GateSpec == GateInit /\ [][GateNext]_gateVars

-----------------------------------------------------------------------------
Scored(e) ==
    /\ DOMAIN evaluation[e].results = evaluation[e].cases
    /\ \A c \in evaluation[e].cases : evaluation[e].results[c] \in Levels

\* The two measured the same cases, and every one of e is a regression against
\* the same case of the other.
WorseThroughout(e, other) ==
    /\ Scored(e) /\ Scored(other) /\ evaluation[e].cases = evaluation[other].cases
    /\ \A c \in evaluation[e].cases :
          evaluation[e].results[c] + Threshold <= evaluation[other].results[c]

\* The line at i is the baseline of e: of another run of its dataset, with its
\* details on disk, and no older than what was saved there before e itself.
Opposes(i, e) ==
    /\ runs[i].run = evaluation[e].against
    /\ runs[i].run \in details \ {e}
    /\ runs[i].dataset = evaluation[e].dataset
    /\ \A k \in DOMAIN runs, j \in DOMAIN runs :
          /\ runs[k].run = e /\ j < k
          /\ runs[j].dataset = evaluation[e].dataset /\ runs[j].run # e
          => j <= i

\* However the runs overlap, what passes the gate was held against the newest
\* other run of its dataset, or one saved since, and is not worse than that one
\* in every case if the two measured the same cases.  Only a run that --baseline
\* names may be another; and nothing is said of a baseline with other cases,
\* which filters and growing files make (run_eval.py:122).
RegressionIsCaught ==
    \A e \in Evaluations :
      evaluation[e].verdict = "pass" /\ evaluation[e].baseline = "newest" =>
        \E i \in DOMAIN runs :
            Opposes(i, e) /\ ~WorseThroughout(e, runs[i].run)
=============================================================================
