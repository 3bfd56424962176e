-------------------------- MODULE BenchmarkCampaign --------------------------
(***************************************************************************)
(* The retrieval benchmarks that decide whether a feature may be turned on *)
(* by default: the drivers rag/scripts/run_benchmark_matrix.py ("quick"    *)
(* and "balanced") and run_paired_benchmark.py ("paired"), and the child   *)
(* process run_benchmark.py they start once per specification, all of them *)
(* next to a developer who edits, commits and puts back what was there     *)
(* before, a dataset that may change, children that fail or hang, and      *)
(* drivers that are killed and started again over the same output          *)
(* directory.                                                              *)
(*                                                                         *)
(* The files of one dataset are two numbers, its cases and its corpus; a   *)
(* child's metrics are what it read, the code it ran, one quality and one  *)
(* latency, in levels further apart than the tolerances of the reports.    *)
(* Isolated store paths, the minimal environment, Pareto fronts and deltas *)
(* against the reference variant are left out, and so is the               *)
(* public_quality protocol, whose summaries are never promotion eligible.  *)
(***************************************************************************)
EXTENDS Naturals, SequencesExt

CONSTANTS
    Names,          \* the variants of the matrix, or <<control, treatment>>
    Settings,       \* what may be run: records [kind, source, results], with
                    \* results[i] what run i measures: its quality and latency
    MaxEvents,      \* bound on edits, commits and drivers started again
    MaxUndos,       \* bound on edits, commits and branches taken back
    None            \* Python's None

ASSUME BenchmarkAssumption ==
    /\ Len(Names) \in Nat \ {0}
    /\ Settings \subseteq [kind : {"quick", "balanced", "paired"},
                           source : {"repo", "loose"},
                           results : Seq([quality : Nat, p95 : Nat])]
    /\ MaxEvents \in Nat /\ MaxUndos \in Nat

VARIABLES
    setting,    \* the campaign, and whether git sees its dataset; never changes
    tree,       \* the working tree as git shows it to the fingerprint: a number
                \* for content and commit, and whether git finds it clean
    data,       \* the dataset's files
    edits,      \* edits and commits so far
    seen,       \* every [tree, data] there has been (history)
    undos,      \* how often one of them was put back (history)
    driver,     \* the driver process
    child,      \* child[d]: the process driver d started last
    dirs,       \* the run directories that exist, each with its metrics.json
    summary     \* summary.json

vars == <<setting, tree, data, edits, seen, undos, driver, child, dirs, summary>>
world == <<tree, data, edits, seen, undos>>

Drivers == 1..(MaxEvents + 1)
Matrix == setting.kind # "paired"

-----------------------------------------------------------------------------
\* quick_schedule, and the AB and BA orders of the paired benchmark.
BothWays(names) == <<names, Reverse(names)>>

\* balanced_schedule: every variant once at every position.
Rotations(names) ==
    [k \in 1..Len(names) |-> SubSeq(names, k, Len(names)) \o SubSeq(names, 1, k - 1)]

Schedule == IF setting.kind = "balanced" THEN Rotations(Names) ELSE BothWays(Names)

\* The specifications in the order they are run: what, and at which position.
Specs == [n \in 1..(Len(Schedule) * Len(Names)) |->
           LET position == ((n - 1) % Len(Names)) + 1
               order == ((n - 1) \div Len(Names)) + 1
           IN [variant |-> Schedule[order][position], position |-> position]]

SpecIds == 1..(Len(Names) * (IF Len(Names) > 2 THEN Len(Names) ELSE 2))

Now == [tree |-> tree, data |-> data]

NoChild == [at |-> "none", dir |-> None, cases |-> 0, corpus |-> 0, code |-> {},
            measured |-> None]
NewDriver(d) == [id |-> d, pc |-> "plan", next |-> 1, hashes |-> data,
                 fingerprint |-> None, verified |-> 0, rows |-> <<>>]

Alive(c) == c.at \in {"cases", "corpus", "measure", "write"}

Init ==
    /\ setting \in Settings
    /\ tree \in [version : {0}, clean : BOOLEAN]
    /\ data = [cases |-> 0, corpus |-> 0]
    /\ edits = 0 /\ undos = 0
    /\ seen = {Now}
    /\ driver = NewDriver(1)
    /\ child = [d \in Drivers |-> NoChild]
    /\ dirs = <<>>
    /\ summary = None

-----------------------------------------------------------------------------
(***************************************************************************)
(* The world around.  Every edit and every commit makes a tree of its own, *)
(* until a checkout, a stash, a reset or an undo puts back one that was    *)
(* there before.  The files of a dataset inside the repository are part of *)
(* its working tree; the fingerprint is taken of HEAD, the diff against    *)
(* the index, the status and the untracked files.  Trees that differ only  *)
(* in what is staged or inside an untracked directory have one fingerprint *)
(* and are one tree here.                                                  *)
(***************************************************************************)
Fingerprint == tree

\* driver.id - 1 drivers were started again.
MoreEvents == edits + driver.id <= MaxEvents

Touch(clean) == tree' = [version |-> edits + 1, clean |-> clean]

Edit ==
    /\ MoreEvents
    /\ edits' = edits + 1
    /\ \/ Touch(FALSE) /\ UNCHANGED data
       \/ /\ \/ data' = [data EXCEPT !.cases = edits + 1]
             \/ data' = [data EXCEPT !.corpus = edits + 1]
          /\ IF setting.source = "repo" THEN Touch(FALSE) ELSE UNCHANGED tree
       \/ /\ ~tree.clean
          /\ Touch(TRUE)
          /\ UNCHANGED data
    /\ seen' = seen \union {Now'}
    /\ UNCHANGED <<setting, undos, driver, child, dirs, summary>>

PutBack ==
    /\ undos < MaxUndos
    /\ undos' = undos + 1
    /\ \E before \in seen \ {Now} :
         \/ tree' = before.tree /\ data' = before.data
         \/ /\ setting.source = "loose"
            /\ \/ tree' = before.tree /\ UNCHANGED data
               \/ data' = before.data /\ UNCHANGED tree
    /\ seen' = seen \union {Now'}
    /\ UNCHANGED <<setting, edits, driver, child, dirs, summary>>

-----------------------------------------------------------------------------
(***************************************************************************)
(* The child.  Modules are imported as they are needed: the code it runs   *)
(* is what the tree held at each of its steps.                             *)
(***************************************************************************)
ChildMoves(d, c) ==
    /\ child' = [child EXCEPT ![d] = [c EXCEPT !.code = @ \union {tree}]]
    /\ UNCHANGED <<setting, world, driver, dirs, summary>>

LoadCases(d) ==
    /\ child[d].at = "cases"
    /\ ChildMoves(d, [child[d] EXCEPT !.at = "corpus", !.cases = data.cases])

\* The corpus is ingested and every active store compared with it.
IngestCorpus(d) ==
    /\ child[d].at = "corpus"
    /\ ChildMoves(d, [child[d] EXCEPT !.at = "measure", !.corpus = data.corpus])

Measure(d) ==
    /\ child[d].at = "measure"
    /\ ChildMoves(d, [child[d] EXCEPT !.at = "write",
                                      !.measured = setting.results[child[d].dir[1]]])

Measurement(d) ==
    [by |-> d, cases |-> child[d].cases, corpus |-> child[d].corpus,
     code |-> child[d].code, measured |-> child[d].measured]

WriteMetrics(d) ==
    /\ child[d].at = "write"
    /\ dirs' = [dirs EXCEPT ![child[d].dir] = Measurement(d)]
    /\ child' = [child EXCEPT ![d].at = "ok"]
    /\ UNCHANGED <<setting, world, driver, summary>>

\* A raise anywhere is exit code 1.
ChildFails(d) ==
    /\ Alive(child[d])
    /\ child' = [child EXCEPT ![d].at = "failed"]
    /\ UNCHANGED <<setting, world, driver, dirs, summary>>

ChildStep(d) == LoadCases(d) \/ IngestCorpus(d) \/ Measure(d) \/ WriteMetrics(d)

-----------------------------------------------------------------------------
(***************************************************************************)
(* The matrix driver.  Its summary is replaced atomically after every run; *)
(* it is "running" until the report.                                       *)
(***************************************************************************)
At(pc) == driver.pc = pc
Goto(pc) == driver' = [driver EXCEPT !.pc = pc]
Mine == child[driver.id]

\* undone: something was put back since the last check before the run (history).
Row(status, m) ==
    [spec |-> driver.next, status |-> status, m |-> m, undone |-> undos # driver.verified]

\* promotes: promotion_eligible of the matrix, promotion.passed of the pairs.
Report(status, rows, promotes) ==
    [driver |-> driver.id, status |-> status, rows |-> rows, promotes |-> promotes,
     fingerprint |-> driver.fingerprint]

\* What a run left, on to pc: the next specification or, to break, the report.
Ends(row, pc) ==
    LET rows == Append(driver.rows, row) IN
    /\ driver' = [driver EXCEPT !.rows = rows, !.next = @ + 1, !.pc = pc]
    /\ summary' = Report("running", rows, FALSE)

\* The workload is within its limits and the dataset is hashed, or exit 2.
Plan ==
    /\ At("plan")
    /\ \/ driver' = [driver EXCEPT !.hashes = data,
                                   !.pc = IF Matrix THEN "preflight" ELSE "loop"]
       \/ Goto("refused")
    /\ UNCHANGED <<setting, world, child, dirs, summary>>

\* Checkpoints and libraries are there; git may be unable to tell.
Preflight ==
    /\ At("preflight")
    /\ \E f \in {Fingerprint, None}, status \in {"running", "unavailable"} :
         /\ driver' = [driver EXCEPT !.fingerprint = f,
                                     !.pc = IF status = "running" THEN "loop" ELSE "done"]
         /\ summary' = [Report(status, <<>>, FALSE) EXCEPT !.fingerprint = f]
    /\ UNCHANGED <<setting, world, child, dirs>>

\* _verify_worktree_fingerprint raises unless both were taken and are equal.
Unchanged == driver.fingerprint = Fingerprint

NextRun ==
    /\ Matrix /\ At("loop") /\ driver.next <= Len(Specs)
    /\ \/ /\ Unchanged
          /\ driver' = [driver EXCEPT !.pc = "spawn", !.verified = undos]
          /\ UNCHANGED summary
       \/ Ends(Row("failed", None), "report")  \* changed, git fails, total_timeout
    /\ UNCHANGED <<setting, world, child, dirs>>

\* A run directory is named for the specification and the hash of the cases.
Dir == <<driver.next, driver.hashes.cases>>

\* run_spec: a directory that exists is never run in again.
Fresh == Dir \notin DOMAIN dirs

StartChild(verified) ==
    /\ dirs' = [dir \in DOMAIN dirs \union {Dir} |->
                  IF dir \in DOMAIN dirs THEN dirs[dir] ELSE None]
    /\ child' = [child EXCEPT ![driver.id] =
                   [NoChild EXCEPT !.at = "cases", !.dir = Dir, !.code = {tree}]]
    /\ driver' = [driver EXCEPT !.pc = "wait", !.verified = verified]
    /\ UNCHANGED <<setting, world, summary>>

Spawn == At("spawn") /\ Fresh /\ StartChild(driver.verified)

SpawnRefused ==
    /\ At("spawn") /\ ~Fresh
    /\ Ends(Row("failed", None), "loop")
    /\ UNCHANGED <<setting, world, child, dirs>>

\* communicate(timeout) raises: SIGTERM to the group, SIGKILL five seconds later.
Expire ==
    /\ Matrix /\ At("wait") /\ Alive(Mine)
    /\ Goto("term")
    /\ UNCHANGED <<setting, world, child, dirs, summary>>

\* Mutation of Reap: the child that does not obey SIGTERM is waited for.
ReapPolitely ==
    /\ At("term") /\ ~Alive(Mine)
    /\ Ends(Row("failed", None), "loop")
    /\ UNCHANGED <<setting, world, child, dirs>>

Reap ==
    /\ At("term")
    /\ child' = [child EXCEPT ![driver.id].at = IF Alive(Mine) THEN "failed" ELSE @]
    /\ Ends(Row("failed", None), "loop")
    /\ UNCHANGED <<setting, world, dirs>>

\* Exit code, metrics file, and the child's corpus against the corpus of now.
Accepted ==
    /\ Mine.at = "ok"
    /\ dirs[Dir].corpus = data.corpus

Collect ==
    /\ Matrix /\ At("wait") /\ ~Alive(Mine)
    /\ IF Accepted THEN Goto("after") /\ UNCHANGED summary
                   ELSE Ends(Row("failed", None), "loop")
    /\ UNCHANGED <<setting, world, child, dirs>>

\* Mutation of After: verified before a run only.
AfterUnverified ==
    /\ At("after")
    /\ Ends(Row("success", dirs[Dir]), "loop")
    /\ UNCHANGED <<setting, world, child, dirs>>

After ==
    /\ At("after")
    /\ \/ Unchanged /\ Ends(Row("success", dirs[Dir]), "loop")
       \/ Ends(Row("failed", None), "report")  \* changed, or git fails
    /\ UNCHANGED <<setting, world, child, dirs>>

\* _order_report: every run of a variant found the same quality.
OrderIndependent(rows) ==
    \A i, j \in DOMAIN rows :
        /\ rows[i].status = "success" /\ rows[j].status = "success"
        /\ Specs[rows[i].spec].variant = Specs[rows[j].spec].variant
        => rows[i].m.measured.quality = rows[j].m.measured.quality

\* _position_report: a variant's latency moves with its position.
PositionWarning(rows) ==
    \E i, j \in DOMAIN rows :
        /\ rows[i].status = "success" /\ rows[j].status = "success"
        /\ Specs[rows[i].spec].variant = Specs[rows[j].spec].variant
        /\ rows[i].m.measured.p95 # rows[j].m.measured.p95

AllSucceeded(rows) == \A i \in DOMAIN rows : rows[i].status = "success"

Complete(rows) == AllSucceeded(rows) /\ OrderIndependent(rows)

\* With the git status of this moment.
Eligible(rows) ==
    /\ Complete(rows)
    /\ setting.kind = "balanced"
    /\ ~PositionWarning(rows)
    /\ tree.clean

FinishMatrix ==
    /\ Matrix
    /\ \/ At("report")
       \/ At("loop") /\ driver.next > Len(Specs)
    /\ \/ /\ summary' = Report(IF Complete(driver.rows) THEN "complete" ELSE "failed",
                               driver.rows, Eligible(driver.rows))
          /\ Goto("done")
       \/ Goto("refused") /\ UNCHANGED summary     \* git fails
    /\ UNCHANGED <<setting, world, child, dirs>>

-----------------------------------------------------------------------------
(***************************************************************************)
(* The paired driver: any raise ends it with exit code 2, and nothing is   *)
(* written before the last run.  It waits for its child without a timeout. *)
(***************************************************************************)
SameFiles == data = driver.hashes

\* validate_run_spec, then the child.
PairedSpawn ==
    /\ ~Matrix /\ At("loop") /\ driver.next <= Len(Specs)
    /\ SameFiles /\ Fresh
    /\ StartChild(undos)

PairedCollect ==
    /\ ~Matrix /\ At("wait") /\ ~Alive(Mine)
    /\ SameFiles /\ Accepted
    /\ driver' = [driver EXCEPT !.rows = Append(@, Row("success", dirs[Dir])),
                                !.next = @ + 1, !.pc = "loop"]
    /\ UNCHANGED <<setting, world, child, dirs, summary>>

PairedRaises ==
    /\ ~Matrix
    /\ \/ At("loop") /\ driver.next <= Len(Specs) /\ ~(SameFiles /\ Fresh)
       \/ At("wait") /\ ~Alive(Mine) /\ ~(SameFiles /\ Accepted)
    /\ Goto("refused")
    /\ UNCHANGED <<setting, world, child, dirs, summary>>

\* _promotion_report: the treatment is no worse in the first run of each.
NoLoss(rows) ==
    LET control == rows[1].m.measured
        treatment == rows[2].m.measured
    IN treatment.quality >= control.quality /\ treatment.p95 <= control.p95

\* The working tree is fingerprinted here, after the runs, or git fails.  Runs
\* that depend on the order are reported next to the promotion, with exit code 1.
PairedFinish ==
    /\ ~Matrix /\ At("loop") /\ driver.next > Len(Specs)
    /\ \E f \in {Fingerprint, None} :
         summary' = [Report(IF OrderIndependent(driver.rows) THEN "complete" ELSE "failed",
                            driver.rows, NoLoss(driver.rows)) EXCEPT !.fingerprint = f]
    /\ Goto("done")
    /\ UNCHANGED <<setting, world, child, dirs>>

-----------------------------------------------------------------------------
Over == driver.pc \in {"done", "refused", "dead"}

\* kill -9: the child has a session of its own and lives on.
DriverKilled ==
    /\ ~Over
    /\ Goto("dead")
    /\ UNCHANGED <<setting, world, child, dirs, summary>>

\* Ctrl-C: the child is ended first.
DriverInterrupted ==
    /\ At("wait")
    /\ Goto("dead")
    /\ child' = [child EXCEPT ![driver.id].at = IF Alive(Mine) THEN "failed" ELSE @]
    /\ UNCHANGED <<setting, world, dirs, summary>>

\* The same command again, over the same output directory.
Again ==
    /\ Over /\ MoreEvents
    /\ driver' = NewDriver(driver.id + 1)
    /\ UNCHANGED <<setting, world, child, dirs, summary>>

DriverStep ==
    \/ Plan \/ Preflight \/ NextRun \/ Spawn \/ SpawnRefused \/ Expire \/ Reap
    \/ Collect \/ After \/ FinishMatrix
    \/ PairedSpawn \/ PairedCollect \/ PairedRaises \/ PairedFinish

Next ==
    \/ Edit \/ PutBack
    \/ \E d \in Drivers : ChildStep(d) \/ ChildFails(d)
    \/ DriverStep
    \/ DriverKilled \/ DriverInterrupted \/ Again

\* The driver is a process that runs and its timeout fires.  A child owes
\* nothing: a model or a store may never answer.
Spec == Init /\ [][Next]_vars
FairSpec == Spec /\ WF_vars(DriverStep)

-----------------------------------------------------------------------------
Steps == {"plan", "preflight", "loop", "spawn", "wait", "term", "after", "report",
          "done", "refused", "dead"}

TypeOK ==
    /\ setting \in Settings
    /\ driver.pc \in Steps /\ driver.id \in Drivers
    /\ driver.next \in 1..(Len(Specs) + 1)
    /\ Len(driver.rows) = driver.next - 1
    /\ \A d \in DOMAIN dirs : d[1] \in SpecIds /\ d[2] \in 0..MaxEvents
    /\ edits \in 0..MaxEvents /\ undos \in 0..MaxUndos

\* The rows of a summary are one successful run of every specification.
WholeSchedule(rows) == Len(rows) = Len(Specs) /\ AllSucceeded(rows)

\* The rows while nothing was put back.
Quiet(rows) == {i \in DOMAIN rows : ~rows[i].undone}

\* Promotion rests on comparable runs: a summary that promotes holds every
\* specification of the schedule, measured by its own driver's children and by
\* no orphan of an earlier one.  Runs of a matrix imported every module from a
\* tree of the recorded fingerprint, unless an earlier tree was put back during them, which
\* the two comparisons around a run cannot see; with the same reservation they
\* all read the same files if these are in the repository, or, in a paired
\* benchmark, wherever they are (run_benchmark_matrix.py:1201,
\* run_paired_benchmark.py:351).
PromotionIsComparable ==
    summary # None /\ summary.promotes =>
        /\ WholeSchedule(summary.rows)
        /\ \A i \in DOMAIN summary.rows : summary.rows[i].m.by = summary.driver
        /\ Matrix => \A i \in Quiet(summary.rows) :
                        summary.rows[i].m.code = {summary.fingerprint}
        /\ setting.source = "repo" \/ ~Matrix =>
              \A i, j \in Quiet(summary.rows) :
                  /\ summary.rows[i].m.cases = summary.rows[j].m.cases
                  /\ summary.rows[i].m.corpus = summary.rows[j].m.corpus

\* A matrix campaign ends, whatever its children do.
CampaignEnds == (Matrix /\ ~Over) ~> Over
=============================================================================
