---------------------------- MODULE OfflineProofs ----------------------------
(***************************************************************************)
(* Theorems of what is run from a shell: the benchmark campaigns, the      *)
(* promotions of answers into the golden dataset, and the evaluations with *)
(* their gate.                                                             *)
(***************************************************************************)
EXTENDS BenchmarkCampaign, GoldenDataset, EvaluationGate,
        FiniteSetTheorems, SequenceTheorems, WellFoundedInduction, TLAPS

-----------------------------------------------------------------------------
(***************************************************************************)
(* BenchmarkCampaign                                                       *)
(***************************************************************************)
Trees == [version : Nat, clean : BOOLEAN]
Files == [cases : Nat, corpus : Nat]

Older(d) == d.cases <= edits /\ d.corpus <= edits

(* What an edit makes is new: it has a number that nothing seen has.  A     *)
(* tree that holds the dataset says what its files are.                    *)
WorldOK ==
    /\ tree \in Trees /\ data \in Files
    /\ edits \in Nat /\ undos \in Nat
    /\ seen \subseteq [tree : Trees, data : Files] /\ Now \in seen
    /\ \A w \in seen : w.tree.version <= edits /\ Older(w.data)
    /\ setting.source = "repo" => \A v, w \in seen : v.tree = w.tree => v.data = w.data

DriverRecords(fingerprint, rows) ==
    [id : Drivers, pc : Steps, next : Nat \ {0}, hashes : Files,
     fingerprint : {fingerprint}, verified : Nat, rows : {rows}]

DriverOK ==
    /\ driver \in DriverRecords(driver.fingerprint, driver.rows)
    /\ Older(driver.hashes) /\ driver.verified <= undos
    /\ driver.rows \in Seq(Range(driver.rows))
    /\ Len(driver.rows) = driver.next - 1
    /\ driver.next <= Len(Specs) + 1
    /\ driver.pc \in {"spawn", "wait", "term", "after"} => driver.next <= Len(Specs)
    /\ driver.pc \in {"plan", "preflight"} => driver.next = 1

ChildRecords(dir, measured) ==
    [at : {"none", "cases", "corpus", "measure", "write", "ok", "failed"},
     dir : {dir}, cases : Nat, corpus : Nat, code : SUBSET Trees, measured : {measured}]

Started(d) == child[d].at # "none"

ChildOK(d) ==
    LET c == child[d] IN
    /\ c \in ChildRecords(c.dir, c.measured)
    /\ Started(d) => d <= driver.id /\ c.dir \in DOMAIN dirs

ChildrenOK ==
    /\ child = [d \in Drivers |-> child[d]]
    /\ dirs = [dir \in DOMAIN dirs |-> dirs[dir]]
    /\ \A d \in Drivers : ChildOK(d)

HasRead(c) ==
    /\ c.at \in {"corpus", "measure", "write", "ok"} => c.cases = data.cases
    /\ c.at \in {"measure", "write", "ok"} => c.corpus = data.corpus

(* What the driver compares after a run is as it was before the run.       *)
Comparable == IF Matrix THEN tree = driver.fingerprint ELSE data = driver.hashes
Still == undos = driver.verified

(* Then it has been so all the while, if nothing was put back, and this is  *)
(* what the child imported and read.                                       *)
Faithful(c) ==
    Still /\ Comparable =>
      /\ Matrix => c.code = {tree}
      /\ setting.source = "repo" \/ ~Matrix => HasRead(c)

Known(t) == \E w \in seen : w.tree = t

(* The run a driver waits for or looks at: nobody but its own child writes *)
(* its directory.                                                          *)
OwnRun ==
    /\ Started(driver.id) /\ Mine.dir = Dir
    /\ \A d \in Drivers \ {driver.id} : Started(d) => child[d].dir # Dir
    /\ Mine.at = "ok" => dirs[Dir] = Measurement(driver.id)
    /\ Faithful(Mine)

RunOK ==
    /\ driver.pc \in {"spawn", "term", "after"} => Matrix
    /\ Matrix /\ driver.pc \in {"spawn", "wait", "term", "after"} => Known(driver.fingerprint)
    /\ driver.pc \in {"wait", "term", "after"} => OwnRun
    /\ driver.pc = "after" => Mine.at = "ok"

Holds(m, d) == m.cases = d.cases /\ m.corpus = d.corpus

RowOK(row) ==
    row.status = "success" =>
      /\ row.m.by = driver.id
      /\ ~row.undone /\ Matrix =>
           /\ row.m.code = {driver.fingerprint}
           /\ setting.source = "repo" =>
                 \E w \in seen : w.tree = driver.fingerprint /\ Holds(row.m, w.data)
      /\ ~row.undone /\ ~Matrix => Holds(row.m, driver.hashes)

RowsOK ==
    /\ driver.pc = "report" => ~AllSucceeded(driver.rows)
    /\ ~Matrix => AllSucceeded(driver.rows)
    /\ \A i \in DOMAIN driver.rows : RowOK(driver.rows[i])

CampaignInv ==
    /\ WorldOK /\ DriverOK /\ ChildrenOK /\ RunOK /\ RowsOK
    /\ PromotionIsComparable

-----------------------------------------------------------------------------
LEMMA SpecsAreCounted == Len(Specs) \in Nat
<1>1. Len(Names) \in Nat BY BenchmarkAssumption DEF BenchmarkAssumption
<1>2. Len(Schedule) \in Nat
  <2>1. CASE setting.kind = "balanced"
    <3>1. Schedule = Rotations(Names) BY <2>1 DEF Schedule
    <3> DEFINE turn(k) == SubSeq(Names, k, Len(Names)) \o SubSeq(Names, 1, k - 1)
    <3>2. Rotations(Names) = [k \in 1..Len(Names) |-> turn(k)] BY DEF Rotations
    <3>3. Rotations(Names) \in Seq({turn(k) : k \in 1..Len(Names)})
      <4> HIDE DEF turn
      <4> QED BY <1>1, <3>2
    <3> QED BY <3>1, <3>3
  <2>2. CASE setting.kind # "balanced"
    <3>1. Schedule = <<Names, Reverse(Names)>> BY <2>2 DEF Schedule, BothWays
    <3> QED BY <3>1
  <2> QED BY <2>1, <2>2
<1>3. Len(Schedule) * Len(Names) \in Nat BY <1>1, <1>2
<1> DEFINE count == Len(Schedule) * Len(Names)
           spec(n) == LET position == ((n - 1) % Len(Names)) + 1
                          order == ((n - 1) \div Len(Names)) + 1
                      IN [variant |-> Schedule[order][position], position |-> position]
<1>4. Specs = [n \in 1..count |-> spec(n)] BY DEF Specs
<1>5. Specs \in Seq({spec(n) : n \in 1..count})
  <2> HIDE DEF count, spec
  <2>1. count \in Nat BY <1>3 DEF count
  <2> QED BY <1>4, <2>1
<1> QED BY <1>5

(* A run of rows stays one when a row is added. *)
LEMMA RowsGrow ==
    ASSUME NEW rows, rows \in Seq(Range(rows)), NEW row
    PROVE  LET more == Append(rows, row) IN
           /\ more \in Seq(Range(more)) /\ Len(more) = Len(rows) + 1
           /\ DOMAIN more = DOMAIN rows \union {Len(rows) + 1}
           /\ \A i \in DOMAIN rows : more[i] = rows[i]
           /\ more[Len(rows) + 1] = row
           /\ Len(rows) \in Nat /\ DOMAIN rows = 1..Len(rows)
<1> DEFINE more == Append(rows, row)
           S == Range(rows) \union {row}
<1>1. rows \in Seq(S) /\ row \in S
  <2>1. \A i \in 1..Len(rows) : rows[i] \in S BY DEF Range
  <2> HIDE DEF S
  <2>2. DOMAIN rows = 1..Len(rows) /\ Len(rows) \in Nat /\ rows = [i \in 1..Len(rows) |-> rows[i]]
        OBVIOUS
  <2>3. rows \in Seq(S) BY <2>1, <2>2
  <2> QED BY <2>3 DEF S
<1> HIDE DEF S
<1>2. /\ more \in Seq(S) /\ Len(more) = Len(rows) + 1
      /\ DOMAIN more = 1..(Len(rows) + 1) /\ DOMAIN rows = 1..Len(rows) /\ Len(rows) \in Nat
      /\ \A i \in DOMAIN rows : more[i] = rows[i]
      /\ more[Len(rows) + 1] = row
      BY <1>1
<1> HIDE DEF more
<1>3. more \in Seq(Range(more))
  <2>1. more = [i \in 1..Len(more) |-> more[i]] /\ Len(more) \in Nat BY <1>2
  <2>2. \A i \in 1..Len(more) : more[i] \in Range(more) BY <1>2 DEF Range
  <2> QED BY <2>1, <2>2
<1>4. DOMAIN more = DOMAIN rows \union {Len(rows) + 1} BY <1>2
<1> QED BY <1>2, <1>3, <1>4 DEF more

LEMMA CampaignBegins == Init => CampaignInv
<1> SUFFICES ASSUME Init PROVE CampaignInv OBVIOUS
<1> USE DEF Init
<1>1. WorldOK
  <2>1. tree \in Trees /\ tree.version = 0 BY DEF Trees
  <2>2. data \in Files /\ data.cases = 0 /\ data.corpus = 0 BY DEF Files
  <2>3. seen = {[tree |-> tree, data |-> data]} BY DEF Now
  <2> QED BY <2>1, <2>2, <2>3 DEF WorldOK, Now, Older
<1>2. DriverOK
  <2>1. 1 \in Drivers BY BenchmarkAssumption DEF Drivers, BenchmarkAssumption
  <2>2. driver = [id |-> 1, pc |-> "plan", next |-> 1, hashes |-> data,
                  fingerprint |-> None, verified |-> 0, rows |-> <<>>]
        BY DEF NewDriver
  <2>3. <<>> \in Seq(Range(<<>>)) /\ Len(<<>>) = 0 OBVIOUS
  <2>4. /\ driver.id = 1 /\ driver.pc = "plan" /\ driver.next = 1
        /\ driver.rows = <<>> /\ driver.hashes = data /\ driver.verified = 0
        BY <2>2
  <2>5. driver.rows \in Seq(Range(driver.rows)) /\ Len(driver.rows) = 0 BY <2>3, <2>4
  <2>6. data \in Files BY <1>1 DEF WorldOK
  <2>7. driver \in DriverRecords(driver.fingerprint, driver.rows)
        BY <2>1, <2>2, <2>6 DEF DriverRecords, Steps
  <2>8. Older(driver.hashes) BY <2>4 DEF Older
  <2> QED BY <2>4, <2>5, <2>7, <2>8, SpecsAreCounted DEF DriverOK
<1>3. ChildrenOK BY DEF ChildrenOK, ChildOK, ChildRecords, Started, NoChild
<1>4. driver.pc = "plan" /\ driver.rows = <<>> BY DEF NewDriver
<1>5. RunOK BY <1>4 DEF RunOK
<1>6. RowsOK BY <1>4 DEF RowsOK, AllSucceeded
<1>7. PromotionIsComparable BY DEF PromotionIsComparable
<1> QED BY <1>1, <1>2, <1>3, <1>5, <1>6, <1>7 DEF CampaignInv

(* The world moves: what was comparable stays so only where nothing moved. *)
LEMMA WorldMoves ==
    ASSUME CampaignInv, UNCHANGED <<setting, driver, child, dirs, summary>>,
           WorldOK', edits' >= edits, seen \subseteq seen',
           \/ undos' = undos + 1
           \/ /\ undos' = undos
              /\ Matrix /\ Known(tree') => tree' = tree
              /\ Matrix /\ setting.source = "repo" /\ tree' = tree => data' = data
              /\ ~Matrix /\ Older(data') => data' = data
    PROVE  CampaignInv'
<1> USE DEF CampaignInv
<1>1. /\ setting' = setting /\ driver' = driver /\ child' = child /\ dirs' = dirs
      /\ summary' = summary
    OBVIOUS
<1>2. edits \in Nat /\ edits' \in Nat /\ undos \in Nat /\ undos' \in Nat BY DEF WorldOK
<1>3. DriverOK'
  <2>1. driver.hashes \in Files /\ Older(driver.hashes) /\ driver.verified \in Nat
        /\ driver.verified <= undos
        BY DEF DriverOK, DriverRecords
  <2>2. Older(driver.hashes)' BY <1>1, <1>2, <2>1 DEF Older, Files
  <2>3. driver'.verified <= undos' BY <1>1, <1>2, <2>1
  <2> QED BY <1>1, <2>2, <2>3 DEF DriverOK, DriverRecords, Specs, Schedule
<1>4. ChildrenOK' BY <1>1 DEF ChildrenOK, ChildOK, Started
<1>5. \A t : Known(t) => Known(t)' BY DEF Known
<1>6. RunOK'
  <2>1. ASSUME driver.pc \in {"wait", "term", "after"} PROVE OwnRun'
    <3>1. OwnRun BY <2>1 DEF RunOK
    <3>2. /\ Mine' = Mine /\ Dir' = Dir /\ Measurement(driver.id)' = Measurement(driver.id)
          /\ \A d : Started(d)' = Started(d)
          BY <1>1 DEF Mine, Dir, Measurement, Started
    <3>3. Matrix' = Matrix BY <1>1 DEF Matrix
    <3>4. ASSUME Still', Comparable' PROVE /\ Still /\ Comparable
                                           /\ Matrix => tree' = tree
                                           /\ setting.source = "repo" \/ ~Matrix => data' = data
      <4>1. undos' = driver.verified BY <1>1, <3>4 DEF Still
      <4>2. driver.verified \in Nat /\ driver.verified <= undos BY DEF DriverOK, DriverRecords
      <4>3. undos' = undos BY <1>2, <4>1, <4>2
      <4>4. undos' # undos + 1 BY <1>2, <4>3
      <4>5. CASE Matrix
        <5>1. tree' = driver.fingerprint BY <1>1, <3>3, <3>4, <4>5 DEF Comparable
        <5>2. Known(driver.fingerprint) BY <2>1, <4>5 DEF RunOK
        <5>3. tree' = tree BY <4>4, <4>5, <5>1, <5>2
        <5> QED BY <4>1, <4>3, <4>4, <4>5, <5>1, <5>3 DEF Still, Comparable
      <4>6. CASE ~Matrix
        <5>1. data' = driver.hashes BY <1>1, <3>3, <3>4, <4>6 DEF Comparable
        <5>2. Older(driver.hashes) BY DEF DriverOK
        <5>3. data' = data BY <4>4, <4>6, <5>1, <5>2
        <5> QED BY <4>1, <4>3, <4>6, <5>1, <5>3 DEF Still, Comparable
      <4> QED BY <4>5, <4>6
    <3>5. Faithful(Mine) BY <3>1 DEF OwnRun
    <3>6. Faithful(Mine)'
      <4> SUFFICES ASSUME Still', Comparable'
                   PROVE  /\ Matrix => Mine.code = {tree'}
                          /\ setting.source = "repo" \/ ~Matrix => HasRead(Mine)'
          BY <1>1, <3>2, <3>3 DEF Faithful
      <4>1. /\ Still /\ Comparable
            /\ Matrix => tree' = tree
            /\ setting.source = "repo" \/ ~Matrix => data' = data
            BY <3>4
      <4>2. /\ Matrix => Mine.code = {tree}
            /\ setting.source = "repo" \/ ~Matrix => HasRead(Mine)
            BY <3>5, <4>1 DEF Faithful
      <4> QED BY <3>2, <4>1, <4>2 DEF HasRead
    <3> QED BY <1>1, <3>1, <3>2, <3>6 DEF OwnRun
  <2>2. Matrix' = Matrix /\ Mine' = Mine BY <1>1 DEF Matrix, Mine
  <2> QED BY <1>1, <1>5, <2>1, <2>2 DEF RunOK
<1>7. RowsOK'
  <2>1. ASSUME NEW row, RowOK(row) PROVE RowOK(row)' BY <1>1, <2>1 DEF RowOK, Matrix
  <2> QED BY <1>1, <2>1 DEF RowsOK, Matrix, AllSucceeded
<1>8. PromotionIsComparable'
    BY <1>1 DEF PromotionIsComparable, WholeSchedule, AllSucceeded, Specs, Schedule, Matrix, Quiet
<1> QED BY <1>3, <1>4, <1>6, <1>7, <1>8

LEMMA EditStep == CampaignInv /\ Edit => CampaignInv'
<1> SUFFICES ASSUME CampaignInv, Edit PROVE CampaignInv' OBVIOUS
<1>1. /\ UNCHANGED <<setting, undos, driver, child, dirs, summary>> /\ edits' = edits + 1
      /\ seen' = seen \union {Now'}
    BY DEF Edit
<1>2. WorldOK BY DEF CampaignInv
<1>3. edits \in Nat /\ tree \in Trees /\ data \in Files BY <1>2 DEF WorldOK
<1>4. Now \in seen /\ Now.tree = tree /\ Now.data = data BY <1>2 DEF WorldOK, Now
<1>5. ASSUME NEW clean \in BOOLEAN, Touch(clean)
      PROVE  tree' \in Trees /\ tree'.version = edits + 1
    BY <1>3, <1>5 DEF Touch, Trees
<1>6. \/ UNCHANGED data
      \/ data' = [data EXCEPT !.cases = edits + 1]
      \/ data' = [data EXCEPT !.corpus = edits + 1]
    BY DEF Edit
<1>7. /\ data' \in Files
      /\ data' = data \/ data'.cases = edits + 1 \/ data'.corpus = edits + 1
      /\ data'.cases \in {data.cases, edits + 1} /\ data'.corpus \in {data.corpus, edits + 1}
    BY <1>3, <1>6 DEF Files
<1>8. \/ tree' \in Trees /\ tree'.version = edits + 1
      \/ tree' = tree /\ setting.source # "repo"
  <2>1. CASE Touch(FALSE) BY <1>5, <2>1
  <2>2. CASE Touch(TRUE) BY <1>5, <2>2
  <2> QED BY <2>1, <2>2 DEF Edit
<1>9. tree' \in Trees /\ tree'.version \in {tree.version, edits + 1} BY <1>3, <1>8
<1>10. ~Older(data') \/ data' = data
  <2>1. \A n \in Nat : ~(n + 1 <= n) OBVIOUS
  <2> QED BY <1>3, <1>7, <2>1 DEF Older
<1>11. Known(tree') => tree' = tree
  <2> SUFFICES ASSUME NEW w \in seen, w.tree = tree', tree'.version = edits + 1 PROVE FALSE
      BY <1>8 DEF Known
  <2>1. w.tree.version <= edits BY <1>2 DEF WorldOK
  <2> QED BY <1>3, <2>1
<1>12. setting.source = "repo" => tree'.version = edits + 1 BY <1>8
<1>13. WorldOK'
  <2>1. seen' \subseteq [tree : Trees, data : Files] /\ Now' \in seen'
        BY <1>1, <1>2, <1>7, <1>9 DEF WorldOK, Now
  <2>2. tree.version <= edits /\ Older(data) BY <1>2, <1>4 DEF WorldOK
  <2>3. ASSUME NEW w \in seen' PROVE w.tree.version <= edits' /\ Older(w.data)'
    <3>1. CASE w \in seen
      <4>1. w.tree.version <= edits /\ Older(w.data) /\ w.tree \in Trees /\ w.data \in Files
            BY <1>2, <3>1 DEF WorldOK
      <4> QED BY <1>1, <1>3, <4>1 DEF Older, Trees, Files
    <3>2. CASE w = Now'
      <4>1. w.tree = tree' /\ w.data = data' BY <3>2 DEF Now
      <4>2. tree.version \in Nat /\ data.cases \in Nat /\ data.corpus \in Nat
            BY <1>3 DEF Trees, Files
      <4> QED BY <1>1, <1>3, <1>7, <1>9, <2>2, <4>1, <4>2 DEF Older
    <3> QED BY <1>1, <3>1, <3>2
  <2>4. ASSUME setting.source = "repo", NEW v \in seen', NEW w \in seen', v.tree = w.tree
        PROVE  v.data = w.data
    <3>1. ASSUME NEW u \in seen PROVE u.tree # tree'
      <4>1. u.tree.version <= edits BY <1>2 DEF WorldOK
      <4>2. tree'.version = edits + 1 BY <1>12, <2>4
      <4> QED BY <1>3, <4>1, <4>2
    <3>2. Now'.tree = tree' BY DEF Now
    <3>3. CASE v \in seen /\ w \in seen BY <1>2, <2>4, <3>3 DEF WorldOK
    <3>4. CASE v = Now' /\ w \in seen BY <2>4, <3>1, <3>2, <3>4
    <3>5. CASE v \in seen /\ w = Now' BY <2>4, <3>1, <3>2, <3>5
    <3>6. CASE v = Now' /\ w = Now' BY <3>6
    <3> QED BY <1>1, <3>3, <3>4, <3>5, <3>6
  <2>5. undos' \in Nat /\ edits' \in Nat /\ setting' = setting BY <1>1, <1>2 DEF WorldOK
  <2> QED BY <1>7, <1>9, <2>1, <2>3, <2>4, <2>5 DEF WorldOK
<1>14. edits' >= edits /\ seen \subseteq seen' /\ undos' = undos BY <1>1, <1>3
<1>15. setting.source = "repo" /\ tree' = tree => data' = data
  <2>1. tree.version <= edits /\ tree.version \in Nat BY <1>2, <1>3, <1>4 DEF WorldOK, Trees
  <2> QED BY <1>3, <1>12, <2>1
<1> QED BY <1>1, <1>10, <1>11, <1>13, <1>14, <1>15, WorldMoves

LEMMA PutBackStep == CampaignInv /\ PutBack => CampaignInv'
<1> SUFFICES ASSUME CampaignInv, PutBack PROVE CampaignInv' OBVIOUS
<1>1. /\ UNCHANGED <<setting, edits, driver, child, dirs, summary>> /\ undos' = undos + 1
      /\ seen' = seen \union {Now'}
    BY DEF PutBack
<1>2. PICK before \in seen :
        \/ tree' = before.tree /\ data' = before.data
        \/ /\ setting.source = "loose"
           /\ \/ tree' = before.tree /\ UNCHANGED data
              \/ data' = before.data /\ UNCHANGED tree
    BY DEF PutBack
<1>3. WorldOK BY DEF CampaignInv
<1>4. Now \in seen /\ Now = [tree |-> tree, data |-> data] BY <1>3 DEF WorldOK, Now
<1>5. before \in [tree : Trees, data : Files] BY <1>2, <1>3 DEF WorldOK
<1>6. /\ tree' \in Trees /\ data' \in Files
      /\ \E w \in seen : w.tree = tree'
      /\ \E w \in seen : w.data = data'
      /\ setting.source = "repo" => Now' = before
  <2>1. Now' = [tree |-> tree', data |-> data'] BY DEF Now
  <2>2. before = [tree |-> before.tree, data |-> before.data] BY <1>5
  <2>3. tree \in Trees /\ data \in Files BY <1>3 DEF WorldOK
  <2> QED BY <1>2, <1>4, <1>5, <2>1, <2>2, <2>3
<1>7. WorldOK'
  <2>1. seen' \subseteq [tree : Trees, data : Files] /\ Now' \in seen'
        BY <1>1, <1>3, <1>6 DEF WorldOK, Now
  <2>2. ASSUME NEW w \in seen' PROVE w.tree.version <= edits' /\ Older(w.data)'
    <3>1. \A u \in seen : u.tree.version <= edits /\ Older(u.data) BY <1>3 DEF WorldOK
    <3>2. \E u \in seen : u.tree = w.tree
      <4>1. CASE w \in seen BY <4>1
      <4>2. CASE w = Now' BY <1>6, <4>2 DEF Now
      <4> QED BY <1>1, <4>1, <4>2
    <3>3. \E u \in seen : u.data = w.data
      <4>1. CASE w \in seen BY <4>1
      <4>2. CASE w = Now' BY <1>6, <4>2 DEF Now
      <4> QED BY <1>1, <4>1, <4>2
    <3>4. w.tree.version <= edits /\ Older(w.data) BY <3>1, <3>2, <3>3
    <3> QED BY <1>1, <3>4 DEF Older
  <2>3. setting.source = "repo" => seen' = seen BY <1>1, <1>2, <1>6
  <2>4. undos' \in Nat /\ edits' \in Nat /\ setting' = setting BY <1>1, <1>3 DEF WorldOK
  <2> QED BY <1>3, <1>6, <2>1, <2>2, <2>3, <2>4 DEF WorldOK
<1>8. edits' >= edits /\ seen \subseteq seen' BY <1>1, <1>3 DEF WorldOK
<1> QED BY <1>1, <1>7, <1>8, WorldMoves

-----------------------------------------------------------------------------
(* A child goes on, or fails, without a word to anybody; or it has written  *)
(* its metrics where it was started, which is the driver's directory only   *)
(* for the driver's own child.                                             *)
LEMMA ChildGoes ==
    ASSUME CampaignInv, NEW d \in Drivers, Alive(child[d]), NEW next,
           child' = [child EXCEPT ![d] = next],
           UNCHANGED <<setting, world, driver, summary>>,
           next \in ChildRecords(child[d].dir, next.measured), next.at # "none",
           \/ next.at # "ok" /\ UNCHANGED dirs
           \/ next.at = "ok" /\ dirs' = [dirs EXCEPT ![child[d].dir] = Measurement(d)'],
           driver.id = d /\ Faithful(child[d]) => Faithful(next)
    PROVE  CampaignInv'
<1> USE DEF CampaignInv
<1>1. UNCHANGED <<setting, tree, data, edits, seen, undos, driver, summary>> BY DEF world
<1>2. child'[d] = next /\ \A o \in Drivers \ {d} : child'[o] = child[o]
    BY DEF ChildrenOK
<1>3. /\ d <= driver.id /\ child[d].dir \in DOMAIN dirs
      /\ child[d].at # "none" /\ child[d].at # "ok"
    BY DEF ChildrenOK, ChildOK, Started, Alive
<1>4. next.dir = child[d].dir BY DEF ChildRecords
<1>5. /\ DOMAIN dirs' = DOMAIN dirs /\ dirs' = [dir \in DOMAIN dirs' |-> dirs'[dir]]
      /\ \A dir \in DOMAIN dirs \ {child[d].dir} : dirs'[dir] = dirs[dir]
      /\ next.at = "ok" => dirs'[child[d].dir] = Measurement(d)'
    BY <1>3 DEF ChildrenOK
<1>6. WorldOK' BY <1>1 DEF WorldOK, Now, Older
<1>7. DriverOK' BY <1>1 DEF DriverOK, Specs, Schedule, Older
<1>8. ChildrenOK'
  <2>1. ASSUME NEW o \in Drivers PROVE ChildOK(o)'
    <3>1. CASE o = d BY <1>1, <1>2, <1>3, <1>4, <1>5, <3>1 DEF ChildOK
    <3>2. CASE o # d
      <4>1. ChildOK(o) /\ child'[o] = child[o] BY <1>2, <3>2 DEF ChildrenOK
      <4> QED BY <1>1, <1>5, <4>1 DEF ChildOK, Started
    <3> QED BY <3>1, <3>2
  <2>2. child' = [o \in Drivers |-> child'[o]] BY DEF ChildrenOK
  <2> QED BY <1>5, <2>1, <2>2 DEF ChildrenOK
<1>9. RunOK'
  <2>1. driver.id \in Drivers BY DEF DriverOK, DriverRecords
  <2>2. Dir' = Dir /\ Matrix' = Matrix /\ Mine' = child'[driver.id]
        BY <1>1 DEF Dir, Mine, Matrix
  <2>3. ASSUME NEW c PROVE Faithful(c)' = Faithful(c)
        BY <1>1 DEF Faithful, Still, Comparable, Matrix, HasRead
  <2>4. ASSUME OwnRun PROVE OwnRun'
    <3>1. /\ Started(driver.id) /\ Mine.dir = Dir
          /\ \A o \in Drivers \ {driver.id} : Started(o) => child[o].dir # Dir
          /\ Mine.at = "ok" => dirs[Dir] = Measurement(driver.id)
          /\ Faithful(Mine)
          BY <2>4 DEF OwnRun
    <3>2. CASE d = driver.id
      <4>1. Mine' = next /\ Mine = child[d] BY <1>2, <2>2, <3>2 DEF Mine
      <4>2. Started(driver.id)' BY <1>1, <1>2, <3>2 DEF Started
      <4>3. \A o \in Drivers \ {driver.id} : Started(o)' => child'[o].dir # Dir
            BY <1>2, <3>1, <3>2 DEF Started
      <4>4. Mine'.at = "ok" => dirs'[Dir] = Measurement(driver.id)'
        <5>1. Measurement(driver.id)' = Measurement(d)' BY <1>1, <3>2 DEF Measurement
        <5> QED BY <1>5, <3>1, <4>1, <5>1
      <4>5. Faithful(next) BY <3>1, <3>2, <4>1
      <4>6. Faithful(Mine)' BY <2>3, <4>1, <4>5 DEF Faithful, HasRead
      <4>7. Mine'.dir = Dir BY <1>4, <3>1, <4>1
      <4> QED BY <1>1, <2>2, <4>2, <4>3, <4>4, <4>6, <4>7 DEF OwnRun
    <3>3. CASE d # driver.id
      <4>1. Mine' = Mine BY <1>2, <2>1, <2>2, <3>3 DEF Mine
      <4>2. Started(d) BY <1>3 DEF Started
      <4>3. \A o \in Drivers \ {driver.id} : Started(o)' => child'[o].dir # Dir
            BY <1>2, <1>4, <3>1, <3>3, <4>2 DEF Started
      <4>4. Measurement(driver.id)' = Measurement(driver.id)
            BY <1>1, <1>2, <2>1, <3>3 DEF Measurement
      <4>5. Started(driver.id)' BY <1>1, <3>1, <4>1 DEF Started, Mine
      <4>6. Dir \in DOMAIN dirs
        <5>1. ChildOK(driver.id) BY <2>1 DEF ChildrenOK
        <5> QED BY <3>1, <5>1 DEF ChildOK, Mine
      <4>7. dirs'[Dir] = dirs[Dir]
        <5>1. child[d].dir # Dir BY <3>1, <3>3, <4>2
        <5> QED BY <1>5, <4>6, <5>1
      <4>8. Faithful(Mine)' BY <1>1, <3>1, <4>1 DEF Faithful, Still, Comparable, Matrix, HasRead
      <4> QED BY <1>1, <2>2, <3>1, <4>1, <4>3, <4>4, <4>5, <4>7, <4>8 DEF OwnRun
    <3> QED BY <3>2, <3>3
  <2>5. ASSUME driver.pc = "after" PROVE Mine' = Mine
    <3>1. Mine.at = "ok" BY <2>5 DEF RunOK
    <3>2. d # driver.id BY <1>3, <3>1 DEF Mine
    <3> QED BY <1>2, <2>1, <2>2, <3>2 DEF Mine
  <2> QED BY <1>1, <2>2, <2>4, <2>5 DEF RunOK, Known
<1>10. RowsOK'
  <2>1. ASSUME NEW row, RowOK(row) PROVE RowOK(row)' BY <1>1, <2>1 DEF RowOK, Matrix
  <2> QED BY <1>1, <2>1 DEF RowsOK, Matrix, AllSucceeded
<1>11. PromotionIsComparable'
    BY <1>1 DEF PromotionIsComparable, WholeSchedule, AllSucceeded, Specs, Schedule, Matrix, Quiet
<1> QED BY <1>6, <1>7, <1>8, <1>9, <1>10, <1>11

LEMMA ChildSteps ==
    ASSUME CampaignInv, NEW d \in Drivers, ChildStep(d) \/ ChildFails(d)
    PROVE  CampaignInv'
<1> DEFINE c == child[d]
<1>1. /\ c \in ChildRecords(c.dir, c.measured) /\ tree \in Trees /\ data \in Files
    BY DEF CampaignInv, ChildrenOK, ChildOK, WorldOK
<1>2. ASSUME NEW step, step \in ChildRecords(c.dir, step.measured), step.code = c.code,
             step.at \in {"corpus", "measure", "write"}, Alive(c),
             ChildMoves(d, step), HasRead(c) => HasRead(step)
      PROVE  CampaignInv'
  <2> DEFINE next == [step EXCEPT !.code = @ \union {tree}]
  <2>1. /\ child' = [child EXCEPT ![d] = next]
        /\ UNCHANGED <<setting, world, driver, dirs, summary>>
        BY <1>2 DEF ChildMoves
  <2>2. /\ next \in ChildRecords(c.dir, next.measured) /\ next.at = step.at
        /\ next.code = c.code \union {tree} /\ next.cases = step.cases
        /\ next.corpus = step.corpus
        BY <1>1, <1>2 DEF ChildRecords
  <2> HIDE DEF next
  <2>3. ASSUME Faithful(c) PROVE Faithful(next)
    <3>1. HasRead(step) => HasRead(next) BY <2>2 DEF HasRead
    <3> QED BY <1>2, <2>2, <2>3, <3>1 DEF Faithful
  <2> QED BY <1>2, <2>1, <2>2, <2>3, ChildGoes
<1>3. CASE LoadCases(d)
  <2> DEFINE step == [c EXCEPT !.at = "corpus", !.cases = data.cases]
  <2>1. c.at = "cases" /\ ChildMoves(d, step) BY <1>3 DEF LoadCases
  <2>2. /\ step \in ChildRecords(c.dir, step.measured) /\ step.code = c.code
        /\ step.at = "corpus" /\ step.cases = data.cases
        BY <1>1 DEF ChildRecords, Files
  <2> HIDE DEF step
  <2>3. HasRead(step) BY <2>2 DEF HasRead
  <2> QED BY <1>2, <2>1, <2>2, <2>3 DEF Alive
<1>4. CASE IngestCorpus(d)
  <2> DEFINE step == [c EXCEPT !.at = "measure", !.corpus = data.corpus]
  <2>1. c.at = "corpus" /\ ChildMoves(d, step) BY <1>4 DEF IngestCorpus
  <2>2. /\ step \in ChildRecords(c.dir, step.measured) /\ step.code = c.code
        /\ step.at = "measure" /\ step.cases = c.cases /\ step.corpus = data.corpus
        BY <1>1 DEF ChildRecords, Files
  <2> HIDE DEF step
  <2>3. HasRead(c) => HasRead(step) BY <2>1, <2>2 DEF HasRead
  <2> QED BY <1>2, <2>1, <2>2, <2>3 DEF Alive
<1>5. CASE Measure(d)
  <2> DEFINE measured == setting.results[c.dir[1]]
             step == [c EXCEPT !.at = "write", !.measured = measured]
  <2>1. c.at = "measure" /\ ChildMoves(d, step) BY <1>5 DEF Measure
  <2> HIDE DEF measured
  <2>2. /\ step \in ChildRecords(c.dir, step.measured) /\ step.code = c.code
        /\ step.at = "write" /\ step.cases = c.cases /\ step.corpus = c.corpus
        BY <1>1 DEF ChildRecords
  <2> HIDE DEF step
  <2>3. HasRead(c) => HasRead(step) BY <2>1, <2>2 DEF HasRead
  <2> QED BY <1>2, <2>1, <2>2, <2>3 DEF Alive
<1>6. ASSUME NEW at \in {"ok", "failed"}, child' = [child EXCEPT ![d].at = at], Alive(c),
             UNCHANGED <<setting, world, driver, summary>>,
             \/ at = "failed" /\ UNCHANGED dirs
             \/ at = "ok" /\ c.at = "write"
                  /\ dirs' = [dirs EXCEPT ![child[d].dir] = Measurement(d)]
      PROVE  CampaignInv'
  <2> DEFINE next == [c EXCEPT !.at = at]
  <2>1. child' = [child EXCEPT ![d] = next] BY <1>6
  <2>2. /\ next \in ChildRecords(c.dir, next.measured) /\ next.at = at
        /\ next.code = c.code /\ next.cases = c.cases /\ next.corpus = c.corpus
        /\ next.measured = c.measured
        BY <1>1 DEF ChildRecords
  <2> HIDE DEF next
  <2>3. Faithful(c) => Faithful(next) BY <1>6, <2>2 DEF Faithful, HasRead
  <2>4. child'[d] = next BY <2>1 DEF CampaignInv, ChildrenOK
  <2>5. Measurement(d)' = Measurement(d) BY <2>2, <2>4 DEF Measurement
  <2> QED BY <1>6, <2>1, <2>2, <2>3, <2>5, ChildGoes
<1>7. CASE WriteMetrics(d)
  <2>1. c.at = "write" /\ Alive(c) BY <1>7 DEF WriteMetrics, Alive
  <2> QED BY <1>6, <1>7, <2>1 DEF WriteMetrics
<1>8. CASE ChildFails(d) BY <1>6, <1>8 DEF ChildFails
<1> QED BY <1>3, <1>4, <1>5, <1>7, <1>8 DEF ChildStep

-----------------------------------------------------------------------------
(* What a driver does to its child leaves the children as they have to be,  *)
(* as long as it only ends it.                                             *)
EndsOwn == child' = [child EXCEPT ![driver.id].at = IF Alive(Mine) THEN "failed" ELSE @]

LEMMA ChildrenStand ==
    ASSUME CampaignInv, UNCHANGED dirs, driver'.id >= driver.id, driver'.id \in Drivers,
           UNCHANGED child \/ EndsOwn
    PROVE  ChildrenOK'
<1> USE DEF CampaignInv
<1>1. \A d \in Drivers : ChildOK(d) BY DEF ChildrenOK
<1>2. driver.id \in Drivers BY DEF DriverOK, DriverRecords
<1>3. ASSUME NEW d \in Drivers PROVE d <= driver.id => d <= driver'.id
    BY <1>2, BenchmarkAssumption DEF Drivers, BenchmarkAssumption
<1> DEFINE me == driver.id
           at == IF Alive(Mine) THEN "failed" ELSE child[me].at
           next == [child[me] EXCEPT !.at = at]
<1>4. CASE UNCHANGED child
  <2>1. ASSUME NEW d \in Drivers PROVE ChildOK(d)'
        BY <1>1, <1>3, <1>4 DEF ChildOK, Started
  <2> QED BY <1>4, <2>1 DEF ChildrenOK
<1>5. CASE EndsOwn
  <2>1. child' = [child EXCEPT ![me] = next] BY <1>5 DEF EndsOwn
  <2>2. child[me] \in ChildRecords(child[me].dir, child[me].measured)
        BY <1>1, <1>2 DEF ChildOK
  <2>3. at \in {child[me].at, "failed"} /\ (at # child[me].at => child[me].at # "none")
        BY DEF Alive, Mine
  <2> HIDE DEF at
  <2>4. /\ next \in ChildRecords(child[me].dir, child[me].measured)
        /\ next.at = at /\ next.dir = child[me].dir /\ next.measured = child[me].measured
        BY <2>2, <2>3 DEF ChildRecords
  <2> HIDE DEF next
  <2>5. child'[me] = next /\ \A d \in Drivers \ {me} : child'[d] = child[d]
        BY <1>2, <2>1 DEF ChildrenOK
  <2>6. ASSUME NEW d \in Drivers PROVE ChildOK(d)'
    <3>1. CASE d = me
      <4>1. ChildOK(me) BY <1>1, <1>2
      <4>2. Started(d)' => Started(d) BY <2>3, <2>4, <2>5, <3>1 DEF Started
      <4> QED BY <1>3, <2>4, <2>5, <3>1, <4>1, <4>2 DEF ChildOK
    <3>2. CASE d # me
      <4>1. child'[d] = child[d] BY <2>5, <3>2
      <4> QED BY <1>1, <1>3, <4>1 DEF ChildOK, Started
    <3> QED BY <3>1, <3>2
  <2>7. child' = [d \in Drivers |-> child'[d]] BY <2>1 DEF ChildrenOK
  <2>8. dirs' = [dir \in DOMAIN dirs' |-> dirs'[dir]] BY DEF ChildrenOK
  <2> QED BY <2>6, <2>7, <2>8 DEF ChildrenOK
<1> QED BY <1>4, <1>5

(* The driver goes on without a row. *)
LEMMA DriverGoes ==
    ASSUME CampaignInv, NEW pc \in Steps, NEW verified \in Nat, verified <= undos,
           driver' = [driver EXCEPT !.pc = pc, !.verified = verified],
           UNCHANGED <<setting, world, dirs>>, UNCHANGED child \/ EndsOwn,
           pc \notin {"plan", "preflight", "report"},
           pc \in {"spawn", "wait", "term", "after"} => driver.next <= Len(Specs),
           pc = "spawn" => Matrix /\ Known(driver.fingerprint),
           pc \in {"term", "after"} => Matrix,
           pc \in {"wait", "term", "after"} =>
              driver.pc \in {"wait", "term"} /\ UNCHANGED child /\ verified = driver.verified,
           pc = "after" => Mine.at = "ok",
           PromotionIsComparable'
    PROVE  CampaignInv'
<1> USE DEF CampaignInv
<1>1. UNCHANGED <<setting, tree, data, edits, seen, undos, dirs>> BY DEF world
<1>2. /\ driver' \in DriverRecords(driver'.fingerprint, driver'.rows)
      /\ driver'.id = driver.id /\ driver'.pc = pc /\ driver'.next = driver.next
      /\ driver'.hashes = driver.hashes /\ driver'.fingerprint = driver.fingerprint
      /\ driver'.rows = driver.rows /\ driver'.verified = verified
    BY DEF DriverOK, DriverRecords
<1>3. Len(Specs)' = Len(Specs) BY <1>1 DEF Specs, Schedule
<1>4. WorldOK' BY <1>1 DEF WorldOK, Now, Older
<1>5. DriverOK' BY <1>1, <1>2, <1>3 DEF DriverOK, Older
<1>6. ChildrenOK'
  <2>1. driver.id \in Drivers /\ driver'.id >= driver.id
        BY <1>2, BenchmarkAssumption DEF DriverOK, DriverRecords, Drivers, BenchmarkAssumption
  <2> QED BY <1>1, <1>2, <2>1, ChildrenStand
<1>7. RunOK'
  <2>1. Matrix' = Matrix /\ Dir' = Dir BY <1>1, <1>2 DEF Matrix, Dir
  <2>2. Known(driver.fingerprint)' = Known(driver.fingerprint) BY <1>1, <1>2 DEF Known
  <2>3. CASE pc \in {"wait", "term", "after"}
    <3>1. driver.pc \in {"wait", "term"} /\ UNCHANGED child /\ verified = driver.verified
          BY <2>3
    <3>2. Mine' = Mine /\ Measurement(driver.id)' = Measurement(driver.id)
          BY <1>2, <3>1 DEF Mine, Measurement
    <3>3. \A d : Started(d)' = Started(d) BY <3>1 DEF Started
    <3>4. OwnRun BY <3>1 DEF RunOK
    <3>5. Faithful(Mine)' = Faithful(Mine)
          BY <1>1, <1>2, <3>1, <3>2 DEF Faithful, Still, Comparable, Matrix, HasRead
    <3>6. OwnRun' BY <1>1, <1>2, <2>1, <3>1, <3>2, <3>3, <3>4, <3>5 DEF OwnRun
    <3>7. Matrix => Known(driver.fingerprint) BY <3>1 DEF RunOK
    <3> QED BY <1>2, <2>1, <2>2, <3>2, <3>6, <3>7 DEF RunOK
  <2>4. CASE pc \notin {"wait", "term", "after"} BY <1>2, <2>1, <2>2, <2>4 DEF RunOK
  <2> QED BY <2>3, <2>4
<1>8. RowsOK'
  <2>1. ASSUME NEW row, RowOK(row) PROVE RowOK(row)' BY <1>1, <1>2, <2>1 DEF RowOK, Matrix
  <2> QED BY <1>1, <1>2, <2>1 DEF RowsOK, Matrix, AllSucceeded
<1> QED BY <1>4, <1>5, <1>6, <1>7, <1>8

(* The same for a step that does nothing else to the driver. *)
LEMMA DriverGoesTo ==
    ASSUME CampaignInv, NEW pc \in Steps, Goto(pc),
           UNCHANGED <<setting, world, dirs>>, UNCHANGED child \/ EndsOwn,
           pc \notin {"plan", "preflight", "report", "spawn"},
           pc \in {"wait", "term", "after"} =>
              driver.next <= Len(Specs) /\ driver.pc \in {"wait", "term"} /\ UNCHANGED child,
           pc \in {"term", "after"} => Matrix,
           pc = "after" => Mine.at = "ok",
           PromotionIsComparable'
    PROVE  CampaignInv'
<1>1. driver.verified \in Nat /\ driver.verified <= undos
    BY DEF CampaignInv, DriverOK, DriverRecords
<1>2. driver' = [driver EXCEPT !.pc = pc, !.verified = driver.verified]
    BY DEF Goto, CampaignInv, DriverOK, DriverRecords
<1> QED BY <1>1, <1>2, DriverGoes

LEMMA PromotionStands ==
    ASSUME CampaignInv, UNCHANGED setting,
           UNCHANGED summary \/ (summary'.promotes = FALSE)
    PROVE  PromotionIsComparable'
<1>1. CASE UNCHANGED summary
    BY <1>1 DEF CampaignInv, PromotionIsComparable, WholeSchedule, AllSucceeded, Specs, Schedule,
                Matrix, Quiet
<1>2. CASE summary'.promotes = FALSE BY <1>2 DEF PromotionIsComparable
<1> QED BY <1>1, <1>2

(* A run ends with a row, and the driver looks for the next one or breaks.  *)
RowAdded(row, pc) ==
    driver' = [driver EXCEPT !.rows = Append(@, row), !.next = @ + 1, !.pc = pc]

LEMMA DriverEnds ==
    ASSUME CampaignInv, NEW pc \in {"loop", "report"}, NEW row, RowAdded(row, pc),
           UNCHANGED <<setting, world, dirs>>, UNCHANGED child \/ EndsOwn,
           UNCHANGED summary \/ summary'.promotes = FALSE,
           driver.next <= Len(Specs),
           pc = "report" => row.status # "success",
           ~Matrix => row.status = "success",
           RowOK(row)
    PROVE  CampaignInv'
<1> USE DEF CampaignInv
<1> DEFINE more == Append(driver.rows, row)
           after == driver.next + 1
           next == [driver EXCEPT !.rows = more, !.next = after, !.pc = pc]
<1>1. /\ UNCHANGED <<setting, tree, data, edits, seen, undos, dirs>>
      /\ driver' = next
    BY DEF world, RowAdded
<1>2. /\ more \in Seq(Range(more)) /\ Len(more) = Len(driver.rows) + 1
      /\ DOMAIN more = DOMAIN driver.rows \union {Len(driver.rows) + 1}
      /\ \A i \in DOMAIN driver.rows : more[i] = driver.rows[i]
      /\ more[Len(driver.rows) + 1] = row
      /\ Len(driver.rows) \in Nat
    BY RowsGrow DEF DriverOK
<1> HIDE DEF more
<1>3. /\ next \in DriverRecords(next.fingerprint, next.rows)
      /\ next.id = driver.id /\ next.pc = pc /\ next.next = driver.next + 1
      /\ next.hashes = driver.hashes /\ next.fingerprint = driver.fingerprint
      /\ next.rows = more /\ next.verified = driver.verified
  <2>1. driver \in DriverRecords(driver.fingerprint, driver.rows) BY DEF DriverOK
  <2>2. next \in DriverRecords(driver.fingerprint, more)
    <3>1. pc \in Steps BY DEF Steps
    <3>2. after \in Nat \ {0} BY <2>1 DEF DriverRecords
    <3> HIDE DEF after
    <3> QED BY <2>1, <3>1, <3>2 DEF DriverRecords
  <2>3. /\ next.id = driver.id /\ next.pc = pc /\ next.next = driver.next + 1
        /\ next.hashes = driver.hashes /\ next.fingerprint = driver.fingerprint
        /\ next.rows = more /\ next.verified = driver.verified
        BY <2>1 DEF DriverRecords
  <2> QED BY <2>2, <2>3
<1> HIDE DEF next
<1>4. Len(Specs)' = Len(Specs) /\ Len(Specs) \in Nat
    BY <1>1, SpecsAreCounted DEF Specs, Schedule
<1>5. WorldOK' BY <1>1 DEF WorldOK, Now, Older
<1>6. DriverOK'
  <2>1. driver.next \in Nat \ {0} /\ Len(driver.rows) = driver.next - 1
        BY DEF DriverOK, DriverRecords
  <2> QED BY <1>1, <1>2, <1>3, <1>4, <2>1 DEF DriverOK, Older
<1>7. ChildrenOK'
  <2>1. driver.id \in Drivers /\ next.id >= driver.id
        BY <1>3, BenchmarkAssumption DEF DriverOK, DriverRecords, Drivers, BenchmarkAssumption
  <2> QED BY <1>1, <1>3, <2>1, ChildrenStand
<1>8. RunOK' BY <1>1, <1>3 DEF RunOK
<1>9. RowsOK'
  <2> DEFINE n == Len(driver.rows) + 1
  <2>1. /\ driver'.rows = more /\ driver'.fingerprint = driver.fingerprint
        /\ driver'.id = driver.id /\ driver'.hashes = driver.hashes /\ Matrix' = Matrix
        BY <1>1, <1>3 DEF Matrix
  <2>2. ASSUME NEW i \in DOMAIN driver'.rows PROVE RowOK(driver.rows[i])'
    <3>1. RowOK(more[i])
      <4>1. CASE i \in DOMAIN driver.rows BY <1>2, <4>1 DEF RowsOK
      <4>2. CASE i = n BY <1>2, <4>2
      <4> QED BY <1>2, <2>1, <4>1, <4>2
    <3>2. driver'.rows[i] = more[i] BY <2>1
    <3> QED BY <1>1, <2>1, <3>1, <3>2 DEF RowOK
  <2>3. driver'.pc = "report" => ~AllSucceeded(driver'.rows)
    <3>1. n \in DOMAIN more /\ more[n] = row BY <1>2
    <3> QED BY <1>1, <1>3, <2>1, <3>1 DEF AllSucceeded
  <2>4. ~Matrix => AllSucceeded(driver'.rows)
    <3>1. ASSUME ~Matrix, NEW i \in DOMAIN more PROVE more[i].status = "success"
      <4>1. CASE i \in DOMAIN driver.rows BY <1>2, <3>1, <4>1 DEF RowsOK, AllSucceeded
      <4>2. CASE i = n BY <1>2, <3>1, <4>2
      <4> QED BY <1>2, <4>1, <4>2
    <3> QED BY <2>1, <3>1 DEF AllSucceeded
  <2> QED BY <2>1, <2>2, <2>3, <2>4 DEF RowsOK, AllSucceeded
<1>10. PromotionIsComparable' BY <1>1, PromotionStands
<1> QED BY <1>5, <1>6, <1>7, <1>8, <1>9, <1>10

(* The driver has no row yet. *)
LEMMA DriverPrepares ==
    ASSUME CampaignInv, NEW next, driver' = next,
           next \in DriverRecords(next.fingerprint, <<>>), next.next = 1,
           Older(next.hashes), next.verified <= undos,
           next.pc \notin {"spawn", "wait", "term", "after", "report"},
           next.id >= driver.id,
           UNCHANGED <<setting, world, child, dirs>>, PromotionIsComparable'
    PROVE  CampaignInv'
<1> USE DEF CampaignInv
<1>1. UNCHANGED <<setting, tree, data, edits, seen, undos, child, dirs>> BY DEF world
<1>2. driver'.rows = <<>> /\ driver'.id \in Drivers BY DEF DriverRecords
<1>3. WorldOK' BY <1>1 DEF WorldOK, Now, Older
<1>4. DriverOK'
  <2>1. <<>> \in Seq(Range(<<>>)) /\ Len(<<>>) = 0 OBVIOUS
  <2>2. driver'.rows \in Seq(Range(driver'.rows)) /\ Len(driver'.rows) = 0 BY <1>2, <2>1
  <2>3. Len(Specs)' = Len(Specs) /\ Len(Specs) \in Nat
        BY <1>1, SpecsAreCounted DEF Specs, Schedule
  <2>4. driver' \in DriverRecords(driver'.fingerprint, driver'.rows) BY <1>2
  <2>5. Older(driver.hashes)' BY <1>1 DEF Older
  <2> QED BY <1>1, <2>2, <2>3, <2>4, <2>5 DEF DriverOK
<1>5. ChildrenOK' BY <1>1, <1>2, ChildrenStand
<1>6. RunOK' BY DEF RunOK
<1>7. RowsOK' BY <1>2 DEF RowsOK, AllSucceeded
<1> QED BY <1>3, <1>4, <1>5, <1>6, <1>7

(* A child is started in a directory that was not there.                   *)
LEMMA ChildStarts ==
    ASSUME CampaignInv, NEW verified \in Nat, verified <= undos,
           StartChild(verified), Fresh, driver.next <= Len(Specs),
           Matrix => Known(driver.fingerprint)
    PROVE  CampaignInv'
<1> USE DEF CampaignInv
<1> DEFINE me == driver.id
           next == [NoChild EXCEPT !.at = "cases", !.dir = Dir, !.code = {tree}]
<1>1. /\ UNCHANGED <<setting, tree, data, edits, seen, undos, summary>>
      /\ child' = [child EXCEPT ![me] = next]
      /\ dirs' = [dir \in DOMAIN dirs \union {Dir} |->
                     IF dir \in DOMAIN dirs THEN dirs[dir] ELSE None]
      /\ driver' = [driver EXCEPT !.pc = "wait", !.verified = verified]
    BY DEF world, StartChild
<1>2. me \in Drivers /\ tree \in Trees BY DEF DriverOK, DriverRecords, WorldOK
<1>3. /\ next \in ChildRecords(next.dir, next.measured)
      /\ next.at = "cases" /\ next.dir = Dir /\ next.code = {tree}
  <2>1. NoChild \in ChildRecords(None, None) BY DEF NoChild, ChildRecords
  <2>2. next \in ChildRecords(Dir, None) BY <1>2, <2>1 DEF ChildRecords
  <2>3. next.at = "cases" /\ next.dir = Dir /\ next.code = {tree} /\ next.measured = None
        BY <2>1 DEF ChildRecords
  <2> QED BY <2>2, <2>3
<1>4. /\ driver' \in DriverRecords(driver'.fingerprint, driver'.rows)
      /\ driver'.id = driver.id /\ driver'.pc = "wait" /\ driver'.next = driver.next
      /\ driver'.hashes = driver.hashes /\ driver'.fingerprint = driver.fingerprint
      /\ driver'.rows = driver.rows /\ driver'.verified = verified
    BY <1>1 DEF DriverOK, DriverRecords, Steps
<1> HIDE DEF next
<1>5. child'[me] = next /\ \A d \in Drivers \ {me} : child'[d] = child[d]
    BY <1>1, <1>2 DEF ChildrenOK
<1>6. /\ DOMAIN dirs' = DOMAIN dirs \union {Dir}
      /\ dirs' = [dir \in DOMAIN dirs' |-> dirs'[dir]]
    BY <1>1
<1>7. Len(Specs)' = Len(Specs) BY <1>1 DEF Specs, Schedule
<1>8. WorldOK' BY <1>1 DEF WorldOK, Now, Older
<1>9. DriverOK' BY <1>1, <1>4, <1>7 DEF DriverOK, Older
<1>10. ChildrenOK'
  <2>1. ASSUME NEW d \in Drivers PROVE ChildOK(d)'
    <3>1. CASE d = me
      <4>1. d <= driver'.id
            BY <1>2, <1>4, <3>1, BenchmarkAssumption DEF Drivers, BenchmarkAssumption
      <4> QED BY <1>3, <1>5, <1>6, <3>1, <4>1 DEF ChildOK
    <3>2. CASE d # me
      <4>1. ChildOK(d) /\ child'[d] = child[d] BY <1>5, <3>2 DEF ChildrenOK
      <4> QED BY <1>4, <1>6, <4>1 DEF ChildOK, Started
    <3> QED BY <3>1, <3>2
  <2>2. child' = [d \in Drivers |-> child'[d]] BY <1>1 DEF ChildrenOK
  <2> QED BY <1>6, <2>1, <2>2 DEF ChildrenOK
<1>11. RunOK'
  <2>1. /\ Dir' = Dir /\ Mine' = next /\ driver'.pc = "wait" /\ Matrix' = Matrix
        /\ Known(driver.fingerprint)' = Known(driver.fingerprint)
        BY <1>1, <1>4, <1>5 DEF Dir, Mine, Matrix, Known
  <2>2. Started(driver.id)' BY <1>3, <1>4, <1>5 DEF Started
  <2>3. ASSUME NEW d \in Drivers \ {driver.id}, Started(d)' PROVE child'[d].dir # Dir
    <3>1. child'[d] = child[d] /\ ChildOK(d) BY <1>5 DEF ChildrenOK
    <3>2. child[d].dir \in DOMAIN dirs BY <2>3, <3>1 DEF ChildOK, Started
    <3> QED BY <3>1, <3>2 DEF Fresh
  <2>4. Faithful(Mine)' BY <1>1, <1>3, <2>1 DEF Faithful, HasRead
  <2>5. OwnRun' BY <1>3, <1>4, <2>1, <2>2, <2>3, <2>4 DEF OwnRun
  <2> QED BY <2>1, <2>5 DEF RunOK
<1>12. RowsOK'
  <2>1. ASSUME NEW row, RowOK(row) PROVE RowOK(row)' BY <1>1, <1>4, <2>1 DEF RowOK, Matrix
  <2> QED BY <1>1, <1>4, <2>1 DEF RowsOK, Matrix, AllSucceeded
<1>13. PromotionIsComparable' BY <1>1, PromotionStands
<1> QED BY <1>8, <1>9, <1>10, <1>11, <1>12, <1>13

(* What promotes is the whole schedule of a driver; where nothing was put   *)
(* back, on one tree and of the same files.                                *)
LEMMA ReportsAreComparable ==
    ASSUME CampaignInv, UNCHANGED setting, driver.next > Len(Specs),
           AllSucceeded(driver.rows), summary'.rows = driver.rows,
           summary'.driver = driver.id,
           Matrix => summary'.fingerprint = driver.fingerprint
    PROVE  PromotionIsComparable'
<1> USE DEF CampaignInv
<1> DEFINE rows == driver.rows
<1>1. Matrix' = Matrix /\ Specs' = Specs BY DEF Matrix, Specs, Schedule
<1>2. Len(rows) = Len(Specs)
  <2>1. /\ driver.next \in Nat /\ Len(Specs) \in Nat /\ driver.next <= Len(Specs) + 1
        /\ Len(driver.rows) = driver.next - 1
        BY SpecsAreCounted DEF DriverOK, DriverRecords
  <2> QED BY <2>1
<1>3. WholeSchedule(summary.rows)' BY <1>1, <1>2 DEF WholeSchedule, AllSucceeded
<1>4. \A i \in DOMAIN rows : RowOK(rows[i]) /\ rows[i].status = "success"
    BY DEF RowsOK, AllSucceeded
<1>5. \A i \in DOMAIN rows : rows[i].m.by = driver.id BY <1>4 DEF RowOK
<1>6. Matrix => \A i \in Quiet(rows) : rows[i].m.code = {driver.fingerprint}
    BY <1>4 DEF RowOK, Quiet
<1>7. ASSUME setting.source = "repo" \/ ~Matrix, NEW i \in Quiet(rows), NEW j \in Quiet(rows)
      PROVE  rows[i].m.cases = rows[j].m.cases /\ rows[i].m.corpus = rows[j].m.corpus
  <2>1. /\ RowOK(rows[i]) /\ rows[i].status = "success" /\ ~rows[i].undone
        /\ RowOK(rows[j]) /\ rows[j].status = "success" /\ ~rows[j].undone
        BY <1>4 DEF Quiet
  <2>2. CASE ~Matrix BY <2>1, <2>2 DEF RowOK, Holds
  <2>3. CASE Matrix
    <3>1. PICK v \in seen : v.tree = driver.fingerprint /\ Holds(rows[i].m, v.data)
          BY <1>7, <2>1, <2>3 DEF RowOK
    <3>2. PICK w \in seen : w.tree = driver.fingerprint /\ Holds(rows[j].m, w.data)
          BY <1>7, <2>1, <2>3 DEF RowOK
    <3>3. v.data = w.data BY <1>7, <2>3, <3>1, <3>2 DEF WorldOK
    <3> QED BY <3>1, <3>2, <3>3 DEF Holds
  <2> QED BY <2>2, <2>3
<1>8. Quiet(summary.rows)' = Quiet(rows) BY DEF Quiet
<1> QED BY <1>1, <1>3, <1>5, <1>6, <1>7, <1>8 DEF PromotionIsComparable

LEMMA DriverFinishes ==
    ASSUME CampaignInv, FinishMatrix \/ PairedFinish
    PROVE  CampaignInv'
<1> USE DEF CampaignInv
<1>1. UNCHANGED <<setting, world, child, dirs>> BY DEF FinishMatrix, PairedFinish
<1>2. Goto("done") \/ Goto("refused") BY DEF FinishMatrix, PairedFinish
<1>3. PromotionIsComparable'
  <2>1. CASE UNCHANGED summary BY <1>1, <2>1, PromotionStands
  <2>2. CASE FinishMatrix /\ ~UNCHANGED summary
    <3>1. /\ Matrix
          /\ summary'.rows = driver.rows /\ summary'.promotes = Eligible(driver.rows)
          /\ summary'.fingerprint = driver.fingerprint /\ summary'.driver = driver.id
          /\ driver.pc = "report" \/ driver.next > Len(Specs)
          BY <2>2 DEF FinishMatrix, Report, At
    <3>2. CASE Eligible(driver.rows)
      <4>1. AllSucceeded(driver.rows) BY <3>2 DEF Eligible, Complete
      <4>2. driver.next > Len(Specs) BY <3>1, <4>1 DEF RowsOK
      <4> QED BY <1>1, <3>1, <4>1, <4>2, ReportsAreComparable
    <3>3. CASE ~Eligible(driver.rows) BY <3>1, <3>3 DEF PromotionIsComparable
    <3> QED BY <3>2, <3>3
  <2>3. CASE PairedFinish
    <3>1. /\ ~Matrix /\ driver.next > Len(Specs)
          /\ summary'.rows = driver.rows /\ summary'.driver = driver.id
          BY <2>3 DEF PairedFinish, Report
    <3>2. AllSucceeded(driver.rows) BY <3>1 DEF RowsOK
    <3> QED BY <1>1, <3>1, <3>2, ReportsAreComparable
  <2> QED BY <2>1, <2>2, <2>3
<1> QED BY <1>1, <1>2, <1>3, DriverGoesTo DEF Steps

LEMMA DriverSteps == CampaignInv /\ DriverStep => CampaignInv'
<1> SUFFICES ASSUME CampaignInv, DriverStep PROVE CampaignInv' OBVIOUS
<1>1. /\ driver \in DriverRecords(driver.fingerprint, driver.rows)
      /\ Older(driver.hashes) /\ driver.verified <= undos /\ driver.verified \in Nat
      /\ driver.next <= Len(Specs) + 1 /\ Len(driver.rows) = driver.next - 1
      /\ driver.pc \in {"spawn", "wait", "term", "after"} => driver.next <= Len(Specs)
      /\ driver.pc \in {"plan", "preflight"} => driver.next = 1
    BY DEF CampaignInv, DriverOK, DriverRecords
<1>2. tree \in Trees /\ data \in Files /\ undos \in Nat /\ Now \in seen /\ Older(data)
  <2>1. WorldOK BY DEF CampaignInv
  <2>2. Now.data = data BY DEF Now
  <2> QED BY <2>1, <2>2 DEF WorldOK
<1>3. driver.pc \in {"plan", "preflight"} => driver.rows = <<>>
  <2>1. driver.rows \in Seq(Range(driver.rows)) BY DEF CampaignInv, DriverOK
  <2> QED BY <1>1, <2>1, EmptySeq
<1>4. RunOK BY DEF CampaignInv
<1>5. ASSUME NEW pc \in {"loop", "report"}, Ends(Row("failed", None), pc), Matrix,
             UNCHANGED <<setting, world, dirs>>, UNCHANGED child \/ EndsOwn,
             driver.next <= Len(Specs)
      PROVE  CampaignInv'
  <2>1. RowAdded(Row("failed", None), pc) /\ summary'.promotes = FALSE
        BY <1>5 DEF Ends, RowAdded, Report
  <2>2. Row("failed", None).status = "failed" BY DEF Row
  <2>3. RowOK(Row("failed", None)) BY <2>2 DEF RowOK
  <2> QED BY <1>5, <2>1, <2>2, <2>3, DriverEnds
<1>6. CASE Plan
  <2>1. UNCHANGED <<setting, world, child, dirs, summary>> /\ At("plan") BY <1>6 DEF Plan
  <2>2. PromotionIsComparable' BY <2>1, PromotionStands
  <2>3. CASE Goto("refused") BY <2>1, <2>2, <2>3, DriverGoesTo DEF Steps
  <2>4. CASE driver' = [driver EXCEPT !.hashes = data,
                                      !.pc = IF Matrix THEN "preflight" ELSE "loop"]
    <3> DEFINE pc == IF Matrix THEN "preflight" ELSE "loop"
               next == [driver EXCEPT !.hashes = data, !.pc = pc]
    <3>1. pc \in {"preflight", "loop"} OBVIOUS
    <3>2. driver.next = 1 /\ driver.rows = <<>> BY <1>1, <1>3, <2>1 DEF At
    <3> HIDE DEF pc
    <3>3. /\ next \in DriverRecords(driver.fingerprint, <<>>)
          /\ next.fingerprint = driver.fingerprint /\ next.next = 1 /\ next.pc = pc
          /\ next.id = driver.id /\ next.hashes = data /\ next.verified = driver.verified
      <4>1. driver \in DriverRecords(driver.fingerprint, <<>>) BY <1>1, <3>2
      <4> QED BY <1>2, <3>1, <3>2, <4>1 DEF DriverRecords, Steps
    <3>4. driver' = next BY <2>4 DEF pc
    <3> HIDE DEF next
    <3>5. next.id >= driver.id
          BY <1>1, <3>3, BenchmarkAssumption DEF DriverRecords, Drivers, BenchmarkAssumption
    <3> QED BY <1>1, <1>2, <2>1, <2>2, <3>1, <3>3, <3>4, <3>5, DriverPrepares
  <2> QED BY <1>6, <2>3, <2>4 DEF Plan
<1>7. CASE Preflight
  <2>1. PICK f \in {Fingerprint, None}, status \in {"running", "unavailable"} :
          /\ driver' = [driver EXCEPT !.fingerprint = f,
                                      !.pc = IF status = "running" THEN "loop" ELSE "done"]
          /\ summary' = [Report(status, <<>>, FALSE) EXCEPT !.fingerprint = f]
        BY <1>7 DEF Preflight
  <2>2. UNCHANGED <<setting, world, child, dirs>> /\ At("preflight") BY <1>7 DEF Preflight
  <2>3. summary'.promotes = FALSE BY <2>1 DEF Report
  <2>4. PromotionIsComparable' BY <2>2, <2>3, PromotionStands
  <2> DEFINE pc == IF status = "running" THEN "loop" ELSE "done"
             next == [driver EXCEPT !.fingerprint = f, !.pc = pc]
  <2>5. pc \in {"loop", "done"} OBVIOUS
  <2>6. driver.next = 1 /\ driver.rows = <<>> BY <1>1, <1>3, <2>2 DEF At
  <2>7. driver' = next BY <2>1
  <2> HIDE DEF pc
  <2>8. /\ next \in DriverRecords(f, <<>>) /\ next.fingerprint = f /\ next.next = 1
        /\ next.pc = pc /\ next.id = driver.id /\ next.hashes = driver.hashes
        /\ next.verified = driver.verified
    <3>1. driver \in DriverRecords(driver.fingerprint, <<>>) BY <1>1, <2>6
    <3> QED BY <2>5, <2>6, <3>1 DEF DriverRecords, Steps
  <2> HIDE DEF next
  <2>9. next.id >= driver.id
        BY <1>1, <2>8, BenchmarkAssumption DEF DriverRecords, Drivers, BenchmarkAssumption
  <2> QED BY <1>1, <2>2, <2>4, <2>5, <2>7, <2>8, <2>9, DriverPrepares
<1>8. CASE NextRun
  <2>1. /\ Matrix /\ At("loop") /\ driver.next <= Len(Specs)
        /\ UNCHANGED <<setting, world, child, dirs>>
        BY <1>8 DEF NextRun
  <2>2. CASE /\ Unchanged
             /\ driver' = [driver EXCEPT !.pc = "spawn", !.verified = undos]
             /\ UNCHANGED summary
    <3>1. Known(driver.fingerprint) BY <1>2, <2>2 DEF Unchanged, Fingerprint, Known, Now
    <3>2. PromotionIsComparable' BY <2>1, <2>2, PromotionStands
    <3>3. undos <= undos BY <1>2
    <3> QED BY <1>2, <2>1, <2>2, <3>1, <3>2, <3>3, DriverGoes DEF Steps
  <2>3. CASE Ends(Row("failed", None), "report") BY <1>5, <2>1, <2>3
  <2> QED BY <1>8, <2>2, <2>3 DEF NextRun
<1>9. CASE Spawn
  <2>1. driver.pc = "spawn" /\ Fresh /\ StartChild(driver.verified) BY <1>9 DEF Spawn, At
  <2>2. Matrix => Known(driver.fingerprint) BY <1>4, <2>1 DEF RunOK
  <2> QED BY <1>1, <2>1, <2>2, ChildStarts
<1>10. CASE SpawnRefused
  <2>1. driver.pc = "spawn" /\ Matrix BY <1>4, <1>10 DEF SpawnRefused, At, RunOK
  <2> QED BY <1>1, <1>5, <1>10, <2>1 DEF SpawnRefused
<1>11. CASE Expire
  <2>1. /\ Matrix /\ driver.pc = "wait" /\ Goto("term")
        /\ UNCHANGED <<setting, world, child, dirs, summary>>
        BY <1>11 DEF Expire, At
  <2>2. PromotionIsComparable' BY <2>1, PromotionStands
  <2> QED BY <1>1, <2>1, <2>2, DriverGoesTo DEF Steps
<1>12. CASE Reap
  <2>1. driver.pc = "term" /\ Matrix BY <1>4, <1>12 DEF Reap, At, RunOK
  <2> QED BY <1>1, <1>5, <1>12, <2>1 DEF Reap, EndsOwn
<1>13. CASE Collect
  <2>1. Matrix /\ driver.pc = "wait" /\ UNCHANGED <<setting, world, child, dirs>>
        BY <1>13 DEF Collect, At
  <2>2. CASE Accepted /\ Goto("after") /\ UNCHANGED summary
    <3>1. PromotionIsComparable' BY <2>1, <2>2, PromotionStands
    <3>2. Mine.at = "ok" BY <2>2 DEF Accepted
    <3> QED BY <1>1, <2>1, <2>2, <3>1, <3>2, DriverGoesTo DEF Steps
  <2>3. CASE Ends(Row("failed", None), "loop") BY <1>1, <1>5, <2>1, <2>3
  <2> QED BY <1>13, <2>2, <2>3 DEF Collect
<1>14. ASSUME OwnRun, Mine.at = "ok", Comparable
       PROVE  RowOK(Row("success", dirs[Dir]))
  <2>1. /\ dirs[Dir] = Measurement(driver.id) /\ Faithful(Mine) BY <1>14 DEF OwnRun
  <2> DEFINE row == Row("success", dirs[Dir])
  <2>2. /\ row.m = dirs[Dir] /\ row.status = "success"
        /\ row.undone = (undos # driver.verified)
        BY DEF Row
  <2>3. /\ row.m.by = driver.id /\ row.m.code = Mine.code
        /\ row.m.cases = Mine.cases /\ row.m.corpus = Mine.corpus
        BY <2>1, <2>2 DEF Measurement, Mine
  <2> HIDE DEF row
  <2>4. ASSUME ~row.undone
        PROVE  /\ Matrix => row.m.code = {driver.fingerprint} /\ tree = driver.fingerprint
               /\ setting.source = "repo" \/ ~Matrix => Holds(row.m, data)
               /\ ~Matrix => data = driver.hashes
    <3>1. /\ Matrix => Mine.code = {tree}
          /\ setting.source = "repo" \/ ~Matrix => HasRead(Mine)
          BY <1>14, <2>1, <2>2, <2>4 DEF Faithful, Still
    <3> QED BY <1>14, <2>3, <3>1 DEF HasRead, Holds, Comparable
  <2>5. ASSUME ~row.undone, Matrix, setting.source = "repo"
        PROVE  \E w \in seen : w.tree = driver.fingerprint /\ Holds(row.m, w.data)
    <3>1. Now.tree = tree /\ Now.data = data BY DEF Now
    <3> QED BY <1>2, <2>4, <2>5, <3>1
  <2>6. RowOK(row) BY <2>3, <2>4, <2>5 DEF RowOK
  <2> QED BY <2>6 DEF row
<1>15. CASE After
  <2>1. driver.pc = "after" /\ UNCHANGED <<setting, world, child, dirs>> BY <1>15 DEF After, At
  <2>2. OwnRun /\ Mine.at = "ok" BY <1>4, <2>1 DEF RunOK
  <2>3. Matrix BY <1>4, <2>1 DEF RunOK
  <2>4. CASE Unchanged /\ Ends(Row("success", dirs[Dir]), "loop")
    <3>1. /\ RowAdded(Row("success", dirs[Dir]), "loop") /\ summary'.promotes = FALSE
          BY <2>4 DEF Ends, RowAdded, Report
    <3>2. Comparable BY <2>3, <2>4 DEF Comparable, Unchanged, Fingerprint
    <3>3. RowOK(Row("success", dirs[Dir])) BY <1>14, <2>2, <3>2
    <3> QED BY <1>1, <2>1, <2>3, <3>1, <3>3, DriverEnds
  <2>5. CASE Ends(Row("failed", None), "report") BY <1>1, <1>5, <2>1, <2>3, <2>5
  <2> QED BY <1>15, <2>4, <2>5 DEF After
<1>16. CASE FinishMatrix BY <1>16, DriverFinishes
<1>17. CASE PairedSpawn
  <2>1. /\ ~Matrix /\ driver.next <= Len(Specs) /\ Fresh /\ StartChild(undos)
        BY <1>17 DEF PairedSpawn
  <2>2. undos <= undos BY <1>2
  <2> QED BY <1>2, <2>1, <2>2, ChildStarts
<1>18. CASE PairedCollect
  <2>1. /\ ~Matrix /\ driver.pc = "wait" /\ UNCHANGED <<setting, world, child, dirs, summary>>
        /\ SameFiles /\ Mine.at = "ok"
        /\ RowAdded(Row("success", dirs[Dir]), "loop")
        BY <1>18 DEF PairedCollect, At, RowAdded, Accepted
  <2>2. OwnRun BY <1>4, <2>1 DEF RunOK
  <2>3. Comparable BY <2>1 DEF Comparable, SameFiles
  <2>4. RowOK(Row("success", dirs[Dir])) BY <1>14, <2>1, <2>2, <2>3
  <2>5. Row("success", dirs[Dir]).status = "success" BY DEF Row
  <2> QED BY <1>1, <2>1, <2>4, <2>5, DriverEnds
<1>19. CASE PairedRaises
  <2>1. /\ Goto("refused") /\ UNCHANGED <<setting, world, child, dirs, summary>>
        BY <1>19 DEF PairedRaises
  <2>2. PromotionIsComparable' BY <2>1, PromotionStands
  <2> QED BY <2>1, <2>2, DriverGoesTo DEF Steps
<1>20. CASE PairedFinish BY <1>20, DriverFinishes
<1> QED BY <1>6, <1>7, <1>8, <1>9, <1>10, <1>11, <1>12, <1>13, <1>15, <1>16, <1>17,
           <1>18, <1>19, <1>20 DEF DriverStep

LEMMA CampaignStep == CampaignInv /\ [Next]_vars => CampaignInv'
<1> SUFFICES ASSUME CampaignInv, [Next]_vars PROVE CampaignInv' OBVIOUS
<1>1. CASE Edit BY <1>1, EditStep
<1>2. CASE PutBack BY <1>2, PutBackStep
<1>3. CASE \E d \in Drivers : ChildStep(d) \/ ChildFails(d) BY <1>3, ChildSteps
<1>4. CASE DriverStep BY <1>4, DriverSteps
<1>5. CASE DriverKilled
  <2>1. Goto("dead") /\ UNCHANGED <<setting, world, child, dirs, summary>>
        BY <1>5 DEF DriverKilled
  <2>2. PromotionIsComparable' BY <2>1, PromotionStands
  <2> QED BY <2>1, <2>2, DriverGoesTo DEF Steps
<1>6. CASE DriverInterrupted
  <2>1. Goto("dead") /\ EndsOwn /\ UNCHANGED <<setting, world, dirs, summary>>
        BY <1>6 DEF DriverInterrupted, EndsOwn
  <2>2. PromotionIsComparable' BY <2>1, PromotionStands
  <2> QED BY <2>1, <2>2, DriverGoesTo DEF Steps
<1>7. CASE Again
  <2> DEFINE next == NewDriver(driver.id + 1)
  <2>1. /\ driver' = next /\ MoreEvents
        /\ UNCHANGED <<setting, world, child, dirs, summary>>
        BY <1>7 DEF Again
  <2>2. /\ driver.id \in Drivers /\ edits \in Nat /\ data \in Files /\ undos \in Nat
        /\ Older(data)
    <3>1. Now \in seen /\ Now.data = data BY DEF CampaignInv, WorldOK, Now
    <3> QED BY <3>1 DEF CampaignInv, DriverOK, DriverRecords, WorldOK
  <2>3. driver.id + 1 \in Drivers /\ driver.id + 1 >= driver.id
        BY <2>1, <2>2, BenchmarkAssumption DEF MoreEvents, Drivers, BenchmarkAssumption
  <2>4. next \in DriverRecords(None, <<>>) BY <2>2, <2>3 DEF NewDriver, DriverRecords, Steps
  <2>5. /\ next.fingerprint = None /\ next.next = 1 /\ next.pc = "plan"
        /\ next.id = driver.id + 1 /\ next.hashes = data /\ next.verified = 0
        BY DEF NewDriver
  <2>6. PromotionIsComparable' BY <2>1, PromotionStands
  <2>7. 0 <= undos BY <2>2
  <2> HIDE DEF next
  <2> QED BY <2>1, <2>2, <2>3, <2>4, <2>5, <2>6, <2>7, DriverPrepares
<1>8. CASE UNCHANGED vars
  <2>1. /\ UNCHANGED <<setting, tree, data, edits, seen, undos, driver, child, dirs, summary>>
        BY <1>8 DEF vars
  <2>2. WorldOK' BY <2>1 DEF CampaignInv, WorldOK, Now, Older
  <2>3. edits \in Nat BY DEF CampaignInv, WorldOK
  <2>4. /\ UNCHANGED <<setting, driver, child, dirs, summary>> /\ edits' >= edits
        /\ seen \subseteq seen' /\ undos' = undos
        /\ tree' = tree /\ data' = data
        BY <2>1, <2>3
  <2> QED BY <2>2, <2>4, WorldMoves
<1> QED BY <1>1, <1>2, <1>3, <1>4, <1>5, <1>6, <1>7, <1>8 DEF Next

(* The inductive invariant of the campaigns: everything seen has a number    *)
(* of its own; what the driver finds as it was before a run has been so all  *)
(* the while, unless something was put back, and is what its child imported *)
(* and read; nobody but that child writes the directory it looks at.       *)
THEOREM CampaignInvariant == Spec => []CampaignInv
BY CampaignBegins, CampaignStep, PTL DEF Spec

(* For any variants, edits, commits, restores, restarts and orphaned          *)
(* children: what promotes was measured for the whole schedule by the own    *)
(* children of one driver, and, in the runs during which nothing was put     *)
(* back, on one working tree and the same files (run_benchmark_matrix.py,    *)
(* run_paired_benchmark.py).                                               *)
THEOREM PromotionsAreComparable == Spec => []PromotionIsComparable
<1>1. CampaignInv => PromotionIsComparable BY DEF CampaignInv
<1> QED BY <1>1, CampaignInvariant, PTL

-----------------------------------------------------------------------------
(***************************************************************************)
(* GoldenDataset                                                           *)
(***************************************************************************)
PoolStates == {"none", "corrected", "rated", "discarded", "promoted"}

(* A promotion under way has its candidate and the id it is to get; what    *)
(* it has read matters once it may write.                                  *)
CuratorOK(p) ==
    LET me == curator[p] IN
    /\ me \in [at : {"idle", "read", "open", "dump", "unlink"}, candidate : {me.candidate},
               id : {me.id}, cases : {me.cases}]
    /\ me.at # "idle" => me.candidate \in Candidates /\ me.id \in {me.candidate, TakenId}

DatasetTypeOK ==
    /\ pool \in [Candidates -> PoolStates]
    /\ golden \in [whole : BOOLEAN, cases : {golden.cases}]
    /\ curator = [p \in Curators |-> curator[p]]
    /\ \A p \in Curators : CuratorOK(p)
    /\ overlapped \in BOOLEAN
    /\ dropped \subseteq Candidates

(* Who writes found the file as it still is and no case under its id; who   *)
(* is about to remove its candidate sees to it that its case is there.     *)
WritesOK(p) ==
    LET me == curator[p] IN
    /\ me.at = "dump" =>
          /\ golden.cases = me.cases
          /\ \A q \in Curators \ {p} : curator[q].at # "dump"
    /\ me.at \in {"open", "dump"} => me.id \notin DOMAIN me.cases
    /\ me.at = "unlink" /\ me.id # TakenId => me.id \in DOMAIN golden.cases

Kept ==
    /\ \A c \in Candidates :
          /\ c \in DOMAIN golden.cases => golden.cases[c] = c
          /\ pool[c] = "promoted" /\ c \notin dropped => c \in DOMAIN golden.cases
    /\ TakenId \in DOMAIN golden.cases
    /\ \A p \in Curators : WritesOK(p)

DatasetInv == DatasetTypeOK /\ (overlapped \/ Kept)

LEMMA DatasetBegins == DatasetInit => DatasetInv
<1> SUFFICES ASSUME DatasetInit PROVE DatasetInv OBVIOUS
<1> USE DEF DatasetInit
<1>1. \A p \in Curators : curator[p] = NoCurator OBVIOUS
<1>2. \A p \in Curators : CuratorOK(p) /\ WritesOK(p)
    BY <1>1 DEF CuratorOK, WritesOK, NoCurator
<1>3. DatasetTypeOK BY <1>2 DEF DatasetTypeOK, PoolStates
<1>4. Kept BY <1>2, DatasetAssumption DEF Kept, DatasetAssumption
<1> QED BY <1>3, <1>4 DEF DatasetInv

(* A step of one promotion that leaves the pool and the file alone.        *)
LEMMA OneCurator ==
    ASSUME DatasetInv, NEW p \in Curators, NEW me, curator' = [curator EXCEPT ![p] = me],
           UNCHANGED <<pool, golden, overlapped, dropped>>, me.at # "dump",
           CuratorOK(p)', overlapped \/ WritesOK(p)'
    PROVE  DatasetInv'
<1>1. curator'[p] = me /\ \A q \in Curators \ {p} : curator'[q] = curator[q]
    BY DEF DatasetInv, DatasetTypeOK
<1>2. curator' = [q \in Curators |-> curator'[q]] BY DEF DatasetInv, DatasetTypeOK
<1>3. \A q \in Curators : CuratorOK(q)'
    BY <1>1 DEF DatasetInv, DatasetTypeOK, CuratorOK
<1>4. DatasetTypeOK' BY <1>2, <1>3 DEF DatasetInv, DatasetTypeOK
<1>5. ASSUME ~overlapped PROVE Kept'
  <2>1. Kept BY <1>5 DEF DatasetInv
  <2>2. \A q \in Curators : WritesOK(q)'
    <3> SUFFICES ASSUME NEW q \in Curators \ {p} PROVE WritesOK(q)' BY <1>5
    <3>1. WritesOK(q) BY <2>1 DEF Kept
    <3>2. curator'[q] = curator[q] /\ golden' = golden BY <1>1
    <3>3. \A o \in Curators : curator'[o].at = "dump" => curator[o].at = "dump" BY <1>1
    <3> QED BY <3>1, <3>2, <3>3 DEF WritesOK
  <2> QED BY <2>1, <2>2 DEF Kept
<1> QED BY <1>4, <1>5 DEF DatasetInv

LEMMA DatasetStep == DatasetInv /\ [DatasetNext]_datasetVars => DatasetInv'
<1> SUFFICES ASSUME DatasetInv, [DatasetNext]_datasetVars PROVE DatasetInv' OBVIOUS
<1> USE DatasetAssumption DEF DatasetAssumption
<1>1. CASE \E c \in Candidates : Propose(c) \/ Discard(c)
  <2>1. PICK c \in Candidates : Propose(c) \/ Discard(c) BY <1>1
  <2>2. UNCHANGED <<golden, curator, deaths, overlapped, dropped>>
        BY <2>1 DEF Propose, Discard
  <2>3. PICK state \in {"corrected", "rated", "discarded"} :
            pool' = [pool EXCEPT ![c] = state]
        BY <2>1 DEF Propose, Discard, Pooled
  <2>4. pool' \in [Candidates -> PoolStates]
        /\ \A o \in Candidates : pool'[o] = "promoted" => pool[o] = "promoted"
        BY <2>3 DEF DatasetInv, DatasetTypeOK, PoolStates
  <2>5. DatasetTypeOK'
        BY <2>2, <2>4 DEF DatasetInv, DatasetTypeOK, CuratorOK
  <2>6. Kept => Kept'
        BY <2>2, <2>4 DEF Kept, WritesOK
  <2> QED BY <2>2, <2>5, <2>6 DEF DatasetInv
<1>2. CASE \E p \in Curators : Curate(p)
  <2>1. PICK p \in Curators : Curate(p) BY <1>2
  <2> DEFINE me == curator[p]
  <2>2. CuratorOK(p) /\ (overlapped \/ WritesOK(p)) /\ curator = [q \in Curators |-> curator[q]]
        BY DEF DatasetInv, DatasetTypeOK, Kept
  <2>3. me \in [at : {"idle", "read", "open", "dump", "unlink"}, candidate : {me.candidate},
                id : {me.id}, cases : {me.cases}]
        BY <2>2 DEF CuratorOK
  <2>4. CASE StartPromotion(p)
    <3>1. PICK c \in Candidates, id \in Candidates \union {TakenId} :
           /\ id \in {c, TakenId}
           /\ curator' = [curator EXCEPT ![p] = [NoCurator EXCEPT !.at = "read",
                                                        !.candidate = c, !.id = id]]
          BY <2>4 DEF StartPromotion, CuratorGoes
    <3> DEFINE next == [NoCurator EXCEPT !.at = "read", !.candidate = c, !.id = id]
    <3>2. NoCurator \in [at : {"idle"}, candidate : {Nothing}, id : {Nothing}, cases : {Nothing}]
          BY DEF NoCurator
    <3>3. /\ next.at = "read" /\ next.candidate = c /\ next.id = id
          /\ next \in [at : {"idle", "read", "open", "dump", "unlink"},
                       candidate : {next.candidate}, id : {next.id}, cases : {next.cases}]
          BY <3>2
    <3> HIDE DEF next
    <3>4. curator' = [curator EXCEPT ![p] = next] BY <3>1 DEF next
    <3>5. curator'[p] = next BY <2>2, <3>4
    <3>6. CuratorOK(p)' BY <3>1, <3>3, <3>5 DEF CuratorOK
    <3>7. WritesOK(p)' BY <3>3, <3>5 DEF WritesOK
    <3> QED BY <2>4, <3>3, <3>4, <3>6, <3>7, OneCurator DEF StartPromotion
  <2>5. CASE ReadDataset(p)
    <3>0. me.at = "read" BY <2>5 DEF ReadDataset
    <3>1. CASE \E cases \in Readings(golden) :
             CuratorGoes(p, [curator[p] EXCEPT !.cases = cases,
                 !.at = IF curator[p].id \in DOMAIN cases THEN "unlink" ELSE "open"])
      <4>1. PICK cases \in Readings(golden) :
              curator' = [curator EXCEPT ![p] = [curator[p] EXCEPT !.cases = cases,
                 !.at = IF curator[p].id \in DOMAIN cases THEN "unlink" ELSE "open"]]
            BY <3>1 DEF CuratorGoes
      <4>2. DOMAIN cases \subseteq DOMAIN golden.cases BY DEF Readings
      <4> DEFINE at == IF me.id \in DOMAIN cases THEN "unlink" ELSE "open"
                 next == [me EXCEPT !.cases = cases, !.at = at]
      <4>3. curator' = [curator EXCEPT ![p] = next] BY <4>1
      <4>4. curator'[p] = next BY <2>2, <4>3
      <4>5. at \in {"unlink", "open"} OBVIOUS
      <4>6. /\ next.at = at /\ next.cases = cases /\ next.id = me.id
            /\ next.candidate = me.candidate
            /\ next \in [at : {"idle", "read", "open", "dump", "unlink"},
                         candidate : {next.candidate}, id : {next.id}, cases : {next.cases}]
        <5> HIDE DEF at
        <5> QED BY <2>3, <4>5
      <4> HIDE DEF next
      <4>7. CuratorOK(p)' BY <2>2, <3>0, <4>4, <4>6 DEF CuratorOK
      <4>8. golden' = golden BY <2>5 DEF ReadDataset
      <4>9. WritesOK(p)' BY <4>2, <4>4, <4>6, <4>8 DEF WritesOK
      <4>10. next.at # "dump" BY <4>6
      <4> QED BY <2>5, <4>3, <4>7, <4>9, <4>10, OneCurator DEF ReadDataset
    <3>2. CASE CuratorGoes(p, [curator[p] EXCEPT !.at = "idle"])
      <4> DEFINE next == [me EXCEPT !.at = "idle"]
      <4>1. curator' = [curator EXCEPT ![p] = next] BY <3>2 DEF CuratorGoes
      <4>2. curator'[p] = next BY <2>2, <4>1
      <4>3. CuratorOK(p)' /\ WritesOK(p)' BY <2>3, <4>2 DEF CuratorOK, WritesOK
      <4>4. next.at # "dump" BY <2>3
      <4> HIDE DEF next
      <4> QED BY <2>5, <4>1, <4>3, <4>4, OneCurator DEF ReadDataset
    <3> QED BY <2>5, <3>1, <3>2 DEF ReadDataset
  <2>6. CASE Truncate(p)
    <3> DEFINE next == [me EXCEPT !.at = "dump"]
    <3>1. /\ me.at = "open" /\ UNCHANGED <<pool, dropped>>
          /\ golden' = [golden EXCEPT !.whole = FALSE]
          /\ overlapped' = (overlapped \/ golden.cases # me.cases
                                       \/ \E q \in Curators \ {p} : Writing(q))
          /\ curator' = [curator EXCEPT ![p] = next]
          BY <2>6 DEF Truncate, CuratorGoes
    <3>2. curator'[p] = next /\ \A q \in Curators \ {p} : curator'[q] = curator[q]
          BY <2>2, <3>1
    <3>3. /\ next.at = "dump" /\ next.cases = me.cases /\ next.id = me.id
          /\ next.candidate = me.candidate
          /\ next \in [at : {"idle", "read", "open", "dump", "unlink"},
                       candidate : {next.candidate}, id : {next.id}, cases : {next.cases}]
          BY <2>3
    <3> HIDE DEF next
    <3>4. golden'.cases = golden.cases /\ golden' \in [whole : BOOLEAN, cases : {golden'.cases}]
          BY <3>1 DEF DatasetInv, DatasetTypeOK
    <3>5. \A q \in Curators : CuratorOK(q)'
          BY <2>2, <3>1, <3>2, <3>3 DEF CuratorOK, DatasetInv, DatasetTypeOK
    <3>6. overlapped' \in BOOLEAN BY <3>1, Zenon
    <3>6a. curator' = [q \in Curators |-> curator'[q]] BY <2>2, <3>1
    <3>7. DatasetTypeOK' BY <3>1, <3>4, <3>5, <3>6, <3>6a DEF DatasetInv, DatasetTypeOK
    <3>8. ASSUME ~overlapped' PROVE Kept'
      <4>1. /\ Kept /\ golden.cases = me.cases
            /\ \A q \in Curators \ {p} : ~Writing(q)
            BY <3>1, <3>8 DEF DatasetInv
      <4>2. WritesOK(p)'
        <5>1. \A q \in Curators \ {p} : curator'[q].at # "dump" BY <3>2, <4>1 DEF Writing
        <5>2. me.id \notin DOMAIN me.cases BY <3>1, <4>1 DEF Kept, WritesOK
        <5> QED BY <3>2, <3>3, <3>4, <4>1, <5>1, <5>2 DEF WritesOK
      <4>3. ASSUME NEW q \in Curators \ {p} PROVE WritesOK(q)'
        <5>1. curator'[q] = curator[q] /\ curator[q].at \notin {"open", "dump"}
              BY <3>2, <4>1 DEF Writing
        <5>2. WritesOK(q) BY <4>1 DEF Kept
        <5> QED BY <3>4, <5>1, <5>2 DEF WritesOK
      <4>4. \A q \in Curators : WritesOK(q)' BY <4>2, <4>3
      <4> QED BY <3>1, <3>4, <4>1, <4>4 DEF Kept
    <3> QED BY <3>7, <3>8 DEF DatasetInv
  <2>7. CASE Dump(p)
    <3> DEFINE next == [me EXCEPT !.at = "unlink"]
    <3>0. PICK whole \in {TRUE} \union {curator[q].at # "dump" : q \in Curators \ {p}} :
            golden' = [whole |-> whole, cases |-> Written(p)]
          BY <2>7 DEF Dump
    <3>1. /\ me.at = "dump" /\ UNCHANGED <<pool, overlapped, dropped>>
          /\ curator' = [curator EXCEPT ![p] = next]
          BY <2>7 DEF Dump, CuratorGoes
    <3>2. curator'[p] = next /\ \A q \in Curators \ {p} : curator'[q] = curator[q]
          BY <2>2, <3>1
    <3>3. /\ next.at = "unlink" /\ next.cases = me.cases /\ next.id = me.id
          /\ next.candidate = me.candidate
          /\ next \in [at : {"idle", "read", "open", "dump", "unlink"},
                       candidate : {next.candidate}, id : {next.id}, cases : {next.cases}]
          BY <2>3
    <3> HIDE DEF next
    <3>4. golden'.cases = Written(p) /\ golden' \in [whole : BOOLEAN, cases : {golden'.cases}]
      <4>1. whole \in BOOLEAN BY Zenon
      <4> QED BY <3>0, <4>1
    <3>5. \A q \in Curators : CuratorOK(q)'
          BY <2>2, <3>1, <3>2, <3>3 DEF CuratorOK, DatasetInv, DatasetTypeOK
    <3>6. curator' = [q \in Curators |-> curator'[q]] BY <2>2, <3>1
    <3>7. DatasetTypeOK' BY <3>1, <3>4, <3>5, <3>6 DEF DatasetInv, DatasetTypeOK
    <3>8. ASSUME ~overlapped PROVE Kept'
      <4>1. Kept BY <3>8 DEF DatasetInv
      <4>2. /\ golden.cases = me.cases /\ me.id \notin DOMAIN me.cases
            /\ \A q \in Curators \ {p} : curator[q].at # "dump"
            BY <3>1, <4>1 DEF Kept, WritesOK
      <4>3. me.candidate \in Candidates /\ me.id \in {me.candidate, TakenId}
            BY <2>2, <3>1 DEF CuratorOK
      <4>4. me.id = me.candidate BY <4>1, <4>2, <4>3 DEF Kept
      <4>5. /\ DOMAIN golden'.cases = DOMAIN golden.cases \union {me.id}
            /\ golden'.cases[me.id] = me.candidate
            /\ \A id \in DOMAIN golden.cases : golden'.cases[id] = golden.cases[id]
            BY <3>4, <4>2 DEF Written
      <4>6. /\ \A c \in Candidates :
                  /\ c \in DOMAIN golden'.cases => golden'.cases[c] = c
                  /\ pool'[c] = "promoted" /\ c \notin dropped' => c \in DOMAIN golden'.cases
            /\ TakenId \in DOMAIN golden'.cases
            BY <3>1, <4>1, <4>4, <4>5 DEF Kept
      <4>7. WritesOK(p)' BY <3>2, <3>3, <4>5 DEF WritesOK
      <4>8. ASSUME NEW q \in Curators \ {p} PROVE WritesOK(q)'
        <5>1. curator'[q] = curator[q] /\ curator[q].at # "dump" BY <3>2, <4>2
        <5>2. WritesOK(q) BY <4>1 DEF Kept
        <5> QED BY <4>5, <5>1, <5>2 DEF WritesOK
      <4>9. \A q \in Curators : WritesOK(q)' BY <4>7, <4>8
      <4> QED BY <4>6, <4>9 DEF Kept
    <3> QED BY <3>1, <3>7, <3>8 DEF DatasetInv
  <2>8. CASE Unlink(p)
    <3> DEFINE next == [me EXCEPT !.at = "idle"]
               c == me.candidate
    <3>1. /\ me.at = "unlink" /\ UNCHANGED <<golden, overlapped>>
          /\ pool' = [pool EXCEPT ![c] = IF pool[c] \in Pooled THEN "promoted" ELSE pool[c]]
          /\ dropped' = IF me.id = TakenId THEN dropped \union {c} ELSE dropped
          /\ curator' = [curator EXCEPT ![p] = next]
          BY <2>8 DEF Unlink, CuratorGoes
    <3>2. curator'[p] = next /\ \A q \in Curators \ {p} : curator'[q] = curator[q]
          BY <2>2, <3>1
    <3>3. /\ next.at = "idle"
          /\ next \in [at : {"idle", "read", "open", "dump", "unlink"},
                       candidate : {next.candidate}, id : {next.id}, cases : {next.cases}]
          BY <2>3
    <3> HIDE DEF next
    <3>4. c \in Candidates /\ me.id \in {c, TakenId} BY <2>2, <3>1 DEF CuratorOK
    <3> HIDE DEF c
    <3>5. \A q \in Curators : CuratorOK(q)'
          BY <2>2, <3>1, <3>2, <3>3 DEF CuratorOK, DatasetInv, DatasetTypeOK
    <3>6. curator' = [q \in Curators |-> curator'[q]] BY <2>2, <3>1
    <3>7. DatasetTypeOK'
      <4>1. pool' \in [Candidates -> PoolStates] /\ dropped' \subseteq Candidates
            BY <3>1, <3>4 DEF DatasetInv, DatasetTypeOK, PoolStates
      <4> QED BY <3>1, <3>5, <3>6, <4>1 DEF DatasetInv, DatasetTypeOK
    <3>8. ASSUME ~overlapped PROVE Kept'
      <4>1. Kept BY <3>8 DEF DatasetInv
      <4>2. me.id # TakenId => c \in DOMAIN golden.cases
            BY <3>1, <3>4, <4>1 DEF Kept, WritesOK
      <4>3. ASSUME NEW o \in Candidates, pool'[o] = "promoted", o \notin dropped'
            PROVE  o \in DOMAIN golden.cases
        <5>1. o \notin dropped /\ (o = c => me.id # TakenId) BY <3>1, <4>3
        <5>2. CASE o = c BY <4>2, <5>1, <5>2
        <5>3. CASE o # c
          <6>1. pool[o] = "promoted" BY <3>1, <4>3, <5>3 DEF DatasetInv, DatasetTypeOK
          <6> QED BY <4>1, <5>1, <6>1 DEF Kept
        <5> QED BY <5>2, <5>3
      <4>4. \A q \in Curators : WritesOK(q)'
        <5> SUFFICES ASSUME NEW q \in Curators PROVE WritesOK(q)' OBVIOUS
        <5>1. WritesOK(q) BY <4>1 DEF Kept
        <5>2. \A o \in Curators : curator'[o] = curator[o] \/ curator'[o].at = "idle"
              BY <3>2, <3>3
        <5> QED BY <3>1, <5>1, <5>2 DEF WritesOK
      <4> QED BY <3>1, <4>1, <4>3, <4>4 DEF Kept
    <3> QED BY <3>1, <3>7, <3>8 DEF DatasetInv
  <2>9. CASE CuratorDies(p)
    <3> DEFINE next == [me EXCEPT !.at = "idle"]
    <3>1. /\ UNCHANGED <<pool, golden, dropped>>
          /\ overlapped' = (overlapped \/ me.at = "dump")
          /\ curator' = [curator EXCEPT ![p] = next]
          BY <2>9 DEF CuratorDies, files
    <3>2. curator'[p] = next /\ \A q \in Curators \ {p} : curator'[q] = curator[q]
          BY <2>2, <3>1
    <3>3. /\ next.at = "idle"
          /\ next \in [at : {"idle", "read", "open", "dump", "unlink"},
                       candidate : {next.candidate}, id : {next.id}, cases : {next.cases}]
          BY <2>3
    <3> HIDE DEF next
    <3>4. \A q \in Curators : CuratorOK(q)'
          BY <2>2, <3>1, <3>2, <3>3 DEF CuratorOK, DatasetInv, DatasetTypeOK
    <3>5. curator' = [q \in Curators |-> curator'[q]] BY <2>2, <3>1
    <3>6. overlapped' \in BOOLEAN BY <3>1, Zenon
    <3>7. DatasetTypeOK' BY <3>1, <3>4, <3>5, <3>6 DEF DatasetInv, DatasetTypeOK
    <3>8. ASSUME ~overlapped' PROVE Kept'
      <4>1. Kept BY <3>1, <3>8 DEF DatasetInv
      <4>2. \A q \in Curators : WritesOK(q)'
        <5> SUFFICES ASSUME NEW q \in Curators PROVE WritesOK(q)' OBVIOUS
        <5>1. WritesOK(q) BY <4>1 DEF Kept
        <5>2. \A o \in Curators : curator'[o] = curator[o] \/ curator'[o].at = "idle"
              BY <3>2, <3>3
        <5> QED BY <3>1, <5>1, <5>2 DEF WritesOK
      <4> QED BY <3>1, <4>1, <4>2 DEF Kept
    <3> QED BY <3>7, <3>8 DEF DatasetInv
  <2> QED BY <2>1, <2>4, <2>5, <2>6, <2>7, <2>8, <2>9 DEF Curate
<1>3. CASE UNCHANGED datasetVars
  <2>1. UNCHANGED <<pool, golden, curator, overlapped, dropped>>
        BY <1>3 DEF datasetVars, files
  <2> QED BY <2>1 DEF DatasetInv, DatasetTypeOK, CuratorOK, Kept, WritesOK
<1> QED BY <1>1, <1>2, <1>3 DEF DatasetNext

(* The inductive invariant of the pool, the dataset file and the promotions: *)
(* who writes the file found it as it is, and nobody writes beside it, unless *)
(* promotions overlapped or one was killed while it wrote.                  *)
THEOREM DatasetInvariant == DatasetSpec => []DatasetInv
BY DatasetBegins, DatasetStep, PTL DEF DatasetSpec

(* For any candidates, curators, deaths and choice of ids: a promoted        *)
(* correction is in the golden dataset and stays there with the cases of     *)
(* before, short of overlapping or killed promotions and taken ids           *)
(* (dataset.py append_cases, curate_golden.py).                              *)
THEOREM CorrectionsAreKept == DatasetSpec => []CorrectionIsKept
<1>1. DatasetInv => CorrectionIsKept BY DEF DatasetInv, Kept, CorrectionIsKept
<1> QED BY <1>1, DatasetInvariant, PTL

-----------------------------------------------------------------------------
(* Sums over a finite set, by induction over its subsets: as the absence of *)
(* a smallest counterexample.                                              *)
LEMMA LeastNumber ==
    ASSUME NEW P, P \subseteq Nat, P # {}
    PROVE  \E n \in P : \A m \in P : n <= m
<1>1. \E n \in P : \A m \in P : ~(<<m, n>> \in OpToRel(<, Nat))
    BY NatLessThanWellFounded, WFMin, Zenon
<1>2. PICK n \in P : \A m \in P : ~(<<m, n>> \in OpToRel(<, Nat)) BY <1>1, Zenon
<1>3. \A m \in P : ~(m < n) BY <1>2, Zenon DEF OpToRel
<1>4. \A m \in P : n <= m BY <1>3
<1> QED BY <1>4

One(s) == CHOOSE x \in s : TRUE

Added(iter, values, s) == IF s = {} THEN 0 ELSE iter[s \ {One(s)}] + values[One(s)]

Sums(iter, values, S) == iter = [s \in SUBSET S |-> Added(iter, values, s)]

SumOver(values, S) == FoldSet(LAMBDA c, sum : sum + values[c], 0, S)

LEMMA Smaller ==
    ASSUME NEW S, IsFiniteSet(S), NEW s \in SUBSET S, s # {}
    PROVE  /\ One(s) \in s /\ s \ {One(s)} \in SUBSET S
           /\ IsFiniteSet(s) /\ Cardinality(s) \in Nat \ {0}
           /\ Cardinality(s \ {One(s)}) = Cardinality(s) - 1
<1>1. One(s) \in s BY DEF One
<1>2. IsFiniteSet(s) BY FS_Subset
<1>3. Cardinality(s) \in Nat /\ Cardinality(s) # 0 BY <1>2, FS_CardinalityType, FS_EmptySet
<1>4. Cardinality(s \ {One(s)}) = Cardinality(s) - 1 BY <1>1, <1>2, FS_RemoveElement
<1> QED BY <1>1, <1>2, <1>3, <1>4

LEMMA SumsExist ==
    ASSUME NEW S, IsFiniteSet(S), NEW values
    PROVE  \E iter : Sums(iter, values, S)
<1> DEFINE Below(n) == {s \in SUBSET S : Cardinality(s) <= n}
           Upto(iter, n) == iter = [s \in Below(n) |-> Added(iter, values, s)]
           P == {n \in Nat : ~ \E iter : Upto(iter, n)}
<1>1. P = {}
  <2> SUFFICES ASSUME P # {} PROVE FALSE OBVIOUS
  <2>1. PICK n \in P : \A m \in P : n <= m
    <3>1. P \subseteq Nat OBVIOUS
    <3> HIDE DEF P
    <3> QED BY <3>1, LeastNumber
  <2>2. n \in Nat /\ ~ \E iter : Upto(iter, n) OBVIOUS
  <2>3. CASE n = 0
    <3> DEFINE iter == [s \in Below(0) |-> 0]
    <3>1. \A s \in Below(0) : s = {}
      <4> SUFFICES ASSUME NEW s \in Below(0), s # {} PROVE FALSE OBVIOUS
      <4>1. Cardinality(s) \in Nat \ {0} /\ Cardinality(s) <= 0 BY Smaller
      <4> QED BY <4>1
    <3>2. \A s \in Below(0) : Added(iter, values, s) = 0 BY <3>1 DEF Added
    <3> HIDE DEF Below
    <3>3. iter = [s \in Below(0) |-> Added(iter, values, s)] BY <3>2
    <3> QED BY <2>2, <2>3, <3>3
  <2>4. CASE n # 0
    <3>1. n - 1 \in Nat /\ n - 1 \notin P
      <4> HIDE DEF P
      <4> QED BY <2>1, <2>2, <2>4
    <3>2. \E iter : Upto(iter, n - 1)
      <4> HIDE DEF Upto
      <4> QED BY <3>1
    <3>3. PICK iter : Upto(iter, n - 1)
      <4> HIDE DEF Upto
      <4> QED BY <3>2
    <3> DEFINE more == [s \in Below(n) |-> Added(iter, values, s)]
    <3>4. \A s \in Below(n - 1) : s \in Below(n)
      <4> SUFFICES ASSUME NEW s \in Below(n - 1) PROVE s \in Below(n) OBVIOUS
      <4>1. Cardinality(s) \in Nat BY FS_Subset, FS_CardinalityType
      <4> QED BY <2>2, <4>1
    <3>5. \A s \in Below(n - 1) : more[s] = iter[s]
      <4> SUFFICES ASSUME NEW s \in Below(n - 1) PROVE more[s] = iter[s] OBVIOUS
      <4>1. iter[s] = Added(iter, values, s)
        <5> HIDE DEF Below
        <5> QED BY <3>3
      <4>2. more[s] = Added(iter, values, s)
        <5> HIDE DEF Below
        <5> QED BY <3>4
      <4> QED BY <4>1, <4>2
    <3>6. \A s \in Below(n) : s # {} => s \ {One(s)} \in Below(n - 1)
      <4> SUFFICES ASSUME NEW s \in Below(n), s # {} PROVE s \ {One(s)} \in Below(n - 1) OBVIOUS
      <4>1. /\ s \ {One(s)} \in SUBSET S /\ Cardinality(s) \in Nat
            /\ Cardinality(s \ {One(s)}) = Cardinality(s) - 1
            BY Smaller
      <4>2. Cardinality(s) <= n OBVIOUS
      <4> QED BY <2>2, <4>1, <4>2
    <3>7. \A s \in Below(n) : Added(iter, values, s) = Added(more, values, s)
      <4> HIDE DEF Below, more
      <4> QED BY <3>5, <3>6 DEF Added
    <3>8. Upto(more, n)
      <4> HIDE DEF Below
      <4>1. more = [s \in Below(n) |-> Added(more, values, s)] BY <3>7
      <4> QED BY <4>1
    <3> QED BY <2>2, <3>8
  <2> QED BY <2>3, <2>4
<1>2. Cardinality(S) \in Nat BY FS_CardinalityType
<1>3. Below(Cardinality(S)) = SUBSET S
  <2>1. \A s \in SUBSET S : Cardinality(s) <= Cardinality(S) BY FS_Subset
  <2> QED BY <2>1
<1>4. \E iter : Upto(iter, Cardinality(S))
  <2> HIDE DEF Upto
  <2> QED BY <1>1, <1>2
<1>5. PICK iter : Upto(iter, Cardinality(S))
  <2> HIDE DEF Upto
  <2> QED BY <1>4
<1>6. Sums(iter, values, S) BY <1>3, <1>5 DEF Sums
<1> QED BY <1>6

LEMMA SumUnfolds ==
    ASSUME NEW S, IsFiniteSet(S), NEW values
    PROVE  \E iter : Sums(iter, values, S) /\ SumOver(values, S) = iter[S]
<1>1. Sums(CHOOSE iter : Sums(iter, values, S), values, S) BY SumsExist, Zenon
<1>2. SumOver(values, S) = (CHOOSE iter : Sums(iter, values, S))[S]
    BY DEF SumOver, FoldSet, MapThenFoldSet, Sums, Added, One
<1> QED BY <1>1, <1>2

LEMMA SumsCompare ==
    ASSUME NEW S, IsFiniteSet(S), NEW low, NEW high, NEW t \in Nat,
           \A c \in S : low[c] \in Nat /\ high[c] \in Nat /\ low[c] + t <= high[c]
    PROVE  /\ SumOver(low, S) \in Nat /\ SumOver(high, S) \in Nat
           /\ SumOver(low, S) + t * Cardinality(S) <= SumOver(high, S)
<1>1. PICK a : Sums(a, low, S) /\ SumOver(low, S) = a[S] BY SumUnfolds
<1>2. PICK b : Sums(b, high, S) /\ SumOver(high, S) = b[S] BY SumUnfolds
<1> DEFINE Good(s) == a[s] \in Nat /\ b[s] \in Nat /\ a[s] + t * Cardinality(s) <= b[s]
           P == {n \in Nat : \E s \in SUBSET S : Cardinality(s) = n /\ ~Good(s)}
<1>3. P = {}
  <2> SUFFICES ASSUME P # {} PROVE FALSE OBVIOUS
  <2>1. PICK n \in P : \A m \in P : n <= m
    <3>1. P \subseteq Nat OBVIOUS
    <3> HIDE DEF P
    <3> QED BY <3>1, LeastNumber
  <2>2. n \in Nat OBVIOUS
  <2>3. PICK s \in SUBSET S : Cardinality(s) = n /\ ~Good(s) OBVIOUS
  <2>4. a[s] = Added(a, low, s) /\ b[s] = Added(b, high, s) BY <1>1, <1>2 DEF Sums
  <2>5. CASE s = {}
    <3>1. a[s] = 0 /\ b[s] = 0 BY <2>4, <2>5 DEF Added
    <3>2. n = 0 BY <2>3, <2>5, FS_EmptySet
    <3>3. t * 0 = 0 OBVIOUS
    <3> QED BY <2>3, <3>1, <3>2, <3>3
  <2>6. CASE s # {}
    <3> DEFINE x == One(s)
               rest == s \ {One(s)}
    <3>1. /\ x \in S /\ rest \in SUBSET S /\ n # 0 /\ Cardinality(rest) = n - 1
          BY <2>3, <2>6, Smaller
    <3>2. Good(rest)
      <4>1. n - 1 \in Nat /\ n - 1 \notin P
        <5> HIDE DEF P
        <5> QED BY <2>1, <2>2, <3>1
      <4> HIDE DEF Good
      <4> QED BY <3>1, <4>1
    <3>3. a[s] = a[rest] + low[x] /\ b[s] = b[rest] + high[x] BY <2>4, <2>6 DEF Added
    <3> HIDE DEF x, rest
    <3>4. t * n = t * (n - 1) + t BY <2>2
    <3>5. a[rest] \in Nat /\ b[rest] \in Nat /\ a[rest] + t * (n - 1) <= b[rest]
          BY <3>1, <3>2
    <3>6. low[x] \in Nat /\ high[x] \in Nat /\ low[x] + t <= high[x] BY <3>1
    <3>7. t * (n - 1) \in Nat BY <2>2, <3>1
    <3>8. Good(s)
      <4>1. a[s] \in Nat /\ b[s] \in Nat BY <3>3, <3>5, <3>6
      <4>2. a[s] + t * n <= b[s] BY <3>3, <3>4, <3>5, <3>6, <3>7
      <4> QED BY <2>3, <4>1, <4>2
    <3> QED BY <2>3, <3>8
  <2> QED BY <2>5, <2>6
<1>4. Cardinality(S) \in Nat BY FS_CardinalityType
<1>5. Good(S)
  <2> HIDE DEF Good
  <2>1. S \in SUBSET S OBVIOUS
  <2> QED BY <1>3, <1>4, <2>1
<1> QED BY <1>1, <1>2, <1>5

LEMMA Products ==
    ASSUME NEW x \in Nat, NEW y \in Nat, NEW z \in Nat, NEW n \in Nat, x + y <= z
    PROVE  x * n + y * n <= z * n
OBVIOUS

LEMMA LargestNumber ==
    ASSUME NEW n \in Nat, NEW S \in SUBSET (1 .. n), S # {}
    PROVE  Max(S) \in S /\ \A j \in S : j <= Max(S)
<1> DEFINE P == {n - x : x \in S}
<1>1. P \subseteq Nat /\ P # {}
    <2>1. \A x \in S : x \in 1 .. n OBVIOUS
    <2>2. P \subseteq Nat BY <2>1
    <2> QED BY <2>2
<1>2. \E m \in P : \A k \in P : m <= k
    <2> HIDE DEF P
    <2> QED BY <1>1, LeastNumber
<1>3. PICK m \in P : \A k \in P : m <= k BY <1>2
<1>4. PICK x \in S : m = n - x OBVIOUS
<1>5. \A y \in S : x >= y
    <2> SUFFICES ASSUME NEW y \in S PROVE x >= y OBVIOUS
    <2>1. m <= n - y BY <1>3
    <2>2. x \in 1 .. n /\ y \in 1 .. n OBVIOUS
    <2> QED BY <1>4, <2>1, <2>2
<1>6. \E z \in S : \A y \in S : z >= y BY <1>5
<1> HIDE DEF P
<1>7. Max(S) \in S /\ \A y \in S : Max(S) >= y BY <1>6, Zenon DEF Max
<1>8. \A j \in S : j \in Nat OBVIOUS
<1> QED BY <1>7, <1>8

-----------------------------------------------------------------------------
(***************************************************************************)
(* EvaluationGate                                                          *)
(***************************************************************************)
Values == Levels \union {Absent, Failed}

Averages == {Absent} \union [n : Nat, sum : Nat]

EvaluationRecords ==
    [at : {"idle", "run", "append", "gate", "ended"}, dataset : Datasets \union {Absent},
     cases : SUBSET Cases, results : UNION {[some -> Values] : some \in SUBSET Cases}, average : Averages,
     baseline : {"newest", "named"}, against : Evaluations \union {Absent},
     verdict : {"none", "pass", "fail", "skipped"}]

Lines == [run : Evaluations, dataset : Datasets \union {Absent}, average : Averages]

GateTypeOK ==
    /\ evaluation \in [Evaluations -> EvaluationRecords]
    /\ runs \in Seq(Lines)
    /\ details \in SUBSET Evaluations

AverageStands(e) == evaluation[e].average = Average(evaluation[e].results)

(* A line of the history is of an evaluation that is through with its      *)
(* cases, whose details are on disk, and says what that one was saved with. *)
LineOK(i) ==
    LET e == runs[i].run IN
    /\ e \in details
    /\ evaluation[e].at \in {"gate", "ended"} /\ evaluation[e].cases # {}
    /\ runs[i].dataset = evaluation[e].dataset
    /\ runs[i].average = evaluation[e].average
    /\ AverageStands(e)

Opposed(e) ==
    \E i \in DOMAIN runs :
        Opposes(i, e) /\ ~Regressed(runs[i].average, evaluation[e].average)

EvaluationOK(e) ==
    /\ evaluation[e].at \in {"run", "append", "gate"} => evaluation[e].cases # {}
    /\ evaluation[e].at = "append" => e \in details
    /\ evaluation[e].at \in {"append", "gate"} => AverageStands(e)
    /\ evaluation[e].at # "ended" => evaluation[e].verdict = "none"
    /\ evaluation[e].verdict = "pass" /\ evaluation[e].baseline = "newest" =>
          AverageStands(e) /\ Opposed(e)

GateInv ==
    /\ GateTypeOK
    /\ \A i \in DOMAIN runs : LineOK(i)
    /\ \A e \in Evaluations : EvaluationOK(e)

LEMMA LineTyped ==
    ASSUME GateTypeOK, NEW i \in DOMAIN runs
    PROVE  runs[i].run \in Evaluations
<1>1. runs[i] \in Lines BY ElementOfSeq DEF GateTypeOK
<1> QED BY <1>1 DEF Lines

LEMMA GateBegins == GateInit => GateInv
<1> SUFFICES ASSUME GateInit PROVE GateInv OBVIOUS
<1>1. /\ evaluation = [e \in Evaluations |-> NoEvaluation]
      /\ details = {} /\ runs = <<>>
      BY DEF GateInit
<1>2. <<>> \in UNION {[some -> Values] : some \in SUBSET Cases}
  <2>1. <<>> \in [{} -> Values] OBVIOUS
  <2> QED BY <2>1
<1>3. NoEvaluation \in EvaluationRecords
    BY <1>2 DEF NoEvaluation, EvaluationRecords, Averages
<1>4. GateTypeOK
  <2>1. evaluation \in [Evaluations -> EvaluationRecords] BY <1>1, <1>3
  <2>2. runs \in Seq(Lines) BY <1>1, EmptySeq
  <2> QED BY <1>1, <2>1, <2>2 DEF GateTypeOK
<1>5. \A e \in Evaluations : EvaluationOK(e)
    BY <1>1 DEF EvaluationOK, NoEvaluation
<1> QED BY <1>1, <1>4, <1>5 DEF GateInv

LEMMA AverageType ==
    ASSUME NEW some \in SUBSET Cases, NEW results \in [some -> Values]
    PROVE  Average(results) \in Averages
<1> DEFINE over == Averaged(results)
<1>1. over \in SUBSET Cases /\ \A c \in over : results[c] \in Nat
    BY GateAssumption DEF Averaged, GateAssumption
<1>2. IsFiniteSet(over) BY <1>1, GateAssumption, FS_Subset DEF GateAssumption
<1>3. Cardinality(over) \in Nat BY <1>2, FS_CardinalityType
<1>4. SumOver(results, over) \in Nat
  <2> HIDE DEF over
  <2>1. \A c \in over : results[c] + 0 <= results[c] BY <1>1
  <2> QED BY <1>1, <1>2, <2>1, SumsCompare
<1>5. CASE over = {} BY <1>5 DEF Average, Averages
<1>6. CASE over # {}
  <2>1. Average(results) = [n |-> Cardinality(over), sum |-> SumOver(results, over)]
    <3>1. SumOver(results, over)
             = FoldSet(LAMBDA c, sum : sum + results[c], 0, Averaged(results))
          BY DEF SumOver, FoldSet, MapThenFoldSet
    <3>2. Averaged(results) # {} BY <1>6
    <3> QED BY <3>1, <3>2, Zenon DEF Average
  <2> HIDE DEF over
  <2> QED BY <1>3, <1>4, <2>1 DEF Averages
<1> QED BY <1>5, <1>6

LEMMA PriorIsAnother ==
    ASSUME GateTypeOK, NEW e \in Evaluations, Prior(e) # {}
    PROVE  LET i == Max(Prior(e)) IN
           /\ i \in DOMAIN runs /\ runs[i].dataset = evaluation[e].dataset
           /\ runs[i].run # e
           /\ \A j \in Prior(e) : j <= i
<1>1. Len(runs) \in Nat /\ DOMAIN runs = 1 .. Len(runs) BY DEF GateTypeOK
<1>2. Prior(e) \in SUBSET (1 .. Len(runs)) BY <1>1 DEF Prior
<1>3. Max(Prior(e)) \in Prior(e) /\ \A j \in Prior(e) : j <= Max(Prior(e))
    BY <1>1, <1>2, LargestNumber
<1> QED BY <1>3 DEF Prior

(* What one evaluation does to itself is nothing to the lines and to the   *)
(* others, as long as its dataset stays and, once it is in the history,     *)
(* what it was saved with.                                                  *)
LEMMA OthersStand ==
    ASSUME GateInv, NEW e \in Evaluations, NEW next \in EvaluationRecords,
           evaluation' = [evaluation EXCEPT ![e] = next],
           UNCHANGED runs, details \subseteq details', details' \in SUBSET Evaluations,
           evaluation[e].at \in {"gate", "ended"} =>
               /\ next.at \in {"gate", "ended"} /\ next.dataset = evaluation[e].dataset
               /\ next.average = evaluation[e].average
               /\ next.results = evaluation[e].results /\ next.cases = evaluation[e].cases
    PROVE  /\ GateTypeOK' /\ \A i \in DOMAIN runs' : LineOK(i)'
           /\ \A o \in Evaluations \ {e} : EvaluationOK(o)'
           /\ evaluation'[e] = next
<1>1. evaluation'[e] = next /\ \A o \in Evaluations \ {e} : evaluation'[o] = evaluation[o]
    BY DEF GateInv, GateTypeOK
<1>2. GateTypeOK' BY DEF GateInv, GateTypeOK
<1>3. ASSUME NEW i \in DOMAIN runs PROVE LineOK(i)'
  <2>1. LineOK(i) /\ runs[i].run \in Evaluations BY <1>3, LineTyped DEF GateInv
  <2>2. CASE runs[i].run = e BY <1>1, <2>1, <2>2 DEF LineOK, AverageStands
  <2>3. CASE runs[i].run # e BY <1>1, <2>1, <2>3 DEF LineOK, AverageStands
  <2> QED BY <2>2, <2>3
<1>4. ASSUME NEW o \in Evaluations \ {e} PROVE EvaluationOK(o)'
  <2>1. EvaluationOK(o) /\ evaluation'[o] = evaluation[o] BY <1>1, <1>4 DEF GateInv
  <2>2. Opposed(o) => Opposed(o)' BY <2>1 DEF Opposed, Opposes
  <2> QED BY <2>1, <2>2 DEF EvaluationOK, AverageStands
<1> QED BY <1>1, <1>2, <1>3, <1>4

LEMMA GateStep == GateInv /\ [GateNext]_gateVars => GateInv'
<1> SUFFICES ASSUME GateInv, [GateNext]_gateVars PROVE GateInv' OBVIOUS
<1>1. ASSUME NEW e \in Evaluations,
             Load(e) \/ RunCase(e) \/ SaveDetail(e) \/ AppendRun(e) \/ Gate(e) \/ Killed(e)
      PROVE  GateInv'
  <2> DEFINE me == evaluation[e]
  <2>1. /\ me \in EvaluationRecords
        /\ evaluation \in [Evaluations -> EvaluationRecords]
        /\ details \in SUBSET Evaluations
        /\ EvaluationOK(e)
        BY DEF GateInv, GateTypeOK
  <2>2. CASE Load(e)
    <3>1. PICK dataset \in Datasets, some \in SUBSET Cases :
             EvaluationGoes(e, [NoEvaluation EXCEPT
                 !.at = IF some = {} THEN "ended" ELSE "run",
                 !.dataset = dataset, !.cases = some])
          BY <2>2, Zenon DEF Load
    <3> DEFINE at == IF some = {} THEN "ended" ELSE "run"
               next == [NoEvaluation EXCEPT !.at = at, !.dataset = dataset, !.cases = some]
    <3>2. /\ me = NoEvaluation /\ UNCHANGED <<details, runs>>
          /\ evaluation' = [evaluation EXCEPT ![e] = next]
          BY <2>2, <3>1 DEF Load, EvaluationGoes
    <3>9. at \in {"run", "ended"} /\ (at = "run" => some # {}) OBVIOUS
    <3> HIDE DEF at
    <3>3. next \in EvaluationRecords /\ next.cases = some /\ next.at = at
      <4>1. NoEvaluation \in EvaluationRecords BY <2>1, <3>2
      <4> QED BY <3>9, <4>1 DEF EvaluationRecords
    <3>4. me.at = "idle" /\ next.verdict = "none" /\ next.at \in {"run", "ended"}
          BY <3>9, <3>2, <3>3 DEF NoEvaluation
    <3> HIDE DEF next, me
    <3>5. evaluation[e] = me BY DEF me
    <3>6. /\ GateTypeOK' /\ \A i \in DOMAIN runs' : LineOK(i)'
          /\ \A o \in Evaluations \ {e} : EvaluationOK(o)'
          /\ evaluation'[e] = next
          BY <2>1, <3>2, <3>3, <3>4, <3>5, OthersStand
    <3>7. EvaluationOK(e)' BY <3>9, <3>3, <3>4, <3>6 DEF EvaluationOK
    <3> QED BY <3>6, <3>7 DEF GateInv
  <2>3. CASE RunCase(e)
    <3>1. PICK c \in Missing(e), value \in Levels \union {Absent, Failed} :
             EvaluationGoes(e, [evaluation[e] EXCEPT
                 !.results = [d \in DOMAIN @ \union {c} |-> IF d = c THEN value ELSE @[d]],
                 !.at = IF value = Failed /\ evaluation[e].dataset \in Recorded
                        THEN "ended" ELSE @])
          BY <2>3, Zenon DEF RunCase
    <3> DEFINE results == [d \in DOMAIN me.results \union {c} |->
                             IF d = c THEN value ELSE me.results[d]]
               at == IF value = Failed /\ me.dataset \in Recorded THEN "ended" ELSE me.at
               next == [me EXCEPT !.results = results, !.at = at]
    <3>2. /\ me.at = "run" /\ UNCHANGED <<details, runs>>
          /\ evaluation' = [evaluation EXCEPT ![e] = next]
          BY <2>3, <3>1 DEF RunCase, EvaluationGoes
    <3>3. results \in UNION {[some -> Values] : some \in SUBSET Cases}
      <4>1. PICK some \in SUBSET Cases : me.results \in [some -> Values]
            BY <2>1 DEF EvaluationRecords
      <4>2. c \in Cases /\ value \in Values
        <5>1. evaluation[e].cases \in SUBSET Cases BY <2>1 DEF EvaluationRecords
        <5> QED BY <5>1 DEF Missing, Values
      <4> HIDE DEF me
      <4>3. DOMAIN me.results = some /\ \A d \in some : me.results[d] \in Values BY <4>1
      <4> DEFINE before == me.results
      <4>4. results = [d \in {c} \union some |-> IF d = c THEN value ELSE before[d]]
            BY <4>3
      <4> HIDE DEF before
      <4>5. results \in [{c} \union some -> Values]
        <5>1. \A d \in some : before[d] \in Values BY <4>3 DEF before
        <5> HIDE DEF results
        <5> QED BY <4>2, <4>4, <5>1
      <4> HIDE DEF results
      <4>6. {c} \union some \in SUBSET Cases BY <4>2
      <4> QED BY <4>5, <4>6
    <3>4. at \in {"run", "ended"} BY <3>2
    <3> HIDE DEF results, at
    <3>5. next \in EvaluationRecords BY <2>1, <3>3, <3>4 DEF EvaluationRecords
    <3>6. next.at = at /\ next.verdict = me.verdict /\ next.cases = me.cases
          BY <2>1 DEF EvaluationRecords
    <3>7. me.verdict = "none" /\ me.cases # {} BY <2>1, <3>2 DEF EvaluationOK
    <3> HIDE DEF next, me
    <3>8. evaluation[e] = me BY DEF me
    <3>9. /\ GateTypeOK' /\ \A i \in DOMAIN runs' : LineOK(i)'
          /\ \A o \in Evaluations \ {e} : EvaluationOK(o)'
          /\ evaluation'[e] = next
          BY <2>1, <3>2, <3>5, <3>8, OthersStand
    <3>10. EvaluationOK(e)' BY <3>4, <3>6, <3>7, <3>9 DEF EvaluationOK
    <3> QED BY <3>9, <3>10 DEF GateInv
  <2>4. CASE SaveDetail(e)
    <3> DEFINE next == [me EXCEPT !.at = "append", !.average = Average(me.results)]
    <3>1. /\ me.at = "run" /\ UNCHANGED runs /\ details' = details \union {e}
          /\ evaluation' = [evaluation EXCEPT ![e] = next]
          BY <2>4 DEF SaveDetail, EvaluationGoes
    <3>2. Average(me.results) \in Averages
      <4>1. PICK some \in SUBSET Cases : me.results \in [some -> Values]
            BY <2>1 DEF EvaluationRecords
      <4> QED BY <4>1, AverageType
    <3>3. next \in EvaluationRecords BY <2>1, <3>2 DEF EvaluationRecords
    <3>4. /\ next.at = "append" /\ next.verdict = me.verdict /\ next.cases = me.cases
          /\ next.average = Average(next.results)
          BY <2>1 DEF EvaluationRecords
    <3>5. me.verdict = "none" /\ me.cases # {} BY <2>1, <3>1 DEF EvaluationOK
    <3> HIDE DEF next, me
    <3>6. evaluation[e] = me BY DEF me
    <3>7. /\ GateTypeOK' /\ \A i \in DOMAIN runs' : LineOK(i)'
          /\ \A o \in Evaluations \ {e} : EvaluationOK(o)'
          /\ evaluation'[e] = next
          BY <2>1, <3>1, <3>3, <3>6, OthersStand
    <3>8. EvaluationOK(e)' BY <3>1, <3>4, <3>5, <3>7 DEF EvaluationOK, AverageStands
    <3> QED BY <3>7, <3>8 DEF GateInv
  <2>5. CASE AppendRun(e)
    <3>1. PICK at \in {"gate", "ended"} : EvaluationGoes(e, [evaluation[e] EXCEPT !.at = at])
          BY <2>5, Zenon DEF AppendRun
    <3> DEFINE next == [me EXCEPT !.at = at]
    <3>2. /\ me.at = "append" /\ UNCHANGED details /\ runs' = Append(runs, Line(e))
          /\ evaluation' = [evaluation EXCEPT ![e] = next]
          BY <2>5, <3>1 DEF AppendRun, EvaluationGoes
    <3>3. /\ next \in EvaluationRecords /\ next.at = at /\ next.dataset = me.dataset
          /\ next.average = me.average /\ next.results = me.results
          /\ next.verdict = me.verdict /\ next.cases = me.cases
          BY <2>1 DEF EvaluationRecords
    <3>4. /\ me.verdict = "none" /\ e \in details /\ me.average = Average(me.results)
          /\ me.cases # {}
          BY <2>1, <3>2 DEF EvaluationOK, AverageStands
    <3>5. Line(e) = [run |-> e, dataset |-> me.dataset, average |-> me.average]
          BY DEF Line
    <3>6. me.dataset \in Datasets \union {Absent} /\ me.average \in Averages
          BY <2>1 DEF EvaluationRecords
    <3> HIDE DEF next, me
    <3>7. evaluation[e] = me BY DEF me
    <3>8. /\ evaluation'[e] = next
          /\ \A o \in Evaluations \ {e} : evaluation'[o] = evaluation[o]
          BY <2>1, <3>2
    <3>9. Line(e) \in Lines BY <3>5, <3>6 DEF Lines
    <3>10. runs \in Seq(Lines) BY DEF GateInv, GateTypeOK
    <3>11. /\ runs' \in Seq(Lines)
           /\ DOMAIN runs' = DOMAIN runs \union {Len(runs) + 1}
           /\ \A i \in DOMAIN runs : runs'[i] = runs[i]
           /\ runs'[Len(runs) + 1] = Line(e)
           BY <3>2, <3>9, <3>10
    <3>12. GateTypeOK' BY <2>1, <3>2, <3>3, <3>11 DEF GateTypeOK
    <3>13. ASSUME NEW i \in DOMAIN runs' PROVE LineOK(i)'
      <4>1. CASE i \in DOMAIN runs
        <5>1. LineOK(i) /\ runs'[i] = runs[i]
          <6>1. \A j \in DOMAIN runs : LineOK(j) BY DEF GateInv
          <6> QED BY <3>11, <4>1, <6>1
        <5>2. runs[i].run \in Evaluations BY <4>1, LineTyped DEF GateInv
        <5>3. runs[i].run # e BY <3>2, <3>7, <5>1 DEF LineOK
        <5> QED BY <3>2, <3>8, <5>1, <5>2, <5>3 DEF LineOK, AverageStands
      <4>2. CASE i = Len(runs) + 1
        <5>1. /\ runs'[i].run = e /\ runs'[i].dataset = me.dataset
              /\ runs'[i].average = me.average
              BY <3>5, <3>11, <4>2
        <5> QED BY <3>2, <3>3, <3>4, <3>8, <5>1 DEF LineOK, AverageStands
      <4> QED BY <3>11, <4>1, <4>2
    <3>14. ASSUME NEW o \in Evaluations PROVE EvaluationOK(o)'
      <4>1. CASE o = e
            BY <3>2, <3>3, <3>4, <3>8, <4>1 DEF EvaluationOK, AverageStands
      <4>2. CASE o # e
        <5>1. EvaluationOK(o) /\ evaluation'[o] = evaluation[o] BY <3>8, <4>2 DEF GateInv
        <5>2. Opposed(o) => Opposed(o)'
          <6> SUFFICES ASSUME NEW i \in DOMAIN runs, Opposes(i, o),
                              ~Regressed(runs[i].average, evaluation[o].average)
                       PROVE  Opposed(o)'
              BY DEF Opposed
          <6>1. i \in DOMAIN runs' /\ runs'[i] = runs[i] BY <3>11
          <6>2. ASSUME NEW k \in DOMAIN runs', NEW j \in DOMAIN runs',
                       runs'[k].run = o, j < k,
                       runs'[j].dataset = evaluation[o].dataset, runs'[j].run # o
                PROVE  j <= i
            <7>1. runs'[Len(runs) + 1].run = e BY <3>5, <3>11
            <7>2. k \in DOMAIN runs /\ runs'[k] = runs[k] BY <3>11, <4>2, <6>2, <7>1
            <7>3. j \in DOMAIN runs /\ runs'[j] = runs[j]
              <8>1. DOMAIN runs = 1 .. Len(runs) /\ Len(runs) \in Nat BY <3>10
              <8>2. j # Len(runs) + 1 BY <6>2, <7>2, <8>1
              <8> QED BY <3>11, <8>2
            <7> QED BY <6>2, <7>2, <7>3 DEF Opposes
          <6>3. Opposes(i, o)' BY <3>2, <5>1, <6>1, <6>2 DEF Opposes
          <6> QED BY <5>1, <6>1, <6>3 DEF Opposed
        <5> QED BY <3>2, <5>1, <5>2 DEF EvaluationOK, AverageStands
      <4> QED BY <4>1, <4>2
    <3> QED BY <3>12, <3>13, <3>14 DEF GateInv
  <2>6. CASE Gate(e)
    <3>1. PICK baseline \in {"newest", "named"}, against \in Evaluations \union {Absent},
               verdict \in {"pass", "fail", "skipped"} :
             /\ Finishes(e, baseline, against, verdict)
             /\ baseline = "newest" /\ verdict = "pass" =>
                  \E i \in DOMAIN runs :
                     /\ runs[i].run = against /\ runs[i].run # e
                     /\ runs[i].dataset = evaluation[e].dataset
                     /\ \A j \in Prior(e) : j <= i
                     /\ ~Regressed(runs[i].average, evaluation[e].average)
      <4>1. CASE Prior(e) = {} /\ Finishes(e, "newest", Absent, "skipped") BY <4>1
      <4>2. CASE Prior(e) # {} /\ Compared(e, "newest", runs[Max(Prior(e))])
        <5> DEFINE i == Max(Prior(e))
        <5>1. /\ i \in DOMAIN runs /\ runs[i].dataset = evaluation[e].dataset
              /\ runs[i].run # e /\ \A j \in Prior(e) : j <= i
              BY <4>2, PriorIsAnother DEF GateInv
        <5>2. Finishes(e, "newest", runs[i].run, Verdict(e, runs[i])) BY <4>2 DEF Compared
        <5> HIDE DEF i
        <5>3. runs[i].run \in Evaluations BY <5>1, LineTyped DEF GateInv
        <5>4. CASE Regressed(runs[i].average, evaluation[e].average)
              BY <5>2, <5>3, <5>4 DEF Verdict
        <5>5. CASE ~Regressed(runs[i].average, evaluation[e].average)
          <6>1. Finishes(e, "newest", runs[i].run, "pass") BY <5>2, <5>5 DEF Verdict
          <6> QED BY <5>1, <5>3, <5>5, <6>1
        <5> QED BY <5>4, <5>5
      <4>3. CASE \E i \in DOMAIN runs : Compared(e, "named", runs[i])
        <5>1. PICK i \in DOMAIN runs : Compared(e, "named", runs[i]) BY <4>3
        <5>2. Verdict(e, runs[i]) \in {"pass", "fail"} BY DEF Verdict
        <5>3. runs[i].run \in Evaluations BY LineTyped DEF GateInv
        <5> QED BY <5>1, <5>2, <5>3 DEF Compared
      <4> QED BY <2>6, <4>1, <4>2, <4>3 DEF Gate
    <3> DEFINE next == [me EXCEPT !.at = "ended", !.baseline = baseline,
                                  !.against = against, !.verdict = verdict]
    <3>2. /\ me.at = "gate" /\ UNCHANGED <<details, runs>>
          /\ evaluation' = [evaluation EXCEPT ![e] = next]
          BY <2>6, <3>1 DEF Gate, Finishes, EvaluationGoes
    <3>3. /\ next \in EvaluationRecords /\ next.at = "ended" /\ next.dataset = me.dataset
          /\ next.average = me.average /\ next.results = me.results /\ next.cases = me.cases
          /\ next.baseline = baseline /\ next.against = against /\ next.verdict = verdict
          BY <2>1 DEF EvaluationRecords
    <3>4. me.average = Average(me.results) BY <2>1, <3>2 DEF EvaluationOK, AverageStands
    <3> HIDE DEF next, me
    <3>5. evaluation[e] = me BY DEF me
    <3>6. /\ GateTypeOK' /\ \A i \in DOMAIN runs' : LineOK(i)'
          /\ \A o \in Evaluations \ {e} : EvaluationOK(o)'
          /\ evaluation'[e] = next
          BY <2>1, <3>2, <3>3, <3>5, OthersStand
    <3>7. baseline = "newest" /\ verdict = "pass" => Opposed(e)'
      <4> SUFFICES ASSUME NEW i \in DOMAIN runs,
                          runs[i].run = against, runs[i].run # e,
                          runs[i].dataset = evaluation[e].dataset,
                          \A j \in Prior(e) : j <= i,
                          ~Regressed(runs[i].average, evaluation[e].average)
                   PROVE  Opposed(e)'
          BY <3>1
      <4>1. LineOK(i) BY DEF GateInv
      <4>2. runs' = runs /\ details' = details BY <3>2
      <4>3. /\ evaluation'[e].against = against /\ evaluation'[e].dataset = evaluation[e].dataset
            /\ evaluation'[e].average = evaluation[e].average
            BY <3>3, <3>5, <3>6
      <4>4. ASSUME NEW j \in DOMAIN runs,
                   runs[j].dataset = evaluation[e].dataset, runs[j].run # e
            PROVE  j <= i
            BY <4>4 DEF Prior
      <4>5. runs[i].run \in details \ {e} BY <4>1 DEF LineOK
      <4>6. Opposes(i, e)' BY <4>2, <4>3, <4>4, <4>5 DEF Opposes
      <4> QED BY <4>2, <4>3, <4>6 DEF Opposed
    <3>8. EvaluationOK(e)'
          BY <3>1, <3>3, <3>4, <3>6, <3>7 DEF EvaluationOK, AverageStands
    <3> QED BY <3>6, <3>8 DEF GateInv
  <2>7. CASE Killed(e)
    <3> DEFINE next == [me EXCEPT !.at = "ended"]
    <3>1. /\ me.at \in {"run", "append", "gate"} /\ UNCHANGED <<details, runs>>
          /\ evaluation' = [evaluation EXCEPT ![e] = next]
          BY <2>7 DEF Killed, EvaluationGoes
    <3>2. /\ next \in EvaluationRecords /\ next.at = "ended" /\ next.dataset = me.dataset
          /\ next.average = me.average /\ next.results = me.results
          /\ next.verdict = me.verdict /\ next.cases = me.cases
          BY <2>1 DEF EvaluationRecords
    <3>3. me.verdict = "none" BY <2>1, <3>1 DEF EvaluationOK
    <3> HIDE DEF next, me
    <3>4. evaluation[e] = me BY DEF me
    <3>5. /\ GateTypeOK' /\ \A i \in DOMAIN runs' : LineOK(i)'
          /\ \A o \in Evaluations \ {e} : EvaluationOK(o)'
          /\ evaluation'[e] = next
          BY <2>1, <3>1, <3>2, <3>4, OthersStand
    <3>6. EvaluationOK(e)' BY <3>2, <3>3, <3>5 DEF EvaluationOK
    <3> QED BY <3>5, <3>6 DEF GateInv
  <2> QED BY <1>1, <2>2, <2>3, <2>4, <2>5, <2>6, <2>7
<1>2. CASE UNCHANGED gateVars
  <2>1. UNCHANGED <<evaluation, runs, details>> BY <1>2 DEF gateVars
  <2>2. GateTypeOK' BY <2>1 DEF GateInv, GateTypeOK
  <2>3. \A i \in DOMAIN runs' : LineOK(i)' BY <2>1 DEF GateInv, LineOK, AverageStands
  <2>4. \A e \in Evaluations : EvaluationOK(e)'
        BY <2>1 DEF GateInv, EvaluationOK, AverageStands, Opposed, Opposes
  <2> QED BY <2>2, <2>3, <2>4 DEF GateInv
<1> QED BY <1>1, <1>2 DEF GateNext

(* What is worse in every case by the threshold is worse so in the average. *)
LEMMA WorseIsRegressed ==
    ASSUME NEW e, NEW other, WorseThroughout(e, other),
           AverageStands(e), AverageStands(other),
           evaluation[other].cases \in SUBSET Cases, evaluation[other].cases # {}
    PROVE  Regressed(evaluation[other].average, evaluation[e].average)
<1> DEFINE low == evaluation[e].results
           high == evaluation[other].results
           common == evaluation[other].cases
           n == Cardinality(common)
<1>1. IsFiniteSet(common) /\ common # {} /\ Threshold \in Nat
    BY GateAssumption, FS_Subset DEF GateAssumption
<1>2. /\ DOMAIN low = common /\ DOMAIN high = common
      /\ \A c \in common : low[c] \in Levels /\ high[c] \in Levels
                        /\ low[c] + Threshold <= high[c]
      BY DEF WorseThroughout, Scored
<1>3. \A c \in common : low[c] \in Nat /\ high[c] \in Nat
    BY <1>2, GateAssumption DEF GateAssumption
<1>4. Averaged(low) = common /\ Averaged(high) = common BY <1>2 DEF Averaged
<1>5. Average(low) = [n |-> n, sum |-> SumOver(low, common)]
  <2>1. SumOver(low, common) = FoldSet(LAMBDA c, sum : sum + low[c], 0, common)
        BY DEF SumOver, FoldSet, MapThenFoldSet
  <2> HIDE DEF low, common
  <2> QED BY <1>1, <1>4, <2>1, Zenon DEF Average
<1>6. Average(high) = [n |-> n, sum |-> SumOver(high, common)]
  <2>1. SumOver(high, common) = FoldSet(LAMBDA c, sum : sum + high[c], 0, common)
        BY DEF SumOver, FoldSet, MapThenFoldSet
  <2> HIDE DEF high, common
  <2> QED BY <1>1, <1>4, <2>1, Zenon DEF Average
<1>7. /\ SumOver(low, common) \in Nat /\ SumOver(high, common) \in Nat
      /\ SumOver(low, common) + Threshold * n <= SumOver(high, common)
  <2> HIDE DEF low, high, common
  <2> QED BY <1>1, <1>2, <1>3, SumsCompare
<1>8. n \in Nat BY <1>1, FS_CardinalityType
<1>9. evaluation[e].average = Average(low) /\ evaluation[other].average = Average(high)
    BY DEF AverageStands
<1> DEFINE a == SumOver(low, common)
           b == SumOver(high, common)
<1>10. /\ evaluation[e].average.n = n /\ evaluation[e].average.sum = a
       /\ evaluation[other].average.n = n /\ evaluation[other].average.sum = b
    BY <1>5, <1>6, <1>9
<1>11. evaluation[e].average # Absent /\ evaluation[other].average # Absent
  <2>1. Average(low) \in [n : Nat, sum : Nat] /\ Average(high) \in [n : Nat, sum : Nat]
    <3> HIDE DEF low, high, n
    <3> QED BY <1>5, <1>6, <1>7, <1>8
  <2> HIDE DEF low, high
  <2> QED BY <1>9, <2>1, GateAssumption DEF GateAssumption
<1>12. a * n + Threshold * n * n <= b * n
  <2> HIDE DEF a, b, n
  <2>1. Threshold * n \in Nat BY <1>1, <1>8
  <2>2. a * n + (Threshold * n) * n <= b * n BY <1>7, <1>8, <2>1, Products DEF a, b
  <2> QED BY <2>2
<1> HIDE DEF a, b, n
<1> QED BY <1>10, <1>11, <1>12 DEF Regressed

(* The inductive invariant of the evaluations: what the history says of a   *)
(* run is the average of that run's own cases, its details are on disk, and *)
(* what passed the gate is not worse than the line it was held against.    *)
THEOREM GateInvariant == GateSpec => []GateInv
BY GateBegins, GateStep, PTL DEF GateSpec

(* For any number of evaluations, cases, levels and kills, any threshold and *)
(* whatever cases each run has: what passes was held against the newest     *)
(* other run of its dataset, and is not worse in every case than that run   *)
(* if both measured the same (scripts/run_eval.py, eval/history.py).        *)
THEOREM RegressionsAreCaught == GateSpec => []RegressionIsCaught
<1>1. GateInv => RegressionIsCaught
  <2> SUFFICES ASSUME GateInv, NEW e \in Evaluations,
                      evaluation[e].verdict = "pass", evaluation[e].baseline = "newest"
               PROVE  \E i \in DOMAIN runs :
                        Opposes(i, e) /\ ~WorseThroughout(e, runs[i].run)
      BY DEF RegressionIsCaught
  <2>1. AverageStands(e) /\ Opposed(e) BY DEF GateInv, EvaluationOK
  <2>2. PICK i \in DOMAIN runs :
            Opposes(i, e) /\ ~Regressed(runs[i].average, evaluation[e].average)
        BY <2>1 DEF Opposed
  <2> DEFINE other == runs[i].run
  <2>3. /\ AverageStands(other) /\ evaluation[other].cases # {}
        /\ runs[i].average = evaluation[other].average
        BY DEF GateInv, LineOK
  <2>4. evaluation[other].cases \in SUBSET Cases
    <3>1. other \in Evaluations BY LineTyped DEF GateInv
    <3> HIDE DEF other
    <3> QED BY <3>1 DEF GateInv, GateTypeOK, EvaluationRecords
  <2> HIDE DEF other
  <2>5. ~WorseThroughout(e, other) BY <2>1, <2>2, <2>3, <2>4, WorseIsRegressed
  <2> QED BY <2>2, <2>5 DEF other
<1> QED BY <1>1, GateInvariant, PTL
=============================================================================
