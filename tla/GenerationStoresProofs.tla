------------------------ MODULE GenerationStoresProofs ------------------------
(***************************************************************************)
(* The two generation stores for any number of sources, files, renderings, *)
(* generations, workers and faults: StoresInv is inductive, the properties *)
(* the run checks follow from it, and either store implements the          *)
(* catalogue of GenerationCatalogue, step by step.                         *)
(***************************************************************************)
EXTENDS GenerationStores, TLAPS

-----------------------------------------------------------------------------
(* What the transactions do, row by row.                                   *)
CatalogueType ==
    /\ rows \in [Legs -> [Gens -> Statuses]]
    /\ active \in [Legs -> [Sources -> Gens \cup {None}]]
    /\ born \in [Legs -> SUBSET Gens]

LEMMA StagedEffect ==
    ASSUME CatalogueType, NEW l \in Legs, NEW g \in Gens, Staged(l, g)
    PROVE  /\ CatalogueType'
           /\ \A k \in Legs, h \in Gens :
                rows'[k][h] = IF k = l /\ h = g THEN "building" ELSE rows[k][h]
           /\ \A k \in Legs : born'[k] = IF k = l THEN born[k] \cup {g} ELSE born[k]
           /\ active' = active
BY DEF CatalogueType, Staged, Statuses

LEMMA PublishedEffect ==
    ASSUME CatalogueType, NEW l \in Legs, NEW g \in Gens, job[g] \in Jobs, Published(l, g)
    PROVE  /\ CatalogueType'
           /\ \A k \in Legs, h \in Gens :
                rows'[k][h] =
                  IF k = l /\ h = g THEN "ready"
                  ELSE IF k = l /\ h = active[l][job[g].source] /\ rows[l][h] = "ready"
                       THEN "retired" ELSE rows[k][h]
           /\ \A k \in Legs, s \in Sources :
                active'[k][s] = IF k = l /\ s = job[g].source THEN g ELSE active[k][s]
           /\ born' = born
BY DEF CatalogueType, Published, Statuses, Jobs

LEMMA RemovedEffect ==
    ASSUME CatalogueType, NEW l \in Legs, NEW s \in Sources, Removed(l, s)
    PROVE  /\ CatalogueType'
           /\ \A k \in Legs, h \in Gens :
                rows'[k][h] = IF k = l /\ h \in GensOf(s) THEN "none" ELSE rows[k][h]
           /\ \A k \in Legs, t \in Sources :
                active'[k][t] = IF k = l /\ t = s THEN None ELSE active[k][t]
           /\ born' = born
BY DEF CatalogueType, Removed, Statuses

LEMMA CollectedEffect ==
    ASSUME CatalogueType, NEW l \in Legs, NEW old, Collected(l, old)
    PROVE  /\ CatalogueType'
           /\ \A k \in Legs, h \in Gens :
                rows'[k][h] = IF k = l /\ h \in Collectable(l, old) THEN "none" ELSE rows[k][h]
           /\ active' = active
           /\ born' = born
BY DEF CatalogueType, Collected, Statuses

(* The step of one worker leaves the others where they are.                *)
WorkerType == [at : Places, gen : Gens \cup {None}, source : Sources \cup {None},
               dirs : SUBSET Hashes, old : SUBSET Gens]

LEMMA GoToEffect ==
    ASSUME worker \in [Workers -> WorkerType], NEW w \in Workers, NEW place \in Places,
           GoTo(w, place)
    PROVE  /\ worker' \in [Workers -> WorkerType]
           /\ worker'[w] = [worker[w] EXCEPT !.at = place]
           /\ \A v \in Workers \ {w} : worker'[v] = worker[v]
BY DEF GoTo, WorkerType

LEMMA GoToPlace ==
    ASSUME worker \in [Workers -> WorkerType], NEW w \in Workers, NEW place \in Places,
           GoTo(w, place)
    PROVE  /\ worker'[w].at = place
           /\ worker'[w].gen = worker[w].gen
           /\ \A v \in Workers \ {w} : worker'[v] = worker[v]
<1>1. worker'[w] = [worker[w] EXCEPT !.at = place] BY GoToEffect
<1>2. \A v \in Workers \ {w} : worker'[v] = worker[v] BY GoToEffect
<1>3. worker[w] \in WorkerType OBVIOUS
<1>4. QED BY <1>1, <1>2, <1>3 DEF WorkerType

LEMMA RestEffect ==
    ASSUME worker \in [Workers -> WorkerType], NEW w \in Workers, Rest(w)
    PROVE  /\ worker' \in [Workers -> WorkerType]
           /\ worker'[w] = Idle
           /\ \A v \in Workers \ {w} : worker'[v] = worker[v]
BY DEF Rest, WorkerType, Idle, Places

LEMMA TypesSplit ==
    TypeOK <=>
        /\ CatalogueType
        /\ worker \in [Workers -> WorkerType]
        /\ job \in [Gens -> Jobs \cup {None}]
        /\ staging \subseteq Gens
        /\ assets \in [Hashes -> Renders \cup {None, Torn}]
        /\ exposed \subseteq Gens
        /\ left \subseteq Hashes
        /\ faults \in 0 .. MaxFaults
BY DEF TypeOK, CatalogueType, WorkerType

LEMMA TypesSplitNext ==
    TypeOK' <=>
        /\ CatalogueType'
        /\ worker' \in [Workers -> WorkerType]
        /\ job' \in [Gens -> Jobs \cup {None}]
        /\ staging' \subseteq Gens
        /\ assets' \in [Hashes -> Renders \cup {None, Torn}]
        /\ exposed' \subseteq Gens
        /\ left' \subseteq Hashes
        /\ faults' \in 0 .. MaxFaults
BY DEF TypeOK, CatalogueType, WorkerType

LEMMA FaultType ==
    ASSUME faults \in 0 .. MaxFaults, Fault
    PROVE  faults' \in 0 .. MaxFaults
BY StoreAssumption DEF Fault

LEMMA ReferencedType ==
    ASSUME TypeOK, RowsOK
    PROVE  Referenced \in SUBSET Hashes
<1>1. ASSUME NEW s \in Sources, active["visual"][s] # None
      PROVE  job[active["visual"][s]].hash \in Hashes
  <2>1. job[active["visual"][s]] # None BY <1>1 DEF RowsOK, Legs
  <2>2. active["visual"][s] \in Gens BY <1>1 DEF TypeOK, Legs
  <2>3. QED BY <2>1, <2>2 DEF TypeOK, Jobs
<1>2. QED BY <1>1 DEF Referenced

-----------------------------------------------------------------------------
(* Types. *)
USE DEF Building, Unstaged, Locking

LEMMA InitTypes == Init => TypeOK
BY StoreAssumption DEF Init, TypeOK, Idle, Places, Statuses

LEMMA StartBuildEffect ==
    ASSUME TypeOK, NEW w \in Workers, NEW g \in Gens,
           NEW place \in Places, StartBuild(w, g, place)
    PROVE  /\ worker' \in [Workers -> WorkerType]
           /\ worker'[w].at = place /\ worker'[w].gen = g
           /\ \A v \in Workers \ {w} : worker'[v] = worker[v]
           /\ job' \in [Gens -> Jobs \cup {None}]
           /\ job'[g] \in Jobs
           /\ \A h \in Gens \ {g} : job'[h] = job[h]
           /\ job[g] = None /\ At(w, "idle")
           /\ UNCHANGED <<files, history, faults>>
<1> USE TypesSplit
<1>1. PICK j \in Jobs : job' = [job EXCEPT ![g] = j] BY DEF StartBuild
<1>2. worker' = [worker EXCEPT ![w].at = place, ![w].gen = g] BY DEF StartBuild
<1>3. /\ worker' \in [Workers -> WorkerType]
      /\ worker'[w].at = place /\ worker'[w].gen = g
      /\ \A v \in Workers \ {w} : worker'[v] = worker[v]
      BY <1>2 DEF WorkerType
<1>4. QED BY <1>1, <1>3 DEF StartBuild

LEMMA TypesStep ==
    ASSUME TypeOK, RowsOK, WorkersOK, [Next]_vars
    PROVE  TypeOK'
<1> SUFFICES /\ CatalogueType'
             /\ worker' \in [Workers -> WorkerType]
             /\ job' \in [Gens -> Jobs \cup {None}]
             /\ staging' \subseteq Gens
             /\ assets' \in [Hashes -> Renders \cup {None, Torn}]
             /\ exposed' \subseteq Gens
             /\ left' \subseteq Hashes
             /\ faults' \in 0 .. MaxFaults
    BY TypesSplitNext
<1> USE TypesSplit
<1>0. Referenced \in SUBSET Hashes BY ReferencedType
<1>1. ASSUME NEW w \in Workers, RaptorStage(w) PROVE TypeOK'
  <2>1. PICK g \in Gens : StartBuild(w, g, "raptor_publish") /\ Staged("raptor", g)
        BY <1>1 DEF RaptorStage
  <2>2. CatalogueType' BY <2>1, StagedEffect DEF Legs
  <2>3. QED BY <2>1, <2>2, StartBuildEffect, TypesSplitNext DEF Places, files, history
<1>2. ASSUME NEW w \in Workers, RaptorSkip(w) PROVE TypeOK'
  <2>1. PICK g \in Gens : StartBuild(w, g, "visual_stage") /\ UNCHANGED catalogue
        BY <1>2 DEF RaptorSkip
  <2>2. CatalogueType' BY <2>1 DEF CatalogueType, catalogue
  <2>3. QED BY <2>1, <2>2, StartBuildEffect, TypesSplitNext DEF Places, files, history
<1> DEFINE Builds(w) == worker[w].gen \in Gens /\ job[worker[w].gen] \in Jobs
<1>b. \A w \in Workers : worker[w].at \in Building => Builds(w) BY DEF WorkersOK
<1>3. ASSUME NEW w \in Workers, RaptorPublish(w) PROVE TypeOK'
  <2>1. CatalogueType' BY <1>3, <1>b, PublishedEffect DEF RaptorPublish, At, Legs
  <2>2. QED BY <1>3, <2>1, GoToEffect, TypesSplitNext DEF RaptorPublish, Places, files, history
<1>4. ASSUME NEW w \in Workers, RaptorPublishRaises(w) PROVE TypeOK'
  <2>1. faults' \in 0 .. MaxFaults BY <1>4, FaultType DEF RaptorPublishRaises
  <2>2. QED BY <1>4, <2>1, GoToEffect, TypesSplitNext
            DEF RaptorPublishRaises, Places, files, history, catalogue, CatalogueType
<1>5. ASSUME NEW w \in Workers, VisualSkip(w) PROVE TypeOK'
      BY <1>5, RestEffect, TypesSplitNext DEF VisualSkip, files, history, catalogue, CatalogueType
<1>6. ASSUME NEW w \in Workers, VisualFiles(w) PROVE TypeOK'
      BY <1>6, <1>b, GoToEffect, TypesSplitNext
         DEF VisualFiles, At, Places, history, catalogue, CatalogueType
<1>7. ASSUME NEW w \in Workers, VisualRows(w) PROVE TypeOK'
  <2>1. CatalogueType' BY <1>7, <1>b, StagedEffect DEF VisualRows, At, Legs
  <2>2. QED BY <1>7, <2>1, GoToEffect, TypesSplitNext DEF VisualRows, Places, files, history
<1>8. ASSUME NEW w \in Workers, VisualRowsRaise(w) PROVE TypeOK'
      BY <1>8, RestEffect, FaultType, TypesSplitNext
         DEF VisualRowsRaise, history, catalogue, CatalogueType
<1>9. ASSUME NEW w \in Workers, VisualMove(w) PROVE TypeOK'
  <2> DEFINE g == worker[w].gen
  <2>1. g \in Gens /\ job[g] \in Jobs BY <1>9, <1>b DEF VisualMove, At
  <2>a. PICK torn \in {FALSE, Vanishing(g)} :
          /\ assets' = [assets EXCEPT ![job[g].hash] = IF torn THEN Torn ELSE job[g].pages]
          /\ exposed' = IF torn \/ Endangered(job[g].hash) THEN exposed \cup {g} ELSE exposed
        BY <1>9 DEF VisualMove
  <2>2. assets' \in [Hashes -> Renders \cup {None, Torn}]
        BY <2>a, <2>1 DEF Jobs
  <2>3. exposed' \subseteq Gens BY <2>a, <2>1
  <2>4. QED BY <1>9, <2>2, <2>3, GoToEffect, TypesSplitNext
            DEF VisualMove, Places, catalogue, CatalogueType
<1>10. ASSUME NEW w \in Workers, VisualRefused(w) \/ VisualMoveRaises(w) PROVE TypeOK'
      BY <1>10, RestEffect, TypesSplitNext
         DEF VisualRefused, VisualMoveRaises, files, history, catalogue, CatalogueType
<1>25. ASSUME NEW w \in Workers, VisualValidate(w) PROVE TypeOK'
      BY <1>25, GoToEffect, TypesSplitNext
         DEF VisualValidate, Places, files, history, catalogue, CatalogueType
<1>26. ASSUME NEW w \in Workers, VisualFilesGone(w) PROVE TypeOK'
      BY <1>26, GoToEffect, TypesSplitNext
         DEF VisualFilesGone, Places, history, catalogue, CatalogueType
<1>11. ASSUME NEW w \in Workers, VisualCommit(w) PROVE TypeOK'
  <2>1. CatalogueType' BY <1>11, <1>b, PublishedEffect DEF VisualCommit, At, Legs
  <2>2. QED BY <1>11, <2>1, GoToEffect, TypesSplitNext DEF VisualCommit, Places, files, history
<1>12. ASSUME NEW w \in Workers, VisualCommitRaises(w) PROVE TypeOK'
  <2>1. left' \subseteq Hashes BY <1>12, <1>b DEF VisualCommitRaises, At, Jobs
  <2>2. QED BY <1>12, <2>1, RestEffect, FaultType, TypesSplitNext
            DEF VisualCommitRaises, files, catalogue, CatalogueType
<1>13. ASSUME NEW w \in Workers, SweepRead(w) PROVE TypeOK'
  <2>1. worker' = [worker EXCEPT ![w] = [Idle EXCEPT !.at = "sweep_list", !.dirs = Referenced]]
        BY <1>13 DEF SweepRead
  <2>2. [Idle EXCEPT !.at = "sweep_list", !.dirs = Referenced] \in WorkerType
        BY <1>0 DEF Idle, WorkerType, Places
  <2>3. worker' \in [Workers -> WorkerType] BY <2>1, <2>2
  <2>4. QED BY <1>13, <2>3, TypesSplitNext
            DEF SweepRead, files, history, catalogue, CatalogueType
<1>14. ASSUME NEW w \in Workers, SweepList(w) PROVE TypeOK'
  <2> DEFINE dirs == {h \in Hashes : assets[h] # None} \ worker[w].dirs
             next == IF dirs = {} THEN Idle
                     ELSE [worker[w] EXCEPT !.at = "sweep_delete", !.dirs = dirs]
  <2>0. next \in WorkerType
    <3>1. Idle \in WorkerType BY DEF Idle, WorkerType, Places
    <3>2. worker[w] \in WorkerType /\ "sweep_delete" \in Places BY DEF Places
    <3>3. QED BY <3>1, <3>2 DEF WorkerType
  <2>a. worker' = [worker EXCEPT ![w] = next] BY <1>14 DEF SweepList
  <2>1. worker' \in [Workers -> WorkerType] BY <2>0, <2>a
  <2>2. QED BY <1>14, <2>1, TypesSplitNext
            DEF SweepList, files, history, catalogue, CatalogueType
<1>15. ASSUME NEW w \in Workers, SweepDelete(w) PROVE TypeOK'
  <2>a. PICK h \in worker[w].dirs :
          worker' = [worker EXCEPT ![w] = IF worker[w].dirs = {h} THEN Idle
                                          ELSE [worker[w] EXCEPT !.dirs = @ \ {h}]]
        BY <1>15 DEF SweepDelete
  <2>b. Idle \in WorkerType BY DEF Idle, WorkerType, Places
  <2>c. worker[w] \in WorkerType OBVIOUS
  <2>d. [worker[w] EXCEPT !.dirs = @ \ {h}] \in WorkerType BY <2>c DEF WorkerType
  <2> DEFINE next == IF worker[w].dirs = {h} THEN Idle
                     ELSE [worker[w] EXCEPT !.dirs = @ \ {h}]
  <2>e. next \in WorkerType BY <2>b, <2>d
  <2>f. worker' = [worker EXCEPT ![w] = next] BY <2>a
  <2>1. worker' \in [Workers -> WorkerType]
    <3> HIDE DEF next
    <3> QED BY <2>e, <2>f
  <2>2. QED BY <1>15, <2>1, TypesSplitNext
            DEF SweepDelete, catalogue, CatalogueType
<1>16. ASSUME NEW w \in Workers, RaptorRemove(w) PROVE TypeOK'
  <2>1. PICK s \in Sources :
          /\ worker' = [worker EXCEPT ![w].at = "visual_remove", ![w].source = s]
          /\ \/ Removed("raptor", s) /\ UNCHANGED faults
             \/ UNCHANGED catalogue /\ Fault
        BY <1>16 DEF RaptorRemove
  <2>2. CatalogueType' /\ faults' \in 0 .. MaxFaults
        BY <2>1, RemovedEffect, FaultType DEF Legs, catalogue, CatalogueType
  <2>a. "visual_remove" \in Places BY DEF Places
  <2> DEFINE next == [worker[w] EXCEPT !.at = "visual_remove", !.source = s]
  <2>b. worker[w] \in WorkerType OBVIOUS
  <2>c. next \in WorkerType BY <2>a, <2>b DEF WorkerType
  <2>d. worker' = [worker EXCEPT ![w] = next] BY <2>1
  <2>3. worker' \in [Workers -> WorkerType]
    <3> HIDE DEF next
    <3> QED BY <2>c, <2>d
  <2>4. QED BY <1>16, <2>2, <2>3, TypesSplitNext DEF RaptorRemove, files, history
<1>17. ASSUME NEW w \in Workers, VisualRemove(w) PROVE TypeOK'
  <2>1. worker[w].source \in Sources BY <1>17 DEF VisualRemove, WorkersOK, At
  <2>2. CatalogueType' BY <1>17, <2>1, RemovedEffect DEF VisualRemove, Legs
  <2>3. QED BY <1>17, <2>2, GoToEffect, TypesSplitNext DEF VisualRemove, Places, files, history
<1>18. ASSUME NEW w \in Workers, VisualRemoveRaises(w) PROVE TypeOK'
      BY <1>18, RestEffect, FaultType, TypesSplitNext
         DEF VisualRemoveRaises, files, history, catalogue, CatalogueType
<1>19. ASSUME NEW w \in Workers, RaptorCollect(w) PROVE TypeOK'
  <2>1. PICK old : Collected("raptor", old) BY <1>19 DEF RaptorCollect
  <2>2. CatalogueType' BY <2>1, CollectedEffect DEF Legs
  <2>3. QED BY <1>19, <2>2, TypesSplitNext DEF RaptorCollect, files, history
<1>20. ASSUME NEW w \in Workers, VisualCollectFiles(w) PROVE TypeOK'
  <2>1. PICK old \in SUBSET Gens :
          worker' = [worker EXCEPT ![w].at = "visual_sweep", ![w].old = old]
        BY <1>20 DEF VisualCollectFiles
  <2>a. "visual_sweep" \in Places BY DEF Places
  <2> DEFINE next == [worker[w] EXCEPT !.at = "visual_sweep", !.old = old]
  <2>b. worker[w] \in WorkerType OBVIOUS
  <2>c. next \in WorkerType BY <2>a, <2>b DEF WorkerType
  <2>d. worker' = [worker EXCEPT ![w] = next] BY <2>1
  <2>2. worker' \in [Workers -> WorkerType]
    <3> HIDE DEF next
    <3> QED BY <2>c, <2>d
  <2>3. QED BY <1>20, <2>1, <2>2, TypesSplitNext
            DEF VisualCollectFiles, files, history, catalogue, CatalogueType
<1>21. ASSUME NEW w \in Workers, VisualCollect(w) PROVE TypeOK'
  <2>1. CatalogueType' BY <1>21, CollectedEffect DEF VisualCollect, Legs
  <2>a. "sweep_read" \in Places BY DEF Places
  <2> DEFINE next == [worker[w] EXCEPT !.at = "sweep_read", !.old = {}]
  <2>b. worker[w] \in WorkerType OBVIOUS
  <2>c. next \in WorkerType BY <2>a, <2>b DEF WorkerType
  <2>d. worker' = [worker EXCEPT ![w] = next] BY <1>21 DEF VisualCollect
  <2>2. worker' \in [Workers -> WorkerType]
    <3> HIDE DEF next
    <3> QED BY <2>c, <2>d
  <2>3. QED BY <1>21, <2>1, <2>2, TypesSplitNext DEF VisualCollect, files, history
<1>22. ASSUME Restart PROVE TypeOK'
  <2>1. worker' \in [Workers -> WorkerType] BY <1>22 DEF Restart, Idle, WorkerType, Places
  <2>2. QED BY <1>22, <2>1, FaultType, TypesSplitNext
            DEF Restart, files, catalogue, CatalogueType
<1>23. CASE UNCHANGED vars
      BY <1>23, TypesSplitNext DEF vars, CatalogueType
<1>24. QED
      BY <1>1, <1>2, <1>3, <1>4, <1>5, <1>6, <1>7, <1>8, <1>9, <1>10, <1>11, <1>12, <1>13,
         <1>14, <1>15, <1>16, <1>17, <1>18, <1>19, <1>20, <1>21, <1>22, <1>23, <1>25, <1>26,
         TypesSplitNext
         DEF Next, Step

-----------------------------------------------------------------------------
(* Every step is one transaction on one store, or none. *)
NewJob == \E g \in Gens :
    /\ job[g] = None
    /\ job'[g] \in Jobs
    /\ \A h \in Gens \ {g} : job'[h] = job[h]

Transaction ==
    \/ UNCHANGED catalogue /\ (UNCHANGED job \/ NewJob)
    \/ \E l \in Legs, g \in Gens :
         Staged(l, g) /\ g \notin born[l] /\ job'[g] \in Jobs /\ (UNCHANGED job \/ NewJob)
    \/ \E l \in Legs, g \in Gens :
         Published(l, g) /\ rows[l][g] = "building" /\ job[g] \in Jobs /\ UNCHANGED job
    \/ \E l \in Legs, s \in Sources : Removed(l, s) /\ UNCHANGED job
    \/ \E l \in Legs, old \in SUBSET Gens : Collected(l, old) /\ UNCHANGED job

LEMMA TransactionStep ==
    ASSUME TypeOK, RowsOK, WorkersOK, [Next]_vars
    PROVE  Transaction
<1> USE DEF Legs
<1>0. ASSUME UNCHANGED <<catalogue, job>> PROVE Transaction BY <1>0 DEF Transaction
<1> DEFINE Builds(w) == worker[w].gen \in Gens /\ job[worker[w].gen] \in Jobs
<1>b. \A w \in Workers : worker[w].at \in Building => Builds(w) BY DEF WorkersOK, TypeOK
<1>1. ASSUME NEW w \in Workers, RaptorStage(w) PROVE Transaction
  <2>1. PICK g \in Gens : StartBuild(w, g, "raptor_publish") /\ Staged("raptor", g)
        BY <1>1 DEF RaptorStage
  <2>2. NewJob /\ job'[g] \in Jobs /\ job[g] = None BY <2>1, StartBuildEffect DEF NewJob, Places
  <2>3. g \notin born["raptor"] BY <2>2 DEF RowsOK
  <2>4. QED BY <2>1, <2>2, <2>3 DEF Transaction
<1>2. ASSUME NEW w \in Workers, RaptorSkip(w) PROVE Transaction
  <2>1. PICK g \in Gens : StartBuild(w, g, "visual_stage") /\ UNCHANGED catalogue
        BY <1>2 DEF RaptorSkip
  <2>2. NewJob BY <2>1, StartBuildEffect DEF NewJob, Places
  <2>3. QED BY <2>1, <2>2 DEF Transaction
<1>3. ASSUME NEW w \in Workers, RaptorPublish(w) PROVE Transaction
  <2>1. Builds(w) BY <1>3, <1>b DEF RaptorPublish, At
  <2>2. QED BY <1>3, <2>1 DEF RaptorPublish, Publishable, Transaction
<1>7. ASSUME NEW w \in Workers, VisualRows(w) PROVE Transaction
  <2>1. Builds(w) /\ worker[w].gen \notin born["visual"]
        BY <1>7, <1>b DEF VisualRows, At, WorkersOK
  <2>2. QED BY <1>7, <2>1 DEF VisualRows, Transaction
<1>11. ASSUME NEW w \in Workers, VisualCommit(w) PROVE Transaction
  <2>1. Builds(w) /\ rows["visual"][worker[w].gen] = "building"
        BY <1>11, <1>b DEF VisualCommit, At, WorkersOK
  <2>2. QED BY <1>11, <2>1 DEF VisualCommit, Transaction
<1>16. ASSUME NEW w \in Workers, RaptorRemove(w) PROVE Transaction
  <2>1. PICK s \in Sources : \/ Removed("raptor", s)
                             \/ UNCHANGED catalogue
        BY <1>16 DEF RaptorRemove
  <2>2. UNCHANGED job BY <1>16 DEF RaptorRemove
  <2>3. QED BY <2>1, <2>2 DEF Transaction
<1>17. ASSUME NEW w \in Workers, VisualRemove(w) PROVE Transaction
  <2>1. worker[w].source \in Sources BY <1>17 DEF VisualRemove, WorkersOK, At
  <2>2. QED BY <1>17, <2>1 DEF VisualRemove, Transaction
<1>19. ASSUME NEW w \in Workers, RaptorCollect(w) PROVE Transaction
  <2>1. PICK old \in SUBSET Gens : Collected("raptor", old)
        BY <1>19 DEF RaptorCollect, TypeOK
  <2>2. QED BY <1>19, <2>1 DEF RaptorCollect, Transaction
<1>21. ASSUME NEW w \in Workers, VisualCollect(w) PROVE Transaction
  <2>1. worker[w].old \in SUBSET Gens BY DEF TypeOK
  <2>2. QED BY <1>21, <2>1 DEF VisualCollect, Transaction
<1>22. ASSUME NEW w \in Workers,
              \/ RaptorPublishRaises(w) \/ VisualSkip(w) \/ VisualFiles(w)
              \/ VisualRowsRaise(w) \/ VisualValidate(w) \/ VisualRefused(w)
              \/ VisualMove(w) \/ VisualMoveRaises(w)
              \/ VisualCommitRaises(w) \/ SweepRead(w) \/ SweepList(w) \/ SweepDelete(w)
              \/ VisualRemoveRaises(w) \/ VisualCollectFiles(w) \/ VisualFilesGone(w)
       PROVE  UNCHANGED <<catalogue, job>>
       BY <1>22 DEF RaptorPublishRaises, VisualSkip, VisualFiles, VisualRowsRaise,
              VisualValidate, VisualRefused, VisualMove, VisualMoveRaises,
              VisualCommitRaises, SweepRead, SweepList, SweepDelete,
              VisualRemoveRaises, VisualCollectFiles, VisualFilesGone
<1>23. Restart \/ UNCHANGED vars => UNCHANGED <<catalogue, job>>
       BY DEF Restart, vars, catalogue
<1>24. QED
       BY <1>0, <1>1, <1>2, <1>3, <1>7, <1>11, <1>16, <1>17, <1>19, <1>21, <1>22, <1>23
          DEF Next, Step

LEMMA RowsStep ==
    ASSUME TypeOK, RowsOK, ReadyIsActive, Transaction
    PROVE  RowsOK' /\ ReadyIsActive'
<1> USE StoreAssumption DEF Legs, Statuses
<1>t. CatalogueType /\ job \in [Gens -> Jobs \cup {None}] BY TypesSplit
<1>n. None \notin Jobs BY DEF Jobs
<1>1. CASE UNCHANGED catalogue /\ (UNCHANGED job \/ NewJob)
  <2>1. \A g \in Gens : job[g] # None => job'[g] = job[g]
        BY <1>1 DEF NewJob
  <2>2. \A l \in Legs, s \in Sources : active[l][s] # None => active[l][s] \in Gens
        BY <1>t DEF CatalogueType
  <2>3. RowsOK' BY <1>1, <2>1, <2>2 DEF RowsOK, catalogue
  <2>4. ASSUME NEW l \in Legs, NEW g \in Gens
        PROVE  (rows'[l][g] = "ready") <=> (job'[g] # None /\ active'[l][job'[g].source] = g)
    <3>1. CASE job'[g] = job[g] BY <1>1, <3>1 DEF ReadyIsActive, catalogue
    <3>2. CASE job'[g] # job[g]
      <4>1. job[g] = None /\ job'[g] \in Jobs BY <1>1, <3>2 DEF NewJob
      <4>2. rows[l][g] = "none" BY <4>1 DEF RowsOK
      <4>3. active[l][job'[g].source] # g BY <4>1 DEF RowsOK, Jobs
      <4>4. QED BY <1>1, <4>2, <4>3 DEF catalogue
    <3>3. QED BY <3>1, <3>2
  <2>5. QED BY <2>3, <2>4 DEF ReadyIsActive
<1>2. ASSUME NEW l \in Legs, NEW g \in Gens,
             Staged(l, g), g \notin born[l], job'[g] \in Jobs, UNCHANGED job \/ NewJob
      PROVE  RowsOK' /\ ReadyIsActive'
  <2>1. /\ \A k \in Legs, h \in Gens :
             rows'[k][h] = IF k = l /\ h = g THEN "building" ELSE rows[k][h]
        /\ \A k \in Legs : born'[k] = IF k = l THEN born[k] \cup {g} ELSE born[k]
        /\ active' = active
    <3> HIDE DEF Legs, Statuses
    <3>1. Staged(l, g) BY <1>2
    <3>2. QED BY <3>1, <1>t, StagedEffect
  <2>2. \A h \in Gens : job[h] # None => job'[h] = job[h] BY <1>2 DEF NewJob
  <2>3. \A k \in Legs, s \in Sources : active[k][s] # None => active[k][s] \in Gens
        BY <1>t DEF CatalogueType
  <2>4. rows[l][g] = "none" BY <1>2 DEF RowsOK
  <2>5. RowsOK' BY <1>2, <1>n, <2>1, <2>2, <2>3 DEF RowsOK
  <2>6. ASSUME NEW k \in Legs, NEW h \in Gens
        PROVE  (rows'[k][h] = "ready") <=> (job'[h] # None /\ active'[k][job'[h].source] = h)
    <3>1. CASE job'[h] = job[h] BY <2>1, <2>4, <3>1 DEF ReadyIsActive
    <3>2. CASE job'[h] # job[h]
      <4>1. job[h] = None /\ job'[h] \in Jobs BY <1>2, <3>2 DEF NewJob
      <4>2. rows[k][h] = "none" BY <4>1 DEF RowsOK
      <4>3. active[k][job'[h].source] # h BY <4>1 DEF RowsOK, Jobs
      <4>4. QED BY <2>1, <4>2, <4>3
    <3>3. QED BY <3>1, <3>2
  <2>7. QED BY <2>5, <2>6 DEF ReadyIsActive
<1>3. ASSUME NEW l \in Legs, NEW g \in Gens,
             Published(l, g), rows[l][g] = "building", job[g] \in Jobs, UNCHANGED job
      PROVE  RowsOK' /\ ReadyIsActive'
  <2>1. /\ \A k \in Legs, h \in Gens :
             rows'[k][h] =
               IF k = l /\ h = g THEN "ready"
               ELSE IF k = l /\ h = active[l][job[g].source] /\ rows[l][h] = "ready"
                    THEN "retired" ELSE rows[k][h]
        /\ \A k \in Legs, s \in Sources :
             active'[k][s] = IF k = l /\ s = job[g].source THEN g ELSE active[k][s]
        /\ born' = born
        BY <1>3, <1>t, PublishedEffect
  <2>2. RowsOK' BY <1>3, <1>n, <2>1 DEF RowsOK
  <2>3. ASSUME NEW k \in Legs, NEW h \in Gens
        PROVE  (rows'[k][h] = "ready") <=> (job[h] # None /\ active'[k][job[h].source] = h)
    <3>1. job[h] # None => job[h].source \in Sources BY <1>t DEF Jobs
    <3>2. job[g].source \in Sources /\ job[g] # None BY <1>3, <1>n DEF Jobs
    <3>3. (rows[k][h] = "ready") <=> (job[h] # None /\ active[k][job[h].source] = h)
          BY DEF ReadyIsActive
    <3>4. CASE k # l BY <2>1, <3>1, <3>3, <3>4
    <3>5. CASE k = l /\ h = g BY <2>1, <3>2, <3>5
    <3>6. CASE k = l /\ h # g
      <4>1. CASE job[h] # None /\ job[h].source = job[g].source
            BY <2>1, <3>1, <3>3, <3>6, <4>1
      <4>2. CASE ~(job[h] # None /\ job[h].source = job[g].source)
        <5>1. ~(h = active[l][job[g].source]) BY <3>2, <4>2 DEF RowsOK
        <5>2. QED BY <2>1, <3>1, <3>3, <3>6, <4>2, <5>1
      <4>3. QED BY <4>1, <4>2
    <3>7. QED BY <3>4, <3>5, <3>6
  <2>4. QED BY <1>3, <2>2, <2>3 DEF ReadyIsActive
<1>4. ASSUME NEW l \in Legs, NEW s \in Sources, Removed(l, s), UNCHANGED job
      PROVE  RowsOK' /\ ReadyIsActive'
  <2>1. /\ \A k \in Legs, h \in Gens :
             rows'[k][h] = IF k = l /\ h \in GensOf(s) THEN "none" ELSE rows[k][h]
        /\ \A k \in Legs, t \in Sources :
             active'[k][t] = IF k = l /\ t = s THEN None ELSE active[k][t]
        /\ born' = born
        BY <1>4, <1>t, RemovedEffect
  <2>2. RowsOK' BY <1>4, <2>1 DEF RowsOK
  <2>3. ASSUME NEW k \in Legs, NEW h \in Gens
        PROVE  (rows'[k][h] = "ready") <=> (job[h] # None /\ active'[k][job[h].source] = h)
    <3>1. job[h] # None => job[h].source \in Sources BY <1>t DEF Jobs
    <3>2. (rows[k][h] = "ready") <=> (job[h] # None /\ active[k][job[h].source] = h)
          BY DEF ReadyIsActive
    <3>3. h # None OBVIOUS
    <3>4. QED BY <2>1, <3>1, <3>2, <3>3 DEF GensOf
  <2>4. QED BY <1>4, <2>2, <2>3 DEF ReadyIsActive
<1>5. ASSUME NEW l \in Legs, NEW old \in SUBSET Gens, Collected(l, old), UNCHANGED job
      PROVE  RowsOK' /\ ReadyIsActive'
  <2>1. /\ \A k \in Legs, h \in Gens :
             rows'[k][h] = IF k = l /\ h \in Collectable(l, old) THEN "none" ELSE rows[k][h]
        /\ active' = active
        /\ born' = born
        BY <1>5, <1>t, CollectedEffect
  <2>2. RowsOK' BY <1>5, <2>1, <1>t DEF RowsOK, CatalogueType
  <2>3. \A h \in Collectable(l, old) : rows[l][h] # "ready" BY DEF Collectable
  <2>4. QED BY <1>5, <2>1, <2>2, <2>3 DEF ReadyIsActive
<1>6. QED BY <1>1, <1>2, <1>3, <1>4, <1>5 DEF Transaction

-----------------------------------------------------------------------------
(* Either store against GenerationCatalogue.  The steps of the catalogue,  *)
(* over the fate and the source of a generation in store l.                *)
Offers(l, g, s) ==
    /\ Fate(l)[g] = "unborn"
    /\ Fate(l)' = [Fate(l) EXCEPT ![g] = "offered"]
    /\ Of(l)' = [Of(l) EXCEPT ![g] = s]

Forgets(l, G) ==
    /\ Fate(l)' = [g \in Gens |-> IF g \in G THEN "gone" ELSE Fate(l)[g]]
    /\ Of(l)' = [g \in Gens |-> IF g \in G THEN None ELSE Of(l)[g]]

Seen(l, s) == {g \in Gens : Of(l)[g] = s /\ Fate(l)[g] = "visible"}

Publishes(l, g) ==
    /\ Fate(l)[g] = "offered"
    /\ Fate(l)' = [h \in Gens |-> IF h = g THEN "visible"
                                  ELSE IF h \in Seen(l, Of(l)[g]) THEN "gone" ELSE Fate(l)[h]]
    /\ Of(l)' = [h \in Gens |-> IF h \in Seen(l, Of(l)[g]) THEN None ELSE Of(l)[h]]

CatalogueStep(l) ==
    \/ UNCHANGED <<Fate(l), Of(l)>>
    \/ \E g \in Gens, s \in Sources : Offers(l, g, s)
    \/ \E g \in Gens : Publishes(l, g)
    \/ \E s \in Sources : Forgets(l, {g \in Gens : Of(l)[g] = s})
    \/ \E G \in SUBSET {g \in Gens : Fate(l)[g] = "offered"} : Forgets(l, G)

LEMMA FateOf ==
    ASSUME NEW l \in Legs
    PROVE  /\ Fate(l) = [g \in Gens |-> Fate(l)[g]]
           /\ Of(l) = [g \in Gens |-> Of(l)[g]]
           /\ \A g \in Gens :
                /\ Fate(l)[g] = IF rows[l][g] = "none" /\ g \notin born[l] THEN "unborn"
                                ELSE IF rows[l][g] = "building" THEN "offered"
                                ELSE IF rows[l][g] = "ready" THEN "visible" ELSE "gone"
                /\ Of(l)[g] = IF rows[l][g] \in {"building", "ready"} THEN job[g].source ELSE None
BY DEF Fate, Of

LEMMA FateOfNext ==
    ASSUME NEW l \in Legs
    PROVE  /\ Fate(l)' = [g \in Gens |-> Fate(l)'[g]]
           /\ Of(l)' = [g \in Gens |-> Of(l)'[g]]
           /\ \A g \in Gens :
                /\ Fate(l)'[g] = IF rows'[l][g] = "none" /\ g \notin born'[l] THEN "unborn"
                                 ELSE IF rows'[l][g] = "building" THEN "offered"
                                 ELSE IF rows'[l][g] = "ready" THEN "visible" ELSE "gone"
                /\ Of(l)'[g] = IF rows'[l][g] \in {"building", "ready"} THEN job'[g].source ELSE None
BY DEF Fate, Of

LEMMA RefinementStep ==
    ASSUME TypeOK, RowsOK, ReadyIsActive, Transaction, NEW l \in Legs
    PROVE  CatalogueStep(l)
<1> USE StoreAssumption
<1>t. CatalogueType /\ job \in [Gens -> Jobs \cup {None}] BY TypesSplit
<1>n. None \notin Jobs BY DEF Jobs
<1>f. /\ Fate(l) = [g \in Gens |-> Fate(l)[g]]
      /\ Of(l) = [g \in Gens |-> Of(l)[g]]
      /\ Fate(l)' = [g \in Gens |-> Fate(l)'[g]]
      /\ Of(l)' = [g \in Gens |-> Of(l)'[g]]
      BY FateOf, FateOfNext
<1>g. \A g \in Gens :
        /\ Fate(l)[g] = IF rows[l][g] = "none" /\ g \notin born[l] THEN "unborn"
                        ELSE IF rows[l][g] = "building" THEN "offered"
                        ELSE IF rows[l][g] = "ready" THEN "visible" ELSE "gone"
        /\ Of(l)[g] = IF rows[l][g] \in {"building", "ready"} THEN job[g].source ELSE None
        /\ Fate(l)'[g] = IF rows'[l][g] = "none" /\ g \notin born'[l] THEN "unborn"
                         ELSE IF rows'[l][g] = "building" THEN "offered"
                         ELSE IF rows'[l][g] = "ready" THEN "visible" ELSE "gone"
        /\ Of(l)'[g] = IF rows'[l][g] \in {"building", "ready"} THEN job'[g].source ELSE None
      BY FateOf, FateOfNext
<1>r. \A g \in Gens : rows[l][g] # "none" => g \in born[l] /\ job[g] # None
      BY DEF RowsOK
<1>j. \A g \in Gens : job[g] # None => job[g].source \in Sources BY <1>t DEF Jobs
<1>s. ASSUME \A g \in Gens : Fate(l)'[g] = Fate(l)[g] /\ Of(l)'[g] = Of(l)[g]
      PROVE  UNCHANGED <<Fate(l), Of(l)>>
      BY <1>f, <1>s
<1>1. CASE UNCHANGED catalogue /\ (UNCHANGED job \/ NewJob)
  <2>1. \A g \in Gens : job[g] # None => job'[g] = job[g] BY <1>1 DEF NewJob
  <2>2. \A g \in Gens : Fate(l)'[g] = Fate(l)[g] /\ Of(l)'[g] = Of(l)[g]
        BY <1>1, <1>g, <1>r, <2>1 DEF catalogue
  <2>3. QED BY <2>2, <1>s DEF CatalogueStep
<1>2. ASSUME NEW k \in Legs, NEW g \in Gens,
             Staged(k, g), g \notin born[k], job'[g] \in Jobs, UNCHANGED job \/ NewJob
      PROVE  CatalogueStep(l)
  <2>1. /\ \A m \in Legs, h \in Gens :
             rows'[m][h] = IF m = k /\ h = g THEN "building" ELSE rows[m][h]
        /\ \A m \in Legs : born'[m] = IF m = k THEN born[m] \cup {g} ELSE born[m]
    <3> HIDE StoreAssumption
    <3> QED BY <1>2, <1>t, StagedEffect
  <2>2. \A h \in Gens : job[h] # None => job'[h] = job[h] BY <1>2 DEF NewJob
  <2>3. CASE k # l
    <3>1. \A h \in Gens : Fate(l)'[h] = Fate(l)[h] /\ Of(l)'[h] = Of(l)[h]
      <4>1. (\A h \in Gens : rows'[l][h] = rows[l][h]) /\ born'[l] = born[l] BY <2>1, <2>3
      <4>2. QED BY <4>1, <1>g, <1>r, <2>2
    <3>2. QED BY <3>1, <1>s DEF CatalogueStep
  <2>4. CASE k = l
    <3>1. rows[l][g] = "none" /\ Fate(l)[g] = "unborn" BY <1>2, <1>g, <1>r, <2>4
    <3>2. \A h \in Gens : Fate(l)'[h] = IF h = g THEN "offered" ELSE Fate(l)[h]
      <4>1. /\ \A h \in Gens : rows'[l][h] = IF h = g THEN "building" ELSE rows[l][h]
            /\ born'[l] = born[l] \cup {g}
            BY <2>1, <2>4
      <4>2. QED BY <4>1, <1>g
    <3>3. \A h \in Gens : Of(l)'[h] = IF h = g THEN job'[g].source ELSE Of(l)[h]
          BY <1>g, <1>r, <2>1, <2>2, <2>4
    <3>4. Fate(l)' = [Fate(l) EXCEPT ![g] = "offered"] BY <1>f, <3>2
    <3>5. Of(l)' = [Of(l) EXCEPT ![g] = job'[g].source] BY <1>f, <3>3
    <3>6. job'[g].source \in Sources BY <1>2 DEF Jobs
    <3>7. QED BY <3>1, <3>4, <3>5, <3>6 DEF CatalogueStep, Offers
  <2>5. QED BY <2>3, <2>4
<1>3. ASSUME NEW k \in Legs, NEW g \in Gens,
             Published(k, g), rows[k][g] = "building", job[g] \in Jobs, UNCHANGED job
      PROVE  CatalogueStep(l)
  <2>1. /\ \A m \in Legs, h \in Gens :
             rows'[m][h] =
               IF m = k /\ h = g THEN "ready"
               ELSE IF m = k /\ h = active[k][job[g].source] /\ rows[k][h] = "ready"
                    THEN "retired" ELSE rows[m][h]
        /\ born' = born
        BY <1>3, <1>t, PublishedEffect
  <2>3. CASE k # l
    <3>1. \A h \in Gens : Fate(l)'[h] = Fate(l)[h] /\ Of(l)'[h] = Of(l)[h]
          BY <1>3, <1>g, <2>1, <2>3
    <3>2. QED BY <3>1, <1>s DEF CatalogueStep
  <2>4. CASE k = l
    <3>1. Fate(l)[g] = "offered" /\ Of(l)[g] = job[g].source /\ g \in born[l]
          BY <1>3, <1>g, <1>r, <2>4
    <3>2. \A h \in Gens :
            h \in Seen(l, job[g].source) <=>
              (h = active[l][job[g].source] /\ rows[l][h] = "ready")
      <4>1. ASSUME NEW h \in Gens
            PROVE  h \in Seen(l, job[g].source) <=>
                     (rows[l][h] = "ready" /\ job[h].source = job[g].source)
            BY <1>g, <1>r DEF Seen
      <4>2. ASSUME NEW h \in Gens, rows[l][h] = "ready"
            PROVE  job[h].source = job[g].source <=> h = active[l][job[g].source]
        <5>1. job[h] # None /\ active[l][job[h].source] = h BY <4>2 DEF ReadyIsActive
        <5>2. h = active[l][job[g].source] => job[h].source = job[g].source
              BY <1>3 DEF RowsOK, Jobs
        <5>3. QED BY <5>1, <5>2
      <4>3. QED BY <4>1, <4>2
    <3>3. \A h \in Gens :
            Fate(l)'[h] = IF h = g THEN "visible"
                          ELSE IF h \in Seen(l, Of(l)[g]) THEN "gone" ELSE Fate(l)[h]
          BY <1>g, <1>r, <2>1, <2>4, <3>1, <3>2
    <3>4. g \notin Seen(l, Of(l)[g]) BY <3>1 DEF Seen
    <3>5. \A h \in Gens :
            Of(l)'[h] = IF h \in Seen(l, Of(l)[g]) THEN None ELSE Of(l)[h]
          BY <1>3, <1>g, <2>1, <2>4, <3>1, <3>2, <3>4
    <3>6. Publishes(l, g) BY <1>f, <3>1, <3>3, <3>5 DEF Publishes
    <3>7. QED BY <3>6 DEF CatalogueStep
  <2>5. QED BY <2>3, <2>4
<1>4. ASSUME NEW k \in Legs, NEW s \in Sources, Removed(k, s), UNCHANGED job
      PROVE  CatalogueStep(l)
  <2>1. /\ \A m \in Legs, h \in Gens :
             rows'[m][h] = IF m = k /\ h \in GensOf(s) THEN "none" ELSE rows[m][h]
        /\ born' = born
        BY <1>4, <1>t, RemovedEffect
  <2>3. CASE k # l
    <3>1. \A h \in Gens : Fate(l)'[h] = Fate(l)[h] /\ Of(l)'[h] = Of(l)[h]
          BY <1>4, <1>g, <2>1, <2>3
    <3>2. QED BY <3>1, <1>s DEF CatalogueStep
  <2>4. CASE k = l
    <3> DEFINE G == {g \in Gens : Of(l)[g] = s}
    <3>1. \A g \in Gens : g \in G <=> rows[l][g] \in {"building", "ready"} /\ g \in GensOf(s)
          BY <1>g, <1>r DEF GensOf
    <3>2. \A g \in Gens : Fate(l)'[g] = IF g \in G THEN "gone" ELSE Fate(l)[g]
          BY <1>g, <1>r, <2>1, <2>4, <3>1
    <3>3. \A g \in Gens : Of(l)'[g] = IF g \in G THEN None ELSE Of(l)[g]
          BY <1>4, <1>g, <1>r, <2>1, <2>4, <3>1
    <3>4. Forgets(l, G) BY <1>f, <3>2, <3>3 DEF Forgets
    <3>5. QED BY <3>4 DEF CatalogueStep
  <2>5. QED BY <2>3, <2>4
<1>5. ASSUME NEW k \in Legs, NEW old \in SUBSET Gens, Collected(k, old), UNCHANGED job
      PROVE  CatalogueStep(l)
  <2>1. /\ \A m \in Legs, h \in Gens :
             rows'[m][h] = IF m = k /\ h \in Collectable(k, old) THEN "none" ELSE rows[m][h]
        /\ born' = born
        BY <1>5, <1>t, CollectedEffect
  <2>2. \A g \in Collectable(k, old) : g \in old /\ rows[k][g] \in {"building", "retired"}
        BY DEF Collectable
  <2>3. CASE k # l
    <3>1. \A h \in Gens : Fate(l)'[h] = Fate(l)[h] /\ Of(l)'[h] = Of(l)[h]
          BY <1>5, <1>g, <2>1, <2>3
    <3>2. QED BY <3>1, <1>s DEF CatalogueStep
  <2>4. CASE k = l
    <3> DEFINE G == {g \in Collectable(l, old) : rows[l][g] = "building"}
    <3>1. G \subseteq {g \in Gens : Fate(l)[g] = "offered"}
          BY <1>g, <1>r, <2>2, <2>4
    <3>2. \A g \in Gens : Fate(l)'[g] = IF g \in G THEN "gone" ELSE Fate(l)[g]
          BY <1>g, <1>r, <2>1, <2>2, <2>4
    <3>3. \A g \in Gens : Of(l)'[g] = IF g \in G THEN None ELSE Of(l)[g]
          BY <1>5, <1>g, <2>1, <2>2, <2>4
    <3>4. Forgets(l, G) BY <1>f, <3>2, <3>3 DEF Forgets
    <3>5. QED BY <3>1, <3>4 DEF CatalogueStep
  <2>5. QED BY <2>3, <2>4
<1>6. QED BY <1>1, <1>2, <1>3, <1>4, <1>5 DEF Transaction

-----------------------------------------------------------------------------
(* Workers. *)
Own(w) ==
    /\ worker[w].at \in Building =>
         /\ worker[w].gen \in Gens
         /\ job[worker[w].gen] # None
         /\ \A v \in Workers \ {w} :
              worker[v].at \in Building => worker[v].gen # worker[w].gen
    /\ worker[w].at \in Unstaged => worker[w].gen \notin born["visual"]
    /\ worker[w].at \in Locking =>
         /\ rows["visual"][worker[w].gen] = "building"
         /\ \A v \in Workers \ {w} : worker[v].at \notin Locking
    /\ worker[w].at = "visual_remove" => worker[w].source \in Sources

LEMMA WorkersByOne == WorkersOK <=> \A w \in Workers : Own(w)
BY DEF WorkersOK, Own

LEMMA WorkersByOneNext == WorkersOK' <=> \A w \in Workers : Own(w)'
BY DEF WorkersOK, Own

(* One worker moves, and leaves what the others rely on.                   *)
LEMMA WorkersFrame ==
    ASSUME WorkersOK, NEW w \in Workers, Own(w)',
           \A v \in Workers \ {w} : worker'[v] = worker[v],
           \A g \in Gens : job[g] # None => job'[g] # None,
           \A v \in Workers \ {w} : worker[v].at \in Unstaged =>
               worker[v].gen \notin born'["visual"],
           \A v \in Workers \ {w} : worker[v].at \in Locking =>
               rows'["visual"][worker[v].gen] = "building"
    PROVE  WorkersOK'
<1>1. SUFFICES ASSUME NEW v \in Workers \ {w} PROVE Own(v)'
      BY WorkersByOneNext
<1>2. Own(v) BY WorkersByOne
<1>3. worker'[v] = worker[v] OBVIOUS
<1>4. ASSUME worker[v].at \in Building
      PROVE  /\ worker'[v].gen \in Gens
             /\ job'[worker'[v].gen] # None
             /\ \A u \in Workers \ {v} :
                  worker'[u].at \in Building => worker'[u].gen # worker'[v].gen
  <2>1. worker[v].gen \in Gens /\ job'[worker[v].gen] # None BY <1>2, <1>4 DEF Own
  <2>2. ASSUME NEW u \in Workers \ {v}, worker'[u].at \in Building
        PROVE  worker'[u].gen # worker'[v].gen
    <3>1. CASE u = w BY <1>3, <1>4, <2>2, <3>1 DEF Own
    <3>2. CASE u # w BY <1>2, <1>3, <1>4, <2>2, <3>2 DEF Own
    <3>3. QED BY <3>1, <3>2
  <2>3. QED BY <1>3, <2>1, <2>2
<1>5. ASSUME worker[v].at \in Locking
      PROVE  \A u \in Workers \ {v} : worker'[u].at \notin Locking
  <2>1. worker'[w].at \notin Locking BY <1>3, <1>5 DEF Own
  <2>2. QED BY <1>2, <1>5, <2>1 DEF Own
<1>6. QED BY <1>2, <1>3, <1>4, <1>5 DEF Own

LEMMA WorkersStep ==
    ASSUME TypeOK, RowsOK, WorkersOK, [Next]_vars
    PROVE  WorkersOK'
<1> USE DEF Legs
<1>t. CatalogueType /\ worker \in [Workers -> WorkerType] /\ job \in [Gens -> Jobs \cup {None}]
      BY TypesSplit
<1>n. None \notin Jobs BY StoreAssumption DEF Jobs
<1>b. \A w \in Workers : worker[w].at \in Building =>
         worker[w].gen \in Gens /\ job[worker[w].gen] \in Jobs
      BY <1>t DEF WorkersOK
<1>o. \A w \in Workers : Own(w) BY WorkersByOne
<1>u. Unlocked => \A v \in Workers : worker[v].at \notin Locking BY DEF Unlocked
(* Steps that keep job and the visual catalogue. *)
<1>k. ASSUME NEW w \in Workers, Own(w)', \A v \in Workers \ {w} : worker'[v] = worker[v],
             job' = job, born' = born, rows'["visual"] = rows["visual"]
      PROVE  WorkersOK'
      BY <1>k, WorkersFrame, <1>o DEF Own
(* Steps that end the worker's building. *)
<1>e. ASSUME NEW w \in Workers, worker'[w].at \notin Building \cup {"visual_remove"}
      PROVE  Own(w)'
      BY <1>e DEF Own
<1>1. ASSUME NEW w \in Workers, NEW g \in Gens, NEW place \in Places,
             place \in Unstaged, StartBuild(w, g, place), rows'["visual"] = rows["visual"],
             born'["visual"] = born["visual"]
      PROVE  WorkersOK'
  <2>2. /\ worker'[w].at = place /\ worker'[w].gen = g
        /\ \A v \in Workers \ {w} : worker'[v] = worker[v]
        BY <1>1, StartBuildEffect
  <2>1. /\ job'[g] \in Jobs
        /\ \A h \in Gens \ {g} : job'[h] = job[h]
        /\ job[g] = None
        BY <1>1, StartBuildEffect
  <2>3. \A v \in Workers \ {w} : worker[v].at \in Building => worker[v].gen # g
        BY <2>1, <1>b, <1>n
  <2>4. g \notin born'["visual"] BY <1>1, <2>1 DEF RowsOK
  <2>5. Own(w)' BY <1>1, <2>1, <2>2, <2>3, <2>4, <1>n DEF Own
  <2>6. \A h \in Gens : job[h] # None => job'[h] # None BY <2>1, <1>n
  <2>7. \A v \in Workers \ {w} :
          /\ worker[v].at \in Unstaged => worker[v].gen \notin born'["visual"]
          /\ worker[v].at \in Locking => rows'["visual"][worker[v].gen] = "building"
        BY <1>1, <1>o DEF Own
  <2>8. QED BY <2>2, <2>5, <2>6, <2>7, WorkersFrame
<1>2. ASSUME NEW w \in Workers, RaptorStage(w) PROVE WorkersOK'
  <2>1. PICK g \in Gens : StartBuild(w, g, "raptor_publish") /\ Staged("raptor", g)
        BY <1>2 DEF RaptorStage
  <2>2. rows'["visual"] = rows["visual"] /\ born'["visual"] = born["visual"]
        BY <2>1, <1>t DEF Staged, CatalogueType
  <2>3. QED BY <2>1, <2>2, <1>1 DEF Places
<1>3. ASSUME NEW w \in Workers, RaptorSkip(w) PROVE WorkersOK'
      BY <1>3, <1>1 DEF RaptorSkip, catalogue, Places
(* A builder that goes on to the next place with the same generation. *)
<1>g. ASSUME NEW w \in Workers, NEW place \in Places, GoTo(w, place),
             place \in Building, worker[w].at \in Building,
             job' = job,
             place \in Unstaged => worker[w].gen \notin born'["visual"],
             place \in Locking =>
               /\ rows'["visual"][worker[w].gen] = "building"
               /\ \A v \in Workers \ {w} : worker[v].at \notin Locking
      PROVE  Own(w)' /\ \A v \in Workers \ {w} : worker'[v] = worker[v]
  <2>1. /\ worker'[w].at = place /\ worker'[w].gen = worker[w].gen
        /\ \A v \in Workers \ {w} : worker'[v] = worker[v]
    <3> HIDE DEF Legs, Building, Unstaged, Locking
    <3>1. GoTo(w, place) BY <1>g
    <3>2. worker'[w] = [worker[w] EXCEPT !.at = place] BY <3>1, <1>t, GoToEffect
    <3>3. \A v \in Workers \ {w} : worker'[v] = worker[v] BY <3>1, <1>t, GoToEffect
    <3>4. worker[w] \in WorkerType BY <1>t
    <3>5. QED BY <3>2, <3>3, <3>4 DEF WorkerType
  <2>2. QED BY <1>g, <2>1, <1>o DEF Own
<1>4. ASSUME NEW w \in Workers, RaptorPublish(w) PROVE WorkersOK'
  <2>1. rows'["visual"] = rows["visual"] /\ born' = born
        BY <1>4, <1>t DEF RaptorPublish, Published, CatalogueType
  <2>2. worker[w].gen \notin born'["visual"] BY <1>4, <2>1, <1>o DEF RaptorPublish, At, Own
  <2>3. QED BY <1>4, <2>1, <2>2, <1>g, <1>k DEF RaptorPublish, At, Places
<1>5. ASSUME NEW w \in Workers, RaptorPublishRaises(w) PROVE WorkersOK'
  <2>1. worker[w].gen \notin born'["visual"]
        BY <1>5, <1>o DEF RaptorPublishRaises, At, Own, catalogue
  <2>2. QED BY <1>5, <2>1, <1>g, <1>k DEF RaptorPublishRaises, At, Places, catalogue
<1>6. ASSUME NEW w \in Workers, VisualFiles(w) PROVE WorkersOK'
  <2>1. worker[w].gen \notin born'["visual"] BY <1>6, <1>o DEF VisualFiles, At, Own, catalogue
  <2>2. QED BY <1>6, <2>1, <1>g, <1>k DEF VisualFiles, At, Places, catalogue
<1>7. ASSUME NEW w \in Workers, VisualRows(w) PROVE WorkersOK'
  <2>1. worker[w].gen \in Gens BY <1>7, <1>b DEF VisualRows, At
  <2>2. born'["visual"] = born["visual"] \cup {worker[w].gen}
        BY <1>7, <2>1, <1>t, StagedEffect DEF VisualRows
  <2>3. Own(w)' /\ \A v \in Workers \ {w} : worker'[v] = worker[v]
        BY <1>7, <1>g DEF VisualRows, At, Places
  <2>4. \A v \in Workers \ {w} : worker[v].at \in Unstaged => worker[v].gen # worker[w].gen
        BY <1>7, <1>o DEF VisualRows, At, Own
  <2>5. QED BY <1>7, <2>2, <2>3, <2>4, <1>o, <1>u, WorkersFrame DEF VisualRows, Own
<1>8. ASSUME NEW w \in Workers, VisualValidate(w) PROVE WorkersOK'
  <2>1. rows["visual"][worker[w].gen] = "building"
        BY <1>8 DEF VisualValidate, Publishable
  <2>2. QED BY <1>8, <2>1, <1>g, <1>k, <1>u DEF VisualValidate, At, Places, catalogue
<1>19. ASSUME NEW w \in Workers, VisualMove(w) PROVE WorkersOK'
  <2>1. worker[w].at = "visual_move" BY <1>19 DEF VisualMove, At
  <2>2. /\ rows["visual"][worker[w].gen] = "building"
        /\ \A v \in Workers \ {w} : worker[v].at \notin Locking
        BY <2>1, <1>o DEF Own
  <2>3. QED BY <1>19, <2>1, <2>2, <1>g, <1>k DEF VisualMove, Places, catalogue
<1>9. ASSUME NEW w \in Workers, VisualCommit(w) PROVE WorkersOK'
  <2>1. worker'[w].at = "sweep_read" /\ \A v \in Workers \ {w} : worker'[v] = worker[v]
        BY <1>9, <1>t, GoToEffect DEF VisualCommit, Places, WorkerType
  <2>2. \A v \in Workers \ {w} : worker[v].at \notin Locking
        BY <1>9, <1>o DEF VisualCommit, At, Own
  <2>3. Own(w)' BY <2>1, <1>e
  <2>4. born' = born BY <1>9 DEF VisualCommit, Published
  <2>5. QED BY <1>9, <2>1, <2>2, <2>3, <2>4, <1>o, WorkersFrame DEF VisualCommit, Own
<1>10. ASSUME NEW w \in Workers,
              \/ VisualSkip(w) \/ VisualRowsRaise(w) \/ VisualRefused(w) \/ VisualMoveRaises(w)
              \/ VisualCommitRaises(w) \/ VisualRemoveRaises(w)
       PROVE  WorkersOK'
  <2>1. Rest(w) /\ UNCHANGED <<job, catalogue>>
        BY <1>10 DEF VisualSkip, VisualRowsRaise, VisualRefused, VisualMoveRaises,
                     VisualCommitRaises, VisualRemoveRaises
  <2>2. worker'[w] = Idle /\ \A v \in Workers \ {w} : worker'[v] = worker[v]
        BY <2>1, <1>t, RestEffect
  <2>3. Own(w)' BY <2>2, <1>e DEF Idle
  <2>4. QED BY <2>1, <2>2, <2>3, <1>k DEF catalogue
<1>11. ASSUME NEW w \in Workers, SweepRead(w) \/ SweepList(w) \/ SweepDelete(w)
       PROVE  WorkersOK'
  <2>1. /\ worker'[w].at \in {"sweep_list", "sweep_delete", "idle"}
        /\ \A v \in Workers \ {w} : worker'[v] = worker[v]
        /\ UNCHANGED <<job, catalogue>>
    <3>1. CASE SweepRead(w) BY <3>1, <1>t DEF SweepRead, Idle, WorkerType
    <3>2. CASE SweepList(w) BY <3>2, <1>t DEF SweepList, Idle, WorkerType
    <3>3. CASE SweepDelete(w) BY <3>3, <1>t DEF SweepDelete, At, Idle, WorkerType
    <3>4. QED BY <1>11, <3>1, <3>2, <3>3
  <2>2. Own(w)' BY <2>1, <1>e
  <2>3. QED BY <2>1, <2>2, <1>k DEF catalogue
<1>12. ASSUME NEW w \in Workers, RaptorRemove(w) PROVE WorkersOK'
  <2>1. PICK s \in Sources :
          /\ worker' = [worker EXCEPT ![w].at = "visual_remove", ![w].source = s]
          /\ Removed("raptor", s) \/ UNCHANGED catalogue
        BY <1>12 DEF RaptorRemove
  <2>2. rows'["visual"] = rows["visual"] /\ born' = born
        BY <2>1, <1>t DEF Removed, CatalogueType, catalogue
  <2>3. /\ worker'[w].at = "visual_remove" /\ worker'[w].source = s
        /\ \A v \in Workers \ {w} : worker'[v] = worker[v]
        BY <2>1, <1>t DEF WorkerType
  <2>4. Own(w)' BY <2>3 DEF Own
  <2>5. QED BY <1>12, <2>2, <2>3, <2>4, <1>k DEF RaptorRemove
<1>13. ASSUME NEW w \in Workers, VisualRemove(w) \/ VisualCollect(w) PROVE WorkersOK'
  <2>1. /\ worker'[w].at = "sweep_read"
        /\ \A v \in Workers \ {w} : worker'[v] = worker[v]
    <3>1. CASE VisualRemove(w)
          BY <3>1, <1>t, GoToEffect DEF VisualRemove, Places, WorkerType
    <3>2. CASE VisualCollect(w) BY <3>2, <1>t DEF VisualCollect, WorkerType
    <3>3. QED BY <1>13, <3>1, <3>2
  <2>2. born' = born /\ job' = job /\ Unlocked
        BY <1>13 DEF VisualRemove, VisualCollect, Removed, Collected
  <2>3. Own(w)' BY <2>1, <1>e
  <2>4. QED BY <2>1, <2>2, <2>3, <1>o, <1>u, WorkersFrame DEF Own
<1>14. ASSUME NEW w \in Workers, RaptorCollect(w) PROVE WorkersOK'
  <2>1. worker' = worker /\ job' = job BY <1>14 DEF RaptorCollect
  <2>2. rows'["visual"] = rows["visual"] /\ born' = born
        BY <1>14, <1>t DEF RaptorCollect, Collected, CatalogueType
  <2>3. QED BY <2>1, <2>2 DEF WorkersOK
<1>15. ASSUME NEW w \in Workers, VisualCollectFiles(w) PROVE WorkersOK'
  <2>1. /\ worker'[w].at = "visual_sweep"
        /\ \A v \in Workers \ {w} : worker'[v] = worker[v]
        BY <1>15, <1>t DEF VisualCollectFiles, WorkerType
  <2>2. Own(w)' BY <2>1, <1>e
  <2>3. QED BY <1>15, <2>1, <2>2, <1>k DEF VisualCollectFiles, catalogue
<1>20. ASSUME NEW w \in Workers, VisualFilesGone(w) PROVE WorkersOK'
  <2>1. /\ worker'[w].at = "visual_collect"
        /\ \A v \in Workers \ {w} : worker'[v] = worker[v]
        BY <1>20, <1>t, GoToPlace DEF VisualFilesGone, Places
  <2>2. Own(w)' BY <2>1, <1>e
  <2>3. QED BY <1>20, <2>1, <2>2, <1>k DEF VisualFilesGone, catalogue
<1>16. CASE Restart BY <1>16 DEF Restart, WorkersOK, Idle
<1>17. CASE UNCHANGED vars BY <1>17 DEF vars, WorkersOK
<1>18. QED
       BY <1>2, <1>3, <1>4, <1>5, <1>6, <1>7, <1>8, <1>9, <1>10, <1>11, <1>12, <1>13, <1>14,
          <1>15, <1>16, <1>17, <1>19, <1>20
          DEF Next, Step

-----------------------------------------------------------------------------
(* Directories. *)
LEMMA ReferencedIs ==
    ASSUME TypeOK, RowsOK, ReadyIsActive, NEW h
    PROVE  h \in Referenced <=>
             \E s \in Sources : active["visual"][s] # None /\ job[active["visual"][s]].hash = h
<1>1. ASSUME NEW s \in Sources, active["visual"][s] # None
      PROVE  rows["visual"][active["visual"][s]] = "ready"
      BY <1>1 DEF RowsOK, ReadyIsActive, TypeOK, Legs
<1>2. QED BY <1>1 DEF Referenced

(* A step of worker w that is no part of a publication or a cleanup, and    *)
(* keeps what is active, its jobs and the directories.                       *)
Aside(w) ==
    /\ \A v \in Workers \ {w} : worker'[v] = worker[v]
    /\ \A place \in {"visual_commit", "sweep_read", "sweep_list", "sweep_delete"} :
         worker[w].at # place /\ worker'[w].at # place
    /\ active'["visual"] = active["visual"]
    /\ \A s \in Sources : LET g == active["visual"][s] IN
         g # None => job'[g] = job[g] /\ rows'["visual"][g] = rows["visual"][g]
    /\ \A v \in Workers \ {w} : worker[v].at = "visual_commit" =>
         job'[worker[v].gen] = job[worker[v].gen]
    /\ UNCHANGED <<assets, history>>

LEMMA AsideStep ==
    ASSUME TypeOK, RowsOK, ReadyIsActive, WorkersOK, NEW w \in Workers,
           \/ RaptorStage(w) \/ RaptorSkip(w) \/ RaptorPublish(w) \/ RaptorPublishRaises(w)
           \/ VisualSkip(w) \/ VisualFiles(w) \/ VisualRows(w) \/ VisualRowsRaise(w)
           \/ VisualValidate(w) \/ VisualRefused(w) \/ VisualMoveRaises(w)
           \/ RaptorRemove(w) \/ VisualRemoveRaises(w)
           \/ RaptorCollect(w) \/ VisualCollectFiles(w) \/ VisualFilesGone(w)
    PROVE  Aside(w)
<1> USE DEF Legs
<1>t. CatalogueType /\ worker \in [Workers -> WorkerType] /\ job \in [Gens -> Jobs \cup {None}]
      BY TypesSplit
<1>a. \A s \in Sources : active["visual"][s] # None =>
        active["visual"][s] \in Gens /\ active["visual"][s] \in born["visual"]
      BY <1>t DEF CatalogueType, RowsOK, ReadyIsActive
<1>1. /\ \A v \in Workers \ {w} : worker'[v] = worker[v]
      /\ \A place \in {"visual_commit", "sweep_read", "sweep_list", "sweep_delete"} :
           worker[w].at # place /\ worker'[w].at # place
  <2>1. CASE RaptorStage(w)
        BY <2>1, StartBuildEffect DEF RaptorStage, At, Places
  <2>2. CASE RaptorSkip(w)
        BY <2>2, StartBuildEffect DEF RaptorSkip, At, Places
  <2>3. CASE RaptorPublish(w) \/ RaptorPublishRaises(w)
    <3>1. worker[w].at = "raptor_publish" /\ GoTo(w, "visual_stage")
          BY <2>3 DEF RaptorPublish, RaptorPublishRaises, At
    <3>2. QED BY <3>1, <1>t, GoToPlace DEF Places
  <2>4. CASE VisualFiles(w)
        BY <2>4, <1>t, GoToPlace DEF VisualFiles, At, Places
  <2>5. CASE VisualRows(w)
        BY <2>5, <1>t, GoToPlace DEF VisualRows, At, Places
  <2>6. CASE VisualSkip(w) \/ VisualRowsRaise(w) \/ VisualRefused(w) \/ VisualMoveRaises(w)
             \/ VisualRemoveRaises(w)
    <3>1. /\ worker[w].at \in {"visual_stage", "visual_rows", "visual_publish", "visual_move",
                               "visual_remove"}
          /\ Rest(w)
          BY <2>6 DEF VisualSkip, VisualRowsRaise, VisualRefused, VisualMoveRaises,
                      VisualRemoveRaises, At
    <3>2. QED BY <3>1, <1>t, RestEffect DEF Idle
  <2>7. CASE RaptorRemove(w)
    <3>1. PICK s \in Sources :
            worker' = [worker EXCEPT ![w].at = "visual_remove", ![w].source = s]
          BY <2>7 DEF RaptorRemove
    <3>2. worker[w].at = "idle" BY <2>7 DEF RaptorRemove, At
    <3>3. QED BY <3>1, <3>2, <1>t DEF WorkerType
  <2>8. CASE RaptorCollect(w) BY <2>8 DEF RaptorCollect, At
  <2>9. CASE VisualCollectFiles(w)
    <3>1. PICK old :
            worker' = [worker EXCEPT ![w].at = "visual_sweep", ![w].old = old]
          BY <2>9 DEF VisualCollectFiles
    <3>2. worker[w].at = "idle" BY <2>9 DEF VisualCollectFiles, At
    <3>3. QED BY <3>1, <3>2, <1>t DEF WorkerType
  <2>10. CASE VisualValidate(w)
        BY <2>10, <1>t, GoToPlace DEF VisualValidate, At, Places
  <2>11. CASE VisualFilesGone(w)
        BY <2>11, <1>t, GoToPlace DEF VisualFilesGone, At, Places
  <2>12. QED BY <2>1, <2>2, <2>3, <2>4, <2>5, <2>6, <2>7, <2>8, <2>9, <2>10, <2>11
<1>2. UNCHANGED <<assets, history>>
      BY DEF RaptorStage, RaptorSkip, StartBuild, RaptorPublish, RaptorPublishRaises, VisualSkip,
             VisualFiles, VisualRows, VisualRowsRaise, VisualValidate, VisualRefused,
             VisualMoveRaises, RaptorRemove, VisualRemoveRaises, RaptorCollect,
             VisualCollectFiles, VisualFilesGone, files
<1>3. \A g \in Gens : job[g] # None => job'[g] = job[g]
  <2>1. CASE RaptorStage(w) \/ RaptorSkip(w)
        BY <2>1, StartBuildEffect DEF RaptorStage, RaptorSkip, Places
  <2>2. CASE ~(RaptorStage(w) \/ RaptorSkip(w))
        BY <2>2 DEF RaptorPublish, RaptorPublishRaises, VisualSkip, VisualFiles, VisualRows,
                    VisualRowsRaise, VisualValidate, VisualRefused, VisualMoveRaises,
                    RaptorRemove, VisualRemoveRaises, RaptorCollect, VisualCollectFiles,
                    VisualFilesGone
  <2>3. QED BY <2>1, <2>2
<1>4. /\ active'["visual"] = active["visual"]
      /\ \A g \in born["visual"] : rows'["visual"][g] = rows["visual"][g]
  <2>1. CASE RaptorStage(w)
        BY <2>1, <1>t DEF RaptorStage, Staged, CatalogueType
  <2>2. CASE RaptorPublish(w)
        BY <2>2, <1>t DEF RaptorPublish, Published, CatalogueType
  <2>3. CASE VisualRows(w)
    <3>1. worker[w].gen \in Gens /\ worker[w].gen \notin born["visual"]
          BY <2>3 DEF VisualRows, WorkersOK, At
    <3>2. QED BY <2>3, <3>1, <1>t, StagedEffect DEF VisualRows, CatalogueType
  <2>4. CASE RaptorRemove(w)
        BY <2>4, <1>t DEF RaptorRemove, Removed, CatalogueType, catalogue
  <2>5. CASE RaptorCollect(w)
        BY <2>5, <1>t DEF RaptorCollect, Collected, CatalogueType
  <2>6. CASE ~(RaptorStage(w) \/ RaptorPublish(w) \/ VisualRows(w) \/ RaptorRemove(w)
               \/ RaptorCollect(w))
    <3>1. UNCHANGED catalogue
          BY <2>6 DEF RaptorSkip, RaptorPublishRaises, VisualSkip, VisualFiles, VisualRowsRaise,
                      VisualValidate, VisualRefused, VisualMoveRaises, VisualRemoveRaises,
                      VisualCollectFiles, VisualFilesGone
    <3>2. QED BY <3>1 DEF catalogue
  <2>7. QED BY <2>1, <2>2, <2>3, <2>4, <2>5, <2>6
<1>5. \A s \in Sources : LET g == active["visual"][s] IN
        g # None => job'[g] = job[g] /\ rows'["visual"][g] = rows["visual"][g]
      BY <1>a, <1>3, <1>4 DEF RowsOK
<1>6. \A v \in Workers \ {w} : worker[v].at = "visual_commit" =>
        job'[worker[v].gen] = job[worker[v].gen]
      BY <1>3 DEF WorkersOK
<1>7. QED BY <1>1, <1>2, <1>4, <1>5, <1>6 DEF Aside

(* What a moving worker can add to the hazards: nothing, unless it goes to  *)
(* one of the places they are about.                                         *)
LEMMA CommittersStay ==
    ASSUME NEW w \in Workers, \A v \in Workers \ {w} : worker'[v] = worker[v],
           worker'[w].at # "visual_commit", NEW g,
           \E v \in Workers : At(v, "visual_commit")' /\ worker'[v].gen = g
    PROVE  \E v \in Workers : At(v, "visual_commit") /\ worker[v].gen = g
BY DEF At

LEMMA EndangeredStays ==
    ASSUME NEW w \in Workers, \A v \in Workers \ {w} : worker'[v] = worker[v],
           worker'[w].at \notin {"sweep_list", "sweep_delete"}, NEW h, Endangered(h)'
    PROVE  Endangered(h)
BY DEF Endangered, At

LEMMA KeptHasJob ==
    ASSUME TypeOK, RowsOK, WorkersOK, NEW g \in Gens, Kept(g)
    PROVE  job[g] \in Jobs
<1>1. job[g] # None BY StoreAssumption DEF Kept, RowsOK, WorkersOK, At, Legs
<1>2. QED BY <1>1 DEF TypeOK

(* The obligation of every step below. *)
PagesKept(g) ==
    /\ g \notin exposed /\ Kept(g)
    /\ job'[g] = job[g]
    /\ assets'[job[g].hash] = assets[job[g].hash]
    /\ ~Endangered(job[g].hash)'

LEMMA PagesFrame ==
    ASSUME PagesOK, \A g \in Gens : g \notin exposed' /\ Kept(g)' => PagesKept(g)
    PROVE  PagesOK'
BY DEF PagesOK, PagesKept

LEMMA PagesStep ==
    ASSUME TypeOK, RowsOK, ReadyIsActive, WorkersOK, PagesOK, [Next]_vars
    PROVE  PagesOK'
<1> USE DEF Legs
<1>t. CatalogueType /\ worker \in [Workers -> WorkerType] /\ job \in [Gens -> Jobs \cup {None}]
      BY TypesSplit
<1>n. None \notin Renders BY StoreAssumption
<1>h. \A g \in Gens \ exposed : Kept(g) => ~Endangered(job[g].hash) BY DEF PagesOK
<1>1. ASSUME NEW w \in Workers, Aside(w) PROVE PagesOK'
  <2>1. SUFFICES ASSUME NEW g \in Gens, g \notin exposed', Kept(g)' PROVE PagesKept(g)
        BY PagesFrame
  <2>2. worker'[w].at \notin {"visual_commit", "sweep_list", "sweep_delete"}
        BY <1>1 DEF Aside
  <2>3. \A v \in Workers \ {w} : worker'[v] = worker[v] BY <1>1 DEF Aside
  <2>4. Kept(g)
    <3>1. CASE \E s \in Sources : active'["visual"][s] = g BY <1>1, <3>1 DEF Aside, Kept
    <3>2. CASE \E v \in Workers : At(v, "visual_commit")' /\ worker'[v].gen = g
          BY <2>2, <2>3, <3>2, CommittersStay DEF Kept
    <3>3. QED BY <2>1, <3>1, <3>2 DEF Kept
  <2>5. job'[g] = job[g]
    <3>1. CASE \E s \in Sources : active["visual"][s] = g
          BY <1>1, <3>1, StoreAssumption DEF Aside
    <3>2. CASE \E v \in Workers : At(v, "visual_commit") /\ worker[v].gen = g
          BY <1>1, <3>2 DEF Aside, At
    <3>3. QED BY <2>4, <3>1, <3>2 DEF Kept
  <2>6. g \notin exposed /\ assets' = assets BY <1>1, <2>1 DEF Aside, history
  <2>a. \A h : Endangered(h)' => Endangered(h) BY <2>2, <2>3, EndangeredStays
  <2>b. ~Endangered(job[g].hash) BY <1>h, <2>4, <2>6
  <2>7. ~Endangered(job[g].hash)' BY <2>5, <2>a, <2>b
  <2>8. QED BY <2>4, <2>5, <2>6, <2>7 DEF PagesKept
<1>2. ASSUME NEW w \in Workers, VisualMove(w) PROVE PagesOK'
  <2> DEFINE g0 == worker[w].gen
             h0 == job[g0].hash
  <2>1. /\ worker'[w].at = "visual_commit" /\ worker'[w].gen = g0
        /\ \A v \in Workers \ {w} : worker'[v] = worker[v]
        BY <1>2, <1>t, GoToPlace DEF VisualMove, Places
  <2>2. g0 \in Gens /\ job[g0] \in Jobs BY <1>2, <1>t DEF VisualMove, At, WorkersOK
  <2>3. /\ job' = job /\ active' = active
        /\ assets[h0] \in {None, job[g0].pages}
        BY <1>2 DEF VisualMove, catalogue, Movable, PagesFit
  <2>a. PICK torn \in {FALSE, Vanishing(g0)} :
          /\ assets' = [assets EXCEPT ![h0] = IF torn THEN Torn ELSE job[g0].pages]
          /\ exposed' = IF torn \/ Endangered(h0) THEN exposed \cup {g0} ELSE exposed
        BY <1>2 DEF VisualMove
  <2>b. torn => assets[h0] = None BY <2>a DEF Vanishing
  <2>4. /\ g0 \notin exposed' => assets'[h0] = job[g0].pages
        /\ \A h \in Hashes : assets[h] # None => assets'[h] = assets[h]
        /\ exposed \subseteq exposed' /\ (Endangered(h0) => g0 \in exposed')
    <3>1. h0 \in Hashes BY <2>2 DEF Jobs
    <3>2. CASE torn BY <2>3, <2>a, <2>b, <3>1, <3>2 DEF TypeOK
    <3>3. CASE ~torn BY <2>3, <2>a, <3>1, <3>3 DEF TypeOK
    <3>4. QED BY <3>2, <3>3
  <2>5. \A h : Endangered(h)' => Endangered(h) BY <2>1, EndangeredStays
  <2>6. ASSUME NEW g \in Gens, g \notin exposed', Kept(g)'
        PROVE  (assets[job[g].hash] = job[g].pages)' /\ ~Endangered(job[g].hash)'
    <3>1. CASE g = g0
      <4>1. ~Endangered(h0) BY <2>4, <2>6, <3>1
      <4>2. QED BY <2>3, <2>4, <2>5, <2>6, <3>1, <4>1
    <3>2. CASE g # g0
      <4>1. Kept(g) BY <2>1, <2>3, <2>6, <3>2 DEF Kept, At
      <4>2. g \notin exposed BY <2>4, <2>6
      <4>3. assets[job[g].hash] = job[g].pages /\ ~Endangered(job[g].hash)
            BY <4>1, <4>2 DEF PagesOK
      <4>4. job[g].hash \in Hashes /\ job[g].pages # None
            BY <4>1, <1>n, KeptHasJob DEF Jobs
      <4>5. QED BY <2>3, <2>4, <2>5, <4>3, <4>4
    <3>3. QED BY <3>1, <3>2
  <2>7. QED BY <2>6 DEF PagesOK
(* The steps after which at most the generation of a committing worker is   *)
(* newly active.                                                            *)
<1>3. ASSUME NEW w \in Workers, UNCHANGED <<job, assets>>, exposed' = exposed,
             \A v \in Workers \ {w} : worker'[v] = worker[v],
             worker'[w].at \notin {"visual_commit", "sweep_list", "sweep_delete"},
             \A s \in Sources : LET g == active'["visual"][s] IN
               g \in Gens => g = active["visual"][s]
                             \/ (At(w, "visual_commit") /\ g = worker[w].gen)
      PROVE  PagesOK'
  <2>1. SUFFICES ASSUME NEW g \in Gens, g \notin exposed', Kept(g)' PROVE PagesKept(g)
        BY PagesFrame
  <2>2. Kept(g)
    <3>1. CASE \E s \in Sources : active'["visual"][s] = g BY <1>3, <3>1 DEF Kept
    <3>2. CASE \E v \in Workers : At(v, "visual_commit")' /\ worker'[v].gen = g
          BY <1>3, <3>2, CommittersStay DEF Kept
    <3>3. QED BY <2>1, <3>1, <3>2 DEF Kept
  <2>3. ~Endangered(job[g].hash)' BY <1>3, <1>h, <2>1, <2>2, EndangeredStays
  <2>4. QED BY <1>3, <2>1, <2>2, <2>3 DEF PagesKept
<1>4. ASSUME NEW w \in Workers, VisualCommit(w) PROVE PagesOK'
  <2>1. /\ worker'[w].at = "sweep_read"
        /\ \A v \in Workers \ {w} : worker'[v] = worker[v]
        BY <1>4, <1>t, GoToPlace DEF VisualCommit, Places
  <2>2. At(w, "visual_commit") /\ UNCHANGED <<job, assets>> /\ exposed' = exposed
        BY <1>4 DEF VisualCommit, files, history
  <2>3. job[worker[w].gen] \in Jobs /\ worker[w].gen \in Gens
        BY <2>2, <1>t DEF At, WorkersOK
  <2>4. \A s \in Sources :
          active'["visual"][s] = active["visual"][s] \/ active'["visual"][s] = worker[w].gen
        BY <1>4, <2>3, <1>t, PublishedEffect DEF VisualCommit
  <2>5. QED BY <1>3, <2>1, <2>2, <2>4
<1>5. ASSUME NEW w \in Workers, VisualRemove(w) \/ VisualCollect(w) PROVE PagesOK'
  <2>1. /\ worker'[w].at = "sweep_read"
        /\ \A v \in Workers \ {w} : worker'[v] = worker[v]
    <3>1. CASE VisualRemove(w) BY <3>1, <1>t, GoToPlace DEF VisualRemove, Places
    <3>2. CASE VisualCollect(w) BY <3>2, <1>t DEF VisualCollect, WorkerType
    <3>3. QED BY <1>5, <3>1, <3>2
  <2>2. UNCHANGED <<job, assets>> /\ exposed' = exposed
        BY <1>5 DEF VisualRemove, VisualCollect, files, history
  <2>3. \A s \in Sources : active'["visual"][s] \in {active["visual"][s], None}
    <3>1. CASE VisualRemove(w)
      <4>1. worker[w].source \in Sources BY <3>1 DEF VisualRemove, WorkersOK, At
      <4>2. QED BY <3>1, <4>1, <1>t, RemovedEffect DEF VisualRemove
    <3>2. CASE VisualCollect(w) BY <3>2 DEF VisualCollect, Collected
    <3>3. QED BY <1>5, <3>1, <3>2
  <2>4. QED BY <1>3, <2>1, <2>2, <2>3, StoreAssumption
<1>6. ASSUME NEW w \in Workers, VisualCommitRaises(w) PROVE PagesOK'
  <2>1. worker'[w] = Idle /\ \A v \in Workers \ {w} : worker'[v] = worker[v]
        BY <1>6, <1>t, RestEffect DEF VisualCommitRaises
  <2>2. UNCHANGED <<job, assets>> /\ exposed' = exposed /\ active' = active
        BY <1>6 DEF VisualCommitRaises, files, catalogue
  <2>3. QED BY <1>3, <2>1, <2>2 DEF Idle
<1>7. ASSUME NEW w \in Workers, SweepRead(w) PROVE PagesOK'
  <2>1. SUFFICES ASSUME NEW g \in Gens, g \notin exposed', Kept(g)' PROVE PagesKept(g)
        BY PagesFrame
  <2>2. worker' = [worker EXCEPT ![w] = [Idle EXCEPT !.at = "sweep_list", !.dirs = Referenced]]
        BY <1>7 DEF SweepRead
  <2>3. /\ worker'[w].at = "sweep_list" /\ worker'[w].dirs = Referenced
        /\ \A v \in Workers \ {w} : worker'[v] = worker[v]
        BY <2>2, <1>t DEF Idle
  <2>4. UNCHANGED <<job, active, assets, exposed>> BY <1>7 DEF SweepRead, catalogue, files, history
  <2>5. \A v \in Workers : ~At(v, "visual_commit")' BY <1>7, <2>3 DEF SweepRead, Unlocked, At
  <2>6. \E s \in Sources : active["visual"][s] = g BY <2>1, <2>4, <2>5 DEF Kept
  <2>7. Kept(g) BY <2>6 DEF Kept
  <2>8. job[g].hash \in Referenced BY <2>6, ReferencedIs, StoreAssumption
  <2>9. ~Endangered(job[g].hash)
        BY <1>h, <2>1, <2>4, <2>7
  <2>10. ~Endangered(job[g].hash)' BY <2>3, <2>4, <2>8, <2>9 DEF Endangered, At
  <2>11. QED BY <2>1, <2>4, <2>7, <2>10 DEF PagesKept
<1>8. ASSUME NEW w \in Workers, SweepList(w) PROVE PagesOK'
  <2>1. SUFFICES ASSUME NEW g \in Gens, g \notin exposed', Kept(g)' PROVE PagesKept(g)
        BY PagesFrame
  <2>2. /\ worker'[w] = Idle \/ (/\ worker'[w].at = "sweep_delete"
                                 /\ worker'[w].dirs =
                                      {h \in Hashes : assets[h] # None} \ worker[w].dirs)
        /\ \A v \in Workers \ {w} : worker'[v] = worker[v]
        BY <1>8, <1>t DEF SweepList, WorkerType
  <2>3. UNCHANGED <<job, active, assets, exposed>> BY <1>8 DEF SweepList, catalogue, files, history
  <2>4. worker[w].at = "sweep_list" BY <1>8 DEF SweepList, At
  <2>5. Kept(g)
    <3>1. CASE \E s \in Sources : active'["visual"][s] = g BY <2>3, <3>1 DEF Kept
    <3>2. CASE \E v \in Workers : At(v, "visual_commit")' /\ worker'[v].gen = g
          BY <2>2, <3>2, CommittersStay DEF Kept, Idle
    <3>3. QED BY <2>1, <3>1, <3>2 DEF Kept
  <2>6. \A h : Endangered(h)' => Endangered(h)
        BY <2>2, <2>4 DEF Endangered, At, Idle
  <2>7. QED BY <1>h, <2>1, <2>3, <2>5, <2>6 DEF PagesKept
<1>9. ASSUME NEW w \in Workers, SweepDelete(w) PROVE PagesOK'
  <2>1. SUFFICES ASSUME NEW g \in Gens, g \notin exposed', Kept(g)' PROVE PagesKept(g)
        BY PagesFrame
  <2>2. PICK h \in worker[w].dirs :
          /\ assets' = [assets EXCEPT ![h] = None]
          /\ worker' = [worker EXCEPT ![w] = IF worker[w].dirs = {h} THEN Idle
                                             ELSE [worker[w] EXCEPT !.dirs = @ \ {h}]]
        BY <1>9 DEF SweepDelete
  <2>3. worker[w].at = "sweep_delete" /\ UNCHANGED <<job, active, exposed>>
        BY <1>9 DEF SweepDelete, At, catalogue
  <2>4. /\ worker'[w] = Idle \/ (/\ worker'[w].at = "sweep_delete"
                                 /\ worker'[w].dirs = worker[w].dirs \ {h})
        /\ \A v \in Workers \ {w} : worker'[v] = worker[v]
        BY <2>2, <2>3, <1>t DEF WorkerType
  <2>5. Kept(g)
    <3>1. CASE \E s \in Sources : active'["visual"][s] = g BY <2>3, <3>1 DEF Kept
    <3>2. CASE \E v \in Workers : At(v, "visual_commit")' /\ worker'[v].gen = g
          BY <2>4, <3>2, CommittersStay DEF Kept, Idle
    <3>3. QED BY <2>1, <3>1, <3>2 DEF Kept
  <2>6. \A k : Endangered(k)' => Endangered(k)
        BY <2>3, <2>4 DEF Endangered, At, Idle
  <2>7. Endangered(h) BY <2>3 DEF Endangered, At
  <2>8. job[g].hash # h /\ ~Endangered(job[g].hash)' BY <1>h, <2>1, <2>3, <2>5, <2>6, <2>7
  <2>9. job[g].hash \in Hashes BY <2>5, KeptHasJob DEF Jobs
  <2>10. assets'[job[g].hash] = assets[job[g].hash] BY <2>2, <2>8, <2>9 DEF TypeOK
  <2>11. QED BY <2>1, <2>3, <2>5, <2>8, <2>10 DEF PagesKept
<1>10. CASE Restart
  <2>1. SUFFICES ASSUME NEW g \in Gens, g \notin exposed', Kept(g)' PROVE PagesKept(g)
        BY PagesFrame
  <2>2. /\ \A v \in Workers : worker'[v] = Idle
        /\ UNCHANGED <<job, active, assets, exposed>>
        BY <1>10 DEF Restart, catalogue, files
  <2>3. Kept(g) /\ ~Endangered(job[g].hash)'
        BY <2>1, <2>2 DEF Kept, Endangered, At, Idle
  <2>4. QED BY <2>1, <2>2, <2>3 DEF PagesKept
<1>11. CASE UNCHANGED vars
      BY <1>11 DEF vars, PagesOK, Kept, Endangered, At
<1>12. QED
       BY <1>1, <1>2, <1>4, <1>5, <1>6, <1>7, <1>8, <1>9, <1>10, <1>11, AsideStep
          DEF Next, Step

(* A cleanup that is on its way stays so while its worker does not move.    *)
LEMMA SweptStays ==
    ASSUME NEW h, NEW w \in Workers, NEW v \in Workers \ {w}, worker'[v] = worker[v],
           At(v, "visual_commit") => job'[worker[v].gen] = job[worker[v].gen],
           \/ At(v, "visual_commit") /\ job[worker[v].gen].hash = h
           \/ At(v, "sweep_read")
           \/ At(v, "sweep_list") /\ h \notin worker[v].dirs
           \/ At(v, "sweep_delete") /\ h \in worker[v].dirs
    PROVE  Swept(h)'
BY DEF Swept, At

LEMMA SweepsStep ==
    ASSUME TypeOK, RowsOK, ReadyIsActive, WorkersOK, SweepsOK, [Next]_vars
    PROVE  SweepsOK'
<1> USE DEF Legs
<1>t. CatalogueType /\ worker \in [Workers -> WorkerType] /\ job \in [Gens -> Jobs \cup {None}]
      BY TypesSplit
<1>r. UNCHANGED <<job, rows, active>> => Referenced' = Referenced BY DEF Referenced
<1>k. ASSUME NEW w \in Workers, \A v \in Workers \ {w} : worker'[v] = worker[v],
             \A v \in Workers \ {w} : At(v, "visual_commit") =>
                 job'[worker[v].gen] = job[worker[v].gen],
             NEW h \in Hashes, Swept(h)
      PROVE  \/ Swept(h)'
             \/ At(w, "visual_commit") /\ job[worker[w].gen].hash = h
             \/ At(w, "sweep_read")
             \/ At(w, "sweep_list") /\ h \notin worker[w].dirs
             \/ At(w, "sweep_delete") /\ h \in worker[w].dirs
      BY <1>k, SweptStays DEF Swept
<1>1. ASSUME NEW w \in Workers, Aside(w) PROVE SweepsOK'
  <2>1. Referenced \subseteq Referenced'
        BY <1>1 DEF Aside, Referenced
  <2>2. \A h \in Hashes : Swept(h) => Swept(h)'
    <3>1. \A v \in Workers \ {w} : At(v, "visual_commit") =>
             job'[worker[v].gen] = job[worker[v].gen]
          BY <1>1 DEF Aside, At
    <3>2. QED BY <1>1, <1>k, <3>1 DEF Aside, At
  <2>3. assets' = assets /\ left' = left BY <1>1 DEF Aside, history
  <2>4. QED BY <2>1, <2>2, <2>3 DEF SweepsOK
<1>2. ASSUME NEW w \in Workers, VisualMove(w) PROVE SweepsOK'
  <2>1. /\ worker'[w].at = "visual_commit" /\ worker'[w].gen = worker[w].gen
        /\ \A v \in Workers \ {w} : worker'[v] = worker[v]
        BY <1>2, <1>t, GoToPlace DEF VisualMove, Places
  <2>2. worker[w].at = "visual_move" /\ UNCHANGED <<job, rows, active, left>>
        BY <1>2 DEF VisualMove, At, catalogue
  <2>3. \A h \in Hashes : Swept(h) => Swept(h)' BY <1>k, <2>1, <2>2 DEF At
  <2>4. Swept(job[worker[w].gen].hash)' BY <2>1, <2>2 DEF Swept, At
  <2>5. \A h \in Hashes : h # job[worker[w].gen].hash => assets'[h] = assets[h]
        BY <1>2 DEF VisualMove, TypeOK
  <2>6. ASSUME NEW h \in Hashes, assets'[h] # None
        PROVE  h \in Referenced' \cup left' \/ Swept(h)'
    <3>1. CASE h = job[worker[w].gen].hash BY <2>4, <3>1, <2>1, <2>2 DEF Swept, At
    <3>2. CASE h # job[worker[w].gen].hash
          BY <1>r, <2>2, <2>3, <2>5, <2>6, <3>2 DEF SweepsOK
    <3>3. QED BY <3>1, <3>2
  <2>7. QED BY <2>6 DEF SweepsOK
<1>3. ASSUME NEW w \in Workers, VisualCommit(w) \/ VisualRemove(w) \/ VisualCollect(w)
      PROVE  SweepsOK'
  <2>1. worker'[w].at = "sweep_read"
    <3>1. CASE VisualCommit(w) BY <3>1, <1>t, GoToPlace DEF VisualCommit, Places
    <3>2. CASE VisualRemove(w) BY <3>2, <1>t, GoToPlace DEF VisualRemove, Places
    <3>3. CASE VisualCollect(w) BY <3>3, <1>t DEF VisualCollect, WorkerType
    <3>4. QED BY <1>3, <3>1, <3>2, <3>3
  <2>2. QED BY <2>1 DEF SweepsOK, Swept, At
<1>4. ASSUME NEW w \in Workers, VisualCommitRaises(w) PROVE SweepsOK'
  <2>1. \A v \in Workers \ {w} : worker'[v] = worker[v]
        BY <1>4, <1>t, RestEffect DEF VisualCommitRaises
  <2>2. /\ worker[w].at = "visual_commit"
        /\ UNCHANGED <<job, rows, active, assets>>
        /\ left' = left \cup {job[worker[w].gen].hash}
        BY <1>4 DEF VisualCommitRaises, At, catalogue, files
  <2>3. \A h \in Hashes : Swept(h) => Swept(h)' \/ h \in left'
        BY <1>k, <2>1, <2>2 DEF At
  <2>4. QED BY <1>r, <2>2, <2>3 DEF SweepsOK
<1>5. ASSUME NEW w \in Workers, SweepRead(w) PROVE SweepsOK'
  <2>1. worker' = [worker EXCEPT ![w] = [Idle EXCEPT !.at = "sweep_list", !.dirs = Referenced]]
        BY <1>5 DEF SweepRead
  <2>2. worker'[w].at = "sweep_list" /\ worker'[w].dirs = Referenced
        BY <2>1, <1>t DEF Idle
  <2>3. UNCHANGED <<job, rows, active>> BY <1>5 DEF SweepRead, catalogue
  <2>4. \A h \in Hashes : h \notin Referenced => Swept(h)' BY <2>2 DEF Swept, At
  <2>5. QED BY <1>r, <2>3, <2>4 DEF SweepsOK
<1>6. ASSUME NEW w \in Workers, SweepList(w) PROVE SweepsOK'
  <2> DEFINE dirs == {h \in Hashes : assets[h] # None} \ worker[w].dirs
  <2>1. /\ dirs # {} => worker'[w].at = "sweep_delete" /\ worker'[w].dirs = dirs
        /\ \A v \in Workers \ {w} : worker'[v] = worker[v]
        BY <1>6, <1>t DEF SweepList, WorkerType
  <2>2. /\ worker[w].at = "sweep_list"
        /\ UNCHANGED <<job, rows, active, assets, left>>
        BY <1>6 DEF SweepList, At, catalogue, files, history
  <2>3. ASSUME NEW h \in Hashes, assets[h] # None, Swept(h) PROVE Swept(h)'
    <3>1. CASE h \in dirs BY <2>1, <3>1 DEF Swept, At
    <3>2. CASE h \notin dirs
      <4>1. h \in worker[w].dirs BY <2>3, <3>2
      <4>2. QED BY <1>k, <2>1, <2>2, <2>3, <4>1 DEF At
    <3>3. QED BY <3>1, <3>2
  <2>4. QED BY <1>r, <2>2, <2>3 DEF SweepsOK
<1>7. ASSUME NEW w \in Workers, SweepDelete(w) PROVE SweepsOK'
  <2>1. PICK d \in worker[w].dirs :
          /\ assets' = [assets EXCEPT ![d] = None]
          /\ left' = left \ {d}
          /\ worker' = [worker EXCEPT ![w] = IF worker[w].dirs = {d} THEN Idle
                                             ELSE [worker[w] EXCEPT !.dirs = @ \ {d}]]
        BY <1>7 DEF SweepDelete
  <2>2. worker[w].at = "sweep_delete" /\ UNCHANGED <<job, rows, active>>
        BY <1>7 DEF SweepDelete, At, catalogue
  <2>3. /\ worker[w].dirs # {d} => /\ worker'[w].at = "sweep_delete"
                                   /\ worker'[w].dirs = worker[w].dirs \ {d}
        /\ \A v \in Workers \ {w} : worker'[v] = worker[v]
        BY <2>1, <2>2, <1>t DEF WorkerType
  <2>4. ASSUME NEW h \in Hashes, assets'[h] # None
        PROVE  h # d /\ assets[h] # None
        BY <2>1, <2>4 DEF TypeOK
  <2>5. ASSUME NEW h \in Hashes, h # d, Swept(h) PROVE Swept(h)'
    <3>1. CASE h \in worker[w].dirs BY <2>3, <2>5, <3>1 DEF Swept, At
    <3>2. CASE h \notin worker[w].dirs BY <1>k, <2>2, <2>3, <2>5, <3>2 DEF At
    <3>3. QED BY <3>1, <3>2
  <2>6. QED BY <1>r, <2>1, <2>2, <2>4, <2>5 DEF SweepsOK
<1>8. CASE Restart
  <2>1. left' = left \cup ({h \in Hashes : assets[h] # None} \ Referenced)
        BY <1>8 DEF Restart
  <2>2. UNCHANGED <<job, rows, active, assets>> BY <1>8 DEF Restart, catalogue, files
  <2>3. QED BY <1>r, <2>1, <2>2 DEF SweepsOK
<1>9. CASE UNCHANGED vars
      BY <1>9 DEF vars, SweepsOK, Swept, At, Referenced
<1>10. QED
       BY <1>1, <1>2, <1>3, <1>4, <1>5, <1>6, <1>7, <1>8, <1>9, AsideStep DEF Next, Step

-----------------------------------------------------------------------------
(* The invariant. *)
LEMMA InitInv == Init => StoresInv
<1> SUFFICES ASSUME Init PROVE StoresInv OBVIOUS
<1>1. TypeOK BY InitTypes
<1>2. ReadyIsActive /\ RowsOK BY StoreAssumption DEF Init, ReadyIsActive, RowsOK
<1>3. WorkersOK BY DEF Init, WorkersOK, Idle
<1>4. PagesOK BY StoreAssumption DEF Init, PagesOK, Kept, At, Idle, Legs
<1>5. SweepsOK BY DEF Init, SweepsOK
<1>6. QED BY <1>1, <1>2, <1>3, <1>4, <1>5 DEF StoresInv

LEMMA StoresStep == StoresInv /\ [Next]_vars => StoresInv' /\ Transaction
<1> SUFFICES ASSUME StoresInv, [Next]_vars PROVE StoresInv' /\ Transaction OBVIOUS
<1> USE DEF StoresInv
<1>1. Transaction BY TransactionStep
<1>2. QED BY <1>1, TypesStep, RowsStep, WorkersStep, PagesStep, SweepsStep

(* StoresInv holds always: it is inductive.                                 *)
THEOREM Invariance == Spec => []StoresInv
BY InitInv, StoresStep, PTL DEF Spec

(* Rows, pointers, directories and workers keep their types, whatever the   *)
(* workers, faults and restarts (raptor_store.py, visual_retriever.py).     *)
THEOREM Types == Spec => []TypeOK
<1>1. StoresInv => TypeOK BY DEF StoresInv
<1>2. QED BY <1>1, Invariance, PTL

(* A `ready' row is the active one of its source and the other way round,   *)
(* whatever removals and collections run into a publication.                *)
THEOREM OneGeneration == Spec => []ReadyIsActive
<1>1. StoresInv => ReadyIsActive BY DEF StoresInv
<1>2. QED BY <1>1, Invariance, PTL

(* Outside a publication that a stale cleanup can hit, the page images of   *)
(* every active generation are on disk and are its own.                     *)
THEOREM PagesOnDisk == Spec => []ActiveHasPages
<1>1. ASSUME StoresInv PROVE ActiveHasPages
  <2>1. SUFFICES ASSUME NEW s \in Sources, active["visual"][s] # None,
                        active["visual"][s] \notin exposed
                 PROVE  assets[job[active["visual"][s]].hash] = job[active["visual"][s]].pages
        BY DEF ActiveHasPages
  <2>2. active["visual"][s] \in Gens BY <1>1, <2>1 DEF StoresInv, TypeOK, Legs
  <2>3. QED BY <1>1, <2>1, <2>2 DEF StoresInv, PagesOK, Kept
<1>2. QED BY <1>1, Invariance, PTL

(* No directory of page images is forgotten, but for what a failed commit   *)
(* or a restart leaves behind.                                              *)
THEOREM Tidiness == Spec => []QuiescentIsTidy
<1>1. StoresInv => QuiescentIsTidy
      BY DEF StoresInv, SweepsOK, Swept, QuiescentIsTidy, At
<1>2. QED BY <1>1, Invariance, PTL

-----------------------------------------------------------------------------
(* The refinement. *)
LEMMA FreshStores ==
    ASSUME Init, NEW l \in Legs
    PROVE  Fate(l) = [g \in Gens |-> "unborn"] /\ Of(l) = [g \in Gens |-> None]
BY DEF Init, Fate, Of

(* Either store implements the catalogue, so that a removed, replaced or    *)
(* collected generation is never shown again: publish_generation of a late  *)
(* builder included.                                                        *)
THEOREM Refinement == Spec => StoresAreCatalogues
<1>1. Init => Raptor!Init /\ Visual!Init
      BY FreshStores DEF Raptor!Init, Visual!Init, Legs
<1>2. ASSUME StoresInv, [Next]_vars
      PROVE  CatalogueStep("raptor") /\ CatalogueStep("visual")
      BY <1>2, StoresStep, RefinementStep DEF StoresInv, Legs
<1>3. CatalogueStep("raptor") => [Raptor!Next]_(Raptor!vars)
      BY DEF CatalogueStep, Offers, Publishes, Forgets, Seen, Raptor!Next, Raptor!vars,
             Raptor!Offer, Raptor!Publish, Raptor!SeenFor, Raptor!Remove, Raptor!Drop,
             Raptor!Forget
<1>4. CatalogueStep("visual") => [Visual!Next]_(Visual!vars)
      BY DEF CatalogueStep, Offers, Publishes, Forgets, Seen, Visual!Next, Visual!vars,
             Visual!Offer, Visual!Publish, Visual!SeenFor, Visual!Remove, Visual!Drop,
             Visual!Forget
<1>5. StoresInv /\ [Next]_vars => [Raptor!Next]_(Raptor!vars) /\ [Visual!Next]_(Visual!vars)
      BY <1>2, <1>3, <1>4
<1>6. QED BY <1>1, <1>5, Invariance, PTL DEF Spec, StoresAreCatalogues, Raptor!Spec, Visual!Spec
=============================================================================
