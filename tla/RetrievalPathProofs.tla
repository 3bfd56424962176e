------------------------- MODULE RetrievalPathProofs -------------------------
(***************************************************************************)
(* TLAPS proofs about DocumentIngestion and about RetrievalPath, which     *)
(* composes it with the read path.                                         *)
(*                                                                         *)
(* The write path: for every set of documents, names and hashes, every     *)
(* number of batches and stores, every set of faults and any number of     *)
(* restarts.  IngestionInv is inductive; UniqueHash and DeletedIsGone are  *)
(* parts of what it implies.  StoredInv, of each row and what the stores   *)
(* hold for it, is inductive relative to it.                               *)
(*                                                                         *)
(* The read path: when the sparse leg is Milvus's own search and never     *)
(* falls back, the composed system refines DocumentIngestion, so the       *)
(* theorems of the write path hold of it, and no stale answer is ever      *)
(* cached under the current version.  (With the BM25 leg both fail: a      *)
(* reader that hydrates BM25 may bring a deleted document back.)  That no  *)
(* cached answer lacks an indexed document is proved for both legs.        *)
(***************************************************************************)
EXTENDS RetrievalPath, TLAPS

\* A SELECT of one row returns None only when no row matches.
LEMMA FetchNone ==
    ASSUME NEW rows, rows \subseteq Docs, None \in Fetch(rows)
    PROVE  rows = {}
BY IngestionAssumption DEF IngestionAssumption, Fetch

\* The initial state satisfies the inductive invariant.
LEMMA InitInv == Init => IngestionInv
BY IngestionAssumption
   DEF IngestionAssumption, Init, IngestionInv, TypeOK, HandlerOK, TaskOK, PurgeOK,
       UniqueHash, HasRow, Running, RowsHashed, NoTask, Idle, Row,
       TaskRecord, LoopRecord, TaskPcs,
       UploadPcs, DeletePcs

-----------------------------------------------------------------------------
\* The steps of _recover_stale_processing and of the registry check behind it.
Recovery ==
    \/ \E d \in Docs, n \in RawNames, h \in Hashes : UploadListStale(d, n, h)
    \/ \E d \in Docs : UploadFlip(d)
    \/ UploadCheckRegistry

\* They touch no store and no task, and change the rows they have listed only.
LEMMA RecoveryFrame ==
    ASSUME TypeOK, Recovery
    PROVE  /\ loop'.at \in {"flip", "conflict", "query"} /\ loop'.at \notin DeletePcs
           /\ UNCHANGED <<file, aged, stores, task, crashes, purge>>
           /\ \A e \in Docs :
                \/ status'[e] = status[e] /\ chunks'[e] = chunks[e]
                \/ /\ HasRow(e) /\ loop.at = "flip" /\ e \in loop.stale
                   /\ status'[e] = "failed" /\ chunks'[e] = 0
<1>l. /\ loop \in LoopRecord
      /\ status \in [Docs -> {"unused", "processing", "indexed", "failed", "deleted"}]
      /\ chunks \in [Docs -> Nat]
    BY DEF TypeOK
<1>p. {"flip", "conflict", "query"} \intersect DeletePcs = {}
    BY DEF DeletePcs
<1>1. ASSUME NEW d \in Docs, NEW n \in RawNames, NEW h \in Hashes, UploadListStale(d, n, h)
      PROVE  /\ loop'.at = "flip" /\ UNCHANGED <<registry, stores, task, crashes, purge>>
    BY <1>1 DEF UploadListStale
<1>2. ASSUME NEW d \in Docs, UploadFlip(d)
      PROVE  /\ loop'.at = "flip"
             /\ UNCHANGED <<file, aged, stores, task, crashes, purge>>
             /\ \A e \in Docs :
                  \/ status'[e] = status[e] /\ chunks'[e] = chunks[e]
                  \/ /\ HasRow(e) /\ loop.at = "flip" /\ e \in loop.stale
                     /\ status'[e] = "failed" /\ chunks'[e] = 0
    BY <1>2, <1>l DEF UploadFlip, UpdateStatus, LoopRecord
<1>3. CASE UploadCheckRegistry
    <2>1. loop'.at \in {"conflict", "query"}
        BY <1>3, <1>l DEF UploadCheckRegistry, LoopRecord
    <2> QED
        BY <1>p, <1>3, <2>1 DEF UploadCheckRegistry, registry
<1> QED
    BY <1>p, <1>1, <1>2, <1>3 DEF Recovery, registry

-----------------------------------------------------------------------------
\* Every step keeps the types, given what the handler in progress knows.
LEMMA TypeStep == TypeOK /\ HandlerOK /\ [Next]_vars => TypeOK'
<1> SUFFICES ASSUME TypeOK, HandlerOK, [Next]_vars PROVE TypeOK'
    OBVIOUS
<1>t. task \in [Docs -> TaskRecord]
    BY DEF TypeOK
<1>l. loop \in LoopRecord
    BY DEF TypeOK
<1>s. /\ milvus \in [Docs -> Nat]
      /\ bm25 \in [Docs -> Nat]
      /\ derived \in [1..LegCount -> SUBSET Docs]
      /\ purge \in [Docs -> {"never", "during", "after", "faulted"}]
    BY DEF TypeOK
<1>1. CASE Recovery
      <2>1. ASSUME NEW d \in Docs, NEW n \in RawNames, NEW h \in Hashes,
                   UploadListStale(d, n, h)
            PROVE  TypeOK'
          <3>1. PICK byName \in Docs \union {None}, byHash \in Docs \union {None} :
                  loop' = [at |-> "flip", doc |-> d, name |-> n, hash |-> h, found |-> None,
                           leg |-> 1, stale |-> StaleAmong({byName, byHash})]
              BY <2>1 DEF UploadListStale, Fetch, RowsNamed, RowsHashed
          <3>2. StaleAmong({byName, byHash}) \in SUBSET Docs
              BY DEF StaleAmong
          <3>3. loop' \in LoopRecord
              BY <3>1, <3>2 DEF LoopRecord, UploadPcs
          <3> QED
              BY <2>1, <3>3 DEF UploadListStale, TypeOK, registry, stores
      <2>2. ASSUME NEW d \in Docs, UploadFlip(d) PROVE TypeOK'
          <3>1. loop' \in LoopRecord
              BY <2>2, <1>l DEF UploadFlip, LoopRecord
          <3>2. /\ status' \in [Docs -> {"unused", "processing", "indexed", "failed", "deleted"}]
                /\ chunks' \in [Docs -> Nat]
              BY <2>2 DEF UploadFlip, UpdateStatus, TypeOK
          <3> QED
              BY <2>2, <3>1, <3>2 DEF UploadFlip, TypeOK, stores
      <2>3. CASE UploadCheckRegistry
          <3>1. loop' \in LoopRecord
              BY <2>3, <1>l DEF UploadCheckRegistry, Fetch, RowsNamed, RowsHashed, LoopRecord,
                     UploadPcs
          <3> QED
              BY <2>3, <3>1 DEF UploadCheckRegistry, TypeOK, registry, stores
      <2> QED
          BY <1>1, <2>1, <2>2, <2>3 DEF Recovery
<1>2. CASE UploadQueryMilvus
      <2>1. loop' \in LoopRecord
          BY <1>2, <1>l DEF UploadQueryMilvus, StoredDuplicates, LoopRecord, UploadPcs
      <2> QED
          BY <1>2, <2>1 DEF UploadQueryMilvus, TypeOK, registry, stores
<1>3. CASE UploadRegister
      <2>1. loop' \in LoopRecord
          BY <1>l, <1>3 DEF UploadRegister, Idle, LoopRecord
      <2>2. file' \in [Docs -> Row]
          BY <1>3, IngestionAssumption
          DEF UploadRegister, HandlerOK, UploadPcs, Row, TypeOK, IngestionAssumption
      <2>3. task' \in [Docs -> TaskRecord]
          BY <1>t, <1>3 DEF UploadRegister, NoTask, TaskRecord, TaskPcs
      <2> QED
          BY <1>3, <2>1, <2>2, <2>3 DEF UploadRegister, TypeOK, registry, stores
<1>4. CASE UploadAbort
      BY <1>4 DEF UploadAbort, Idle, LoopRecord, TypeOK, registry, stores
<1>5. CASE \E d \in Docs : DeleteBegin(d)
      <2>1. loop' \in LoopRecord
          <3>1. PICK d \in Docs : loop' = [Idle EXCEPT !.at = "delMilvus", !.doc = d]
              BY <1>5 DEF DeleteBegin
          <3> QED
              BY <3>1 DEF Idle, LoopRecord, DeletePcs
      <2> QED
          BY <1>5, <2>1 DEF DeleteBegin, TypeOK, registry, stores
<1>6. CASE DeleteMilvus
      <2>1. loop' \in LoopRecord
          BY <1>6, <1>l DEF DeleteMilvus, LoopRecord, DeletePcs
      <2>2. milvus' \in [Docs -> Nat]
          BY <1>s, <1>6 DEF DeleteMilvus
      <2>3. purge' \in [Docs -> {"never", "during", "after", "faulted"}]
          BY <1>s, <1>6 DEF DeleteMilvus, Faulted
      <2> QED
          BY <1>6, <2>1, <2>2, <2>3 DEF DeleteMilvus, TypeOK, registry, stores
<1>7. CASE DeleteBm25
      <2>1. loop' \in LoopRecord
          BY <1>7, <1>l DEF DeleteBm25, LoopRecord, DeletePcs
      <2>2. bm25' \in [Docs -> Nat]
          BY <1>s, <1>7 DEF DeleteBm25
      <2>3. purge' \in [Docs -> {"never", "during", "after", "faulted"}]
          BY <1>s, <1>7 DEF DeleteBm25, Faulted
      <2> QED
          BY <1>7, <2>1, <2>2, <2>3 DEF DeleteBm25, TypeOK, registry, stores
<1>8. CASE DeleteBump
      <2>1. loop' \in LoopRecord
          BY <1>8, <1>l DEF DeleteBump, LoopRecord, DeletePcs
      <2> QED
          BY <1>8, <2>1 DEF DeleteBump, TypeOK, registry, stores
<1>9. CASE DeleteLeg
      <2>1. loop.leg + 1 \in Nat
          BY <1>l DEF LoopRecord
      <2>2. loop' \in LoopRecord
          BY <1>9, <2>1, <1>l DEF DeleteLeg, LoopRecord, DeletePcs
      <2>3. derived' \in [1..LegCount -> SUBSET Docs]
          BY <1>s, <1>9 DEF DeleteLeg
      <2>4. purge' \in [Docs -> {"never", "during", "after", "faulted"}]
          BY <1>s, <1>9 DEF DeleteLeg, Faulted
      <2> QED
          BY <1>9, <2>2, <2>3, <2>4 DEF DeleteLeg, TypeOK, registry, stores
<1>10. CASE DeleteLegBump
      <2>1. loop.leg + 1 \in Nat
          BY <1>l DEF LoopRecord
      <2>2. loop' \in LoopRecord
          BY <1>10, <2>1, <1>l DEF DeleteLegBump, LoopRecord, DeletePcs
      <2> QED
          BY <1>10, <2>2 DEF DeleteLegBump, TypeOK, registry, stores
<1>11. CASE DeleteRow
      BY <1>11 DEF DeleteRow, Idle, LoopRecord, TypeOK, registry, stores
<1>12. ASSUME NEW d \in Docs, TaskParse(d) PROVE TypeOK'
      <2>1. task' \in [Docs -> TaskRecord]
          <3>1. CASE TaskFails(d)
              BY <1>t, <3>1 DEF TaskFails, NoTask, TaskRecord
          <3>2. ASSUME NEW n \in Nat, NEW pc \in TaskPcs,
                       task' = [task EXCEPT ![d].total = n, ![d].pc = pc]
                PROVE  task' \in [Docs -> TaskRecord]
              BY <1>t, <3>2 DEF TaskRecord
          <3>3. ASSUME NEW n \in 0..MaxBatches,
                       task' = [task EXCEPT ![d].total = n,
                                            ![d].pc = IF n = 0 THEN "bm25" ELSE "milvus"]
                PROVE  task' \in [Docs -> TaskRecord]
              <4>1. n \in Nat
                  BY IngestionAssumption DEF IngestionAssumption
              <4>2. (IF n = 0 THEN "bm25" ELSE "milvus") \in TaskPcs
                  BY DEF TaskPcs
              <4> QED
                  BY <3>2, <3>3, <4>1, <4>2
          <3> QED
              BY <1>12, <3>1, <3>3 DEF TaskParse
      <2> QED
          BY <1>12, <2>1 DEF TaskParse, TaskFails, UpdateStatus, TypeOK, registry, stores
<1>13. ASSUME NEW d \in Docs, TaskMilvusRaises(d) PROVE TypeOK'
      <2>1. task' \in [Docs -> TaskRecord]
          BY <1>t, <1>13 DEF TaskMilvusRaises, TaskFails, NoTask, TaskRecord
      <2> QED
          BY <1>13, <2>1 DEF TaskMilvusRaises, TaskFails, UpdateStatus, TypeOK, registry, stores
<1>14. ASSUME NEW d \in Docs, TaskMilvusBatch(d) PROVE TypeOK'
      <2>1. PICK ok \in {0, 1} :
              /\ milvus' = [milvus EXCEPT ![d] = @ + ok]
              /\ task' = [task EXCEPT ![d].sent = @ + 1,
                                      ![d].inserted = @ + ok,
                                      ![d].pc = IF task[d].sent + 1 = task[d].total
                                                  THEN "bm25" ELSE "milvus"]
          BY <1>14 DEF TaskMilvusBatch
      <2>2. milvus' \in [Docs -> Nat]
          BY <1>s, <2>1
      <2>3. task' \in [Docs -> TaskRecord]
          <3>1. PICK pc \in TaskPcs :
                  task' = [task EXCEPT ![d].sent = @ + 1, ![d].inserted = @ + ok, ![d].pc = pc]
              BY <2>1 DEF TaskPcs
          <3> DEFINE t == [task[d] EXCEPT !.sent = @ + 1, !.inserted = @ + ok, !.pc = pc]
          <3>2. task' = [task EXCEPT ![d] = t]
              BY <3>1
          <3>3. task[d] \in TaskRecord
              BY <1>t
          <3>4. t = [task[d] EXCEPT !.sent = task[d].sent + 1,
                                    !.inserted = task[d].inserted + ok, !.pc = pc]
              OBVIOUS
          <3>5. ASSUME NEW x \in Nat, NEW y \in Nat
                PROVE  [task[d] EXCEPT !.sent = x, !.inserted = y, !.pc = pc] \in TaskRecord
              BY <3>3 DEF TaskRecord
          <3>6. task[d].sent + 1 \in Nat /\ task[d].inserted + ok \in Nat
              BY <3>3 DEF TaskRecord
          <3>7. t \in TaskRecord
              BY <3>4, <3>5, <3>6
          <3> HIDE DEF t
          <3> QED
              BY <1>t, <3>2, <3>7
      <2> QED
          BY <1>14, <2>2, <2>3 DEF TaskMilvusBatch, TypeOK, registry, stores
<1>15. ASSUME NEW d \in Docs, TaskBm25(d) PROVE TypeOK'
      <2>1. task' \in [Docs -> TaskRecord]
          BY <1>t, <1>15 DEF TaskBm25, TaskRecord, TaskPcs
      <2>2. bm25' \in [Docs -> Nat]
          BY <1>s, <1>t, <1>15 DEF TaskBm25
      <2> QED
          BY <1>15, <2>1, <2>2 DEF TaskBm25, TypeOK, registry, stores
<1>16. ASSUME NEW d \in Docs, TaskBump(d) \/ TaskLegBump(d) PROVE TypeOK'
      <2>1. task' \in [Docs -> TaskRecord]
          BY <1>t, <1>16 DEF TaskBump, TaskLegBump, TaskRecord, TaskPcs
      <2> QED
          BY <1>16, <2>1 DEF TaskBump, TaskLegBump, TypeOK, registry, stores
<1>17. ASSUME NEW d \in Docs, TaskLeg(d) PROVE TypeOK'
      <2>1. task' \in [Docs -> TaskRecord]
          BY <1>t, <1>17 DEF TaskLeg, TaskRecord, TaskPcs
      <2>2. derived' \in [1..LegCount -> SUBSET Docs]
          BY <1>s, <1>17 DEF TaskLeg
      <2> QED
          BY <1>17, <2>1, <2>2 DEF TaskLeg, TypeOK, registry, stores
<1>18. ASSUME NEW d \in Docs, TaskFinish(d) PROVE TypeOK'
      <2>1. task[d].inserted \in Nat
          BY <1>t DEF TaskRecord
      <2>2. task' \in [Docs -> TaskRecord]
          BY <1>t, <1>18 DEF TaskFinish, NoTask, TaskRecord
      <2> QED
          BY <1>18, <2>1, <2>2 DEF TaskFinish, UpdateStatus, TypeOK, registry, stores
<1>19. ASSUME NEW d \in Docs, Age(d) PROVE TypeOK'
      BY <1>19 DEF Age, TypeOK, registry, stores
<1>20. CASE Restart
      <2>1. task' \in [Docs -> TaskRecord]
          BY <1>t, <1>20 DEF Restart, NoTask, TaskRecord
      <2>2. loop' \in LoopRecord
          BY <1>l, <1>20 DEF Restart, Idle, LoopRecord
      <2>3. crashes' \in 0..MaxCrashes
          BY <1>20, IngestionAssumption DEF Restart, TypeOK, IngestionAssumption
      <2>4. bm25' \in [Docs -> Nat]
          BY <1>20 DEF Restart
      <2> QED
          BY <1>20, <2>1, <2>2, <2>3, <2>4 DEF Restart, TypeOK, registry, stores
<1>21. CASE UNCHANGED vars
      BY <1>21 DEF vars, TypeOK, registry, stores
<1> QED
      BY <1>1, <1>2, <1>3, <1>4, <1>5, <1>6, <1>7, <1>8, <1>9, <1>10, <1>11,
         <1>12, <1>13, <1>14, <1>15, <1>16, <1>17, <1>18, <1>19, <1>20, <1>21
      DEF Next, Upload, Delete, TaskStep, Recovery

-----------------------------------------------------------------------------
\* What a step of d's own task can and cannot touch.
LEMMA TaskFrame ==
    ASSUME TypeOK, NEW d \in Docs, TaskStep(d)
    PROVE  /\ Running(d)
           /\ UNCHANGED <<file, loop, purge>>
           /\ \A e \in Docs \ {d} : /\ status'[e] = status[e]
                                    /\ task'[e] = task[e]
                                    /\ milvus'[e] = milvus[e]
                                    /\ bm25'[e] = bm25[e]
           /\ status'[d] \in {status[d], "failed", "indexed"}
           /\ status'[d] # status[d] => HasRow(d) /\ ~Running(d)'
           /\ \A e \in Docs \ {d}, i \in 1..LegCount :
                e \notin derived[i] => e \notin derived'[i]
<1>t. task \in [Docs -> TaskRecord]
    BY DEF TypeOK
<1>s. /\ status \in [Docs -> {"unused", "processing", "indexed", "failed", "deleted"}]
      /\ milvus \in [Docs -> Nat]
      /\ bm25 \in [Docs -> Nat]
      /\ derived \in [1..LegCount -> SUBSET Docs]
    BY DEF TypeOK
<1>1. CASE TaskFails(d) /\ task[d].pc \in {"parse", "milvus"}
    BY <1>1, <1>t, <1>s
    DEF TaskFails, UpdateStatus, Running, TaskPcs, NoTask, HasRow, stores
<1>2. CASE TaskParse(d) /\ ~TaskFails(d)
    BY <1>2, <1>t, <1>s DEF TaskParse, Running, TaskPcs, registry, stores
<1>3. CASE TaskMilvusBatch(d)
    BY <1>3, <1>t, <1>s DEF TaskMilvusBatch, Running, TaskPcs, registry
<1>4. CASE TaskBm25(d)
    BY <1>4, <1>t, <1>s DEF TaskBm25, Running, TaskPcs, registry
<1>5. CASE TaskBump(d) \/ TaskLegBump(d)
    BY <1>5, <1>t, <1>s DEF TaskBump, TaskLegBump, Running, TaskPcs, registry, stores
<1>6. CASE TaskLeg(d)
    <2>1. \A e \in Docs \ {d}, i \in 1..LegCount :
            e \notin derived[i] => e \notin derived'[i]
        BY <1>6, <1>s DEF TaskLeg
    <2>2. \A e \in Docs \ {d} : task'[e] = task[e]
        BY <1>6, <1>t DEF TaskLeg
    <2> QED
        BY <1>6, <2>1, <2>2 DEF TaskLeg, Running, TaskPcs, registry
<1>7. CASE TaskFinish(d)
    BY <1>7, <1>t, <1>s
    DEF TaskFinish, UpdateStatus, Running, TaskPcs, NoTask, HasRow, stores
<1> QED
    BY <1>1, <1>2, <1>3, <1>4, <1>5, <1>6, <1>7
    DEF TaskStep, TaskParse, TaskMilvusRaises

\* The steps of a delete between its first and its last.
DeleteInner ==
    DeleteMilvus \/ DeleteBm25 \/ DeleteBump \/ DeleteLeg \/ DeleteLegBump

\* An inner step of a delete leaves the registry and every task alone, and can
\* only take things out of the stores; a fault in it marks the purge.
LEMMA DeleteFrame ==
    ASSUME TypeOK, DeleteInner
    PROVE  /\ UNCHANGED <<status, file, task>>
           /\ loop.at \in DeletePcs
           /\ loop'.at \in DeletePcs
           /\ loop'.doc = loop.doc
           /\ \A e \in Docs : /\ purge'[e] \in {purge[e], "faulted"}
                              /\ status[e] = "unused" /\ loop.doc # e => purge'[e] = purge[e]
                              /\ milvus[e] = 0 => milvus'[e] = 0
                              /\ bm25[e] = 0 => bm25'[e] = 0
                              /\ \A i \in 1..LegCount :
                                   e \notin derived[i] => e \notin derived'[i]
<1>l. loop \in LoopRecord
    BY DEF TypeOK
<1>s. /\ purge \in [Docs -> {"never", "during", "after", "faulted"}]
      /\ milvus \in [Docs -> Nat]
      /\ bm25 \in [Docs -> Nat]
      /\ derived \in [1..LegCount -> SUBSET Docs]
    BY DEF TypeOK
<1>1. CASE DeleteMilvus
    BY <1>1, <1>l, <1>s DEF DeleteMilvus, LoopRecord, Faulted, DeletePcs, registry
<1>2. CASE DeleteBm25
    BY <1>2, <1>l, <1>s DEF DeleteBm25, LoopRecord, Faulted, DeletePcs, registry
<1>3. CASE DeleteBump \/ DeleteLegBump
    BY <1>3, <1>l, <1>s DEF DeleteBump, DeleteLegBump, LoopRecord, DeletePcs, registry, stores
<1>4. CASE DeleteLeg
    <2>1. \A e \in Docs, i \in 1..LegCount : e \notin derived[i] => e \notin derived'[i]
        BY <1>4, <1>s DEF DeleteLeg
    <2>2. \A e \in Docs : /\ purge'[e] \in {purge[e], "faulted"}
                          /\ loop.doc # e => purge'[e] = purge[e]
        BY <1>4, <1>s DEF DeleteLeg, Faulted
    <2>3. loop'.at \in DeletePcs /\ loop'.doc = loop.doc
        BY <1>4, <1>l DEF DeleteLeg, LoopRecord, DeletePcs
    <2> QED
        BY <1>4, <2>1, <2>2, <2>3 DEF DeleteLeg, DeletePcs, registry
<1> QED
    BY <1>1, <1>2, <1>3, <1>4 DEF DeleteInner

-----------------------------------------------------------------------------
\* The handler in progress keeps what it knows until it ends.
LEMMA HandlerInv == TypeOK /\ HandlerOK /\ [Next]_vars => HandlerOK'
<1> SUFFICES ASSUME TypeOK, HandlerOK, [Next]_vars PROVE HandlerOK'
    OBVIOUS
<1>l. loop \in LoopRecord
    BY DEF TypeOK
<1>s. status \in [Docs -> {"unused", "processing", "indexed", "failed", "deleted"}]
    BY DEF TypeOK
<1>i. loop' = Idle => HandlerOK'
    BY DEF HandlerOK, Idle, UploadPcs, DeletePcs
<1>1. CASE Recovery
      <2>1. \A e \in Docs : /\ HasRow(e)' <=> HasRow(e)
                            /\ status[e] = "unused" => status'[e] = "unused"
          BY <1>1, RecoveryFrame DEF HasRow
      <2>2. ASSUME NEW h PROVE RowsHashed(h)' = RowsHashed(h)
          BY <2>1, <1>1, RecoveryFrame DEF RowsHashed, HashOf
      <2>3. ASSUME NEW d \in Docs, NEW n \in RawNames, NEW h \in Hashes,
                   UploadListStale(d, n, h)
            PROVE  HandlerOK'
          <3>1. /\ loop'.at = "flip" /\ loop'.doc = d /\ loop'.name = n /\ loop'.hash = h
                /\ loop'.stale \subseteq aged
              BY <2>3 DEF UploadListStale, StaleAmong
          <3>2. status'[d] = "unused" /\ aged' = aged
              BY <2>3 DEF UploadListStale, registry
          <3> QED
              BY <3>1, <3>2 DEF HandlerOK, UploadPcs, DeletePcs
      <2>4. ASSUME NEW d \in Docs, UploadFlip(d) PROVE HandlerOK'
          <3>1. /\ loop.at = "flip" /\ loop'.at = "flip" /\ loop'.doc = loop.doc
                /\ loop'.name = loop.name /\ loop'.hash = loop.hash
                /\ loop'.stale \subseteq loop.stale /\ aged' = aged
              BY <2>4, <1>l DEF UploadFlip, LoopRecord
          <3>2. status'[loop.doc] = "unused"
              BY <2>1, <3>1 DEF HandlerOK, UploadPcs
          <3> QED
              BY <3>1, <3>2 DEF HandlerOK, UploadPcs, DeletePcs
      <2>5. CASE UploadCheckRegistry
          <3>1. PICK byName \in Fetch(RowsNamed(loop.name)), byHash \in Fetch(RowsHashed(loop.hash)) :
                  loop' = [loop EXCEPT
                             !.at = IF Blocks(byName) \/ Blocks(byHash) THEN "conflict" ELSE "query",
                             !.found = IF Blocks(byName) THEN byName ELSE byHash]
              BY <2>5 DEF UploadCheckRegistry
          <3>2. /\ loop.at = "flip" /\ loop'.at \in {"conflict", "query"}
                /\ loop'.doc = loop.doc /\ loop'.name = loop.name /\ loop'.hash = loop.hash
              BY <2>5, <1>l, <3>1 DEF UploadCheckRegistry, LoopRecord
          <3>3. loop'.at = "query" => byHash = None
              BY <3>1, <1>l DEF Blocks, LoopRecord
          <3>4. loop'.at = "query" => RowsHashed(loop.hash) = {}
              <4>1. RowsHashed(loop.hash) \subseteq Docs
                  BY DEF RowsHashed
              <4> QED
                  BY <3>1, <3>3, <4>1, FetchNone
          <3>5. RowsHashed(loop.hash)' = RowsHashed(loop.hash)
              <4>1. RowsHashed(loop.hash)' = {e \in Docs : HasRow(e)' /\ HashOf(e)' = loop'.hash}
                  BY DEF RowsHashed
              <4> QED
                  BY <3>2, <4>1, <2>1, <1>1, RecoveryFrame DEF RowsHashed, HashOf
          <3>6. status'[loop.doc] = "unused"
              BY <2>1, <3>2 DEF HandlerOK, UploadPcs
          <3> QED
              BY <3>2, <3>4, <3>5, <3>6 DEF HandlerOK, UploadPcs, DeletePcs
      <2> QED
          BY <1>1, <2>3, <2>4, <2>5 DEF Recovery
<1>2. CASE UploadQueryMilvus
      <2>1. /\ loop.at = "query"
            /\ loop'.at \in {"register", "conflict"}
            /\ loop'.doc = loop.doc /\ loop'.name = loop.name /\ loop'.hash = loop.hash
          BY <1>2, <1>l DEF UploadQueryMilvus, LoopRecord
      <2>2. UNCHANGED <<status, file>>
          BY <1>2 DEF UploadQueryMilvus, registry
      <2>3. RowsHashed(loop.hash)' = RowsHashed(loop.hash)
          BY <2>1, <2>2 DEF RowsHashed, HasRow, HashOf
      <2> QED
          BY <2>1, <2>2, <2>3 DEF HandlerOK, UploadPcs, DeletePcs
<1>3. CASE UploadRegister \/ UploadAbort \/ DeleteRow \/ Restart
      BY <1>3, <1>i DEF UploadRegister, UploadAbort, DeleteRow, Restart
<1>4. ASSUME NEW d \in Docs, DeleteBegin(d) PROVE HandlerOK'
      <2>1. loop'.at = "delMilvus" /\ loop'.doc = d /\ UNCHANGED status /\ HasRow(d)
          BY <1>4 DEF DeleteBegin, Idle, registry
      <2> QED
          BY <2>1 DEF HandlerOK, UploadPcs, DeletePcs, HasRow
<1>5. CASE DeleteInner
      BY <1>5, DeleteFrame DEF HandlerOK, HasRow, UploadPcs, DeletePcs
<1>6. ASSUME NEW d \in Docs, TaskStep(d) PROVE HandlerOK'
      <2>1. UNCHANGED <<file, loop>>
          BY <1>6, TaskFrame
      <2>2. \A e \in Docs : /\ HasRow(e)' <=> HasRow(e)
                            /\ status[e] = "unused" => status'[e] = "unused"
          BY <1>6, TaskFrame DEF HasRow
      <2>3. RowsHashed(loop.hash)' = RowsHashed(loop.hash)
          BY <2>1, <2>2 DEF RowsHashed, HashOf
      <2>4. aged' = aged
          BY <1>6 DEF TaskStep, TaskParse, TaskMilvusRaises, TaskMilvusBatch, TaskBm25,
                 TaskBump, TaskLeg, TaskLegBump, TaskFinish, TaskFails, registry
      <2> QED
          BY <2>1, <2>2, <2>3, <2>4 DEF HandlerOK
<1>7. ASSUME NEW d \in Docs, Age(d) \/ UNCHANGED vars PROVE HandlerOK'
      BY <1>7 DEF Age, vars, HandlerOK, RowsHashed, HasRow, HashOf
<1>8. CASE UNCHANGED vars
      BY <1>8 DEF vars, HandlerOK, RowsHashed, HasRow, HashOf
<1> QED
      BY <1>1, <1>2, <1>3, <1>4, <1>5, <1>6, <1>7, <1>8
      DEF Next, Upload, Delete, DeleteInner, Recovery

-----------------------------------------------------------------------------
\* A new row appears only when the handler registers it, and by then no other
\* row has its hash.
LEMMA UniqueStep == TypeOK /\ HandlerOK /\ UniqueHash /\ [Next]_vars => UniqueHash'
<1> SUFFICES ASSUME TypeOK, HandlerOK, UniqueHash, [Next]_vars PROVE UniqueHash'
    OBVIOUS
<1>s. /\ status \in [Docs -> {"unused", "processing", "indexed", "failed", "deleted"}]
      /\ file \in [Docs -> Row]
    BY DEF TypeOK
<1>k. ASSUME UNCHANGED file, \A e \in Docs : HasRow(e)' => HasRow(e)
      PROVE  UniqueHash'
    BY <1>k DEF UniqueHash, HashOf
<1>1. CASE UploadRegister
      <2>1. PICK d \in Docs, h \in Hashes :
              d = loop.doc /\ h = loop.hash /\ RowsHashed(h) = {}
          BY <1>1 DEF UploadRegister, HandlerOK, UploadPcs
      <2>2. \A e \in Docs \ {d} : status'[e] = status[e] /\ file'[e] = file[e]
          BY <1>1, <2>1, <1>s DEF UploadRegister
      <2>3. file'[d].hash = h
          BY <1>1, <2>1, <1>s DEF UploadRegister
      <2>4. \A e \in Docs \ {d} : HasRow(e)' => HashOf(e)' # h
          BY <2>1, <2>2 DEF RowsHashed, HasRow, HashOf
      <2>5. \A e \in Docs : HasRow(e)' /\ HashOf(e)' = h => e = d
          BY <2>4
      <2>6. ASSUME NEW e \in Docs, NEW f \in Docs, HasRow(e)', HasRow(f)', HashOf(e)' = HashOf(f)'
            PROVE  e = f
          <3>1. CASE e = d \/ f = d
              BY <2>3, <2>5, <2>6, <3>1 DEF HashOf
          <3>2. CASE e # d /\ f # d
              BY <2>2, <2>6, <3>2 DEF UniqueHash, HasRow, HashOf
          <3> QED
              BY <3>1, <3>2
      <2> QED
          BY <2>6 DEF UniqueHash
<1>2. CASE Recovery
      BY <1>k, <1>2, RecoveryFrame DEF HasRow
<1>3. ASSUME NEW d \in Docs, TaskStep(d) PROVE UniqueHash'
      BY <1>k, <1>3, TaskFrame DEF HasRow
<1>4. CASE DeleteInner
      BY <1>k, <1>4, DeleteFrame DEF HasRow
<1>5. CASE DeleteRow
      BY <1>k, <1>5, <1>s DEF DeleteRow, HasRow
<1>6. CASE UploadQueryMilvus \/ UploadAbort \/ Restart \/ UNCHANGED vars
      BY <1>k, <1>6 DEF UploadQueryMilvus, UploadAbort, Restart, vars, registry, HasRow
<1>7. ASSUME NEW d \in Docs, DeleteBegin(d) \/ Age(d) PROVE UniqueHash'
      BY <1>k, <1>7 DEF DeleteBegin, Age, registry, HasRow
<1> QED
      BY <1>1, <1>2, <1>3, <1>4, <1>5, <1>6, <1>7
      DEF Next, Upload, Delete, DeleteInner, Recovery

-----------------------------------------------------------------------------
\* A task keeps to documents that are registered and not yet indexed, and a
\* purge that found the task over never meets it again.
LEMMA TaskInv == TypeOK /\ HandlerOK /\ TaskOK /\ [Next]_vars => TaskOK'
<1> SUFFICES ASSUME TypeOK, HandlerOK, TaskOK, [Next]_vars PROVE TaskOK'
    OBVIOUS
<1>s. /\ status \in [Docs -> {"unused", "processing", "indexed", "failed", "deleted"}]
      /\ task \in [Docs -> TaskRecord]
      /\ purge \in [Docs -> {"never", "during", "after", "faulted"}]
    BY DEF TypeOK
<1>1. ASSUME NEW d \in Docs, TaskStep(d) PROVE TaskOK'
      <2>1. ASSUME NEW e \in Docs \ {d}
            PROVE  status'[e] = status[e] /\ task'[e] = task[e] /\ purge'[e] = purge[e]
          BY <1>1, TaskFrame
      <2>2. /\ Running(d) /\ purge'[d] = purge[d]
            /\ status'[d] # status[d] => HasRow(d) /\ ~Running(d)'
            /\ status'[d] \in {status[d], "failed", "indexed"}
          BY <1>1, TaskFrame
      <2> QED
          BY <2>1, <2>2 DEF TaskOK, Running, HasRow
<1>2. CASE DeleteInner
      <2>1. \A e \in Docs : loop.doc = e => status[e] # "unused"
          BY <1>2, DeleteFrame DEF HandlerOK, HasRow
      <2> QED
          BY <1>2, <2>1, DeleteFrame DEF TaskOK, Running
<1>3. CASE Recovery
      BY <1>3, RecoveryFrame DEF TaskOK, Running, HasRow
<1>4. CASE UploadRegister
      <2>1. PICK d \in Docs : d = loop.doc /\ status[d] = "unused"
          BY <1>4 DEF UploadRegister, HandlerOK, UploadPcs
      <2>2. \A e \in Docs \ {d} : status'[e] = status[e] /\ task'[e] = task[e]
          BY <1>4, <2>1, <1>s DEF UploadRegister
      <2>3. status'[d] = "processing" /\ UNCHANGED purge
          BY <1>4, <2>1, <1>s DEF UploadRegister
      <2> QED
          BY <2>1, <2>2, <2>3 DEF TaskOK, Running
<1>5. ASSUME NEW d \in Docs, DeleteBegin(d) PROVE TaskOK'
      BY <1>5, <1>s DEF DeleteBegin, TaskOK, Running, HasRow, registry
<1>6. CASE DeleteRow
      BY <1>6, <1>s DEF DeleteRow, TaskOK, Running, HandlerOK, DeletePcs
<1>7. CASE Restart
      <2>1. \A e \in Docs : Running(e)' => Running(e)
          BY <1>7, <1>s DEF Restart, Running, NoTask, TaskPcs
      <2> QED
          BY <1>7, <2>1 DEF Restart, TaskOK, registry
<1>8. CASE UploadQueryMilvus \/ UploadAbort \/ UNCHANGED vars
      BY <1>8 DEF UploadQueryMilvus, UploadAbort, vars, registry, TaskOK, Running
<1>9. ASSUME NEW d \in Docs, Age(d) PROVE TaskOK'
      BY <1>9 DEF Age, TaskOK, Running
<1> QED
      BY <1>1, <1>2, <1>3, <1>4, <1>5, <1>6, <1>7, <1>8, <1>9
      DEF Next, Upload, Delete, DeleteInner, Recovery

-----------------------------------------------------------------------------
\* A purge that met no task and no fault only ever empties more stores.
LEMMA PurgeInv ==
    TypeOK /\ HandlerOK /\ TaskOK /\ PurgeOK /\ [Next]_vars => PurgeOK'
<1> SUFFICES ASSUME TypeOK, HandlerOK, TaskOK, PurgeOK, [Next]_vars PROVE PurgeOK'
    OBVIOUS
<1>s. /\ status \in [Docs -> {"unused", "processing", "indexed", "failed", "deleted"}]
      /\ purge \in [Docs -> {"never", "during", "after", "faulted"}]
      /\ milvus \in [Docs -> Nat]
      /\ bm25 \in [Docs -> Nat]
      /\ derived \in [1..LegCount -> SUBSET Docs]
    BY DEF TypeOK
<1>l. loop \in LoopRecord
    BY DEF TypeOK
<1>k. ASSUME \A e \in Docs : /\ purge'[e] = "after" => purge[e] = "after"
                             /\ purge'[e] = "after" /\ status'[e] = "deleted" => status[e] = "deleted"
                             /\ purge'[e] = "after" /\ milvus[e] = 0 => milvus'[e] = 0
                             /\ purge'[e] = "after" /\ bm25[e] = 0 => bm25'[e] = 0
                             /\ \A i \in 1..LegCount :
                                  purge'[e] = "after" /\ e \notin derived[i] => e \notin derived'[i],
             loop' = loop \/ loop'.at \notin DeletePcs
      PROVE  PurgeOK'
    BY <1>k DEF PurgeOK, Nowhere
<1>1. ASSUME NEW d \in Docs, TaskStep(d) PROVE PurgeOK'
      <2>1. ~(purge'[d] = "after")
          BY <1>1, TaskFrame DEF TaskOK
      <2>2. UNCHANGED <<loop, purge>>
          BY <1>1, TaskFrame
      <2>3. \A e \in Docs \ {d} : /\ status'[e] = status[e]
                                  /\ milvus'[e] = milvus[e]
                                  /\ bm25'[e] = bm25[e]
                                  /\ \A i \in 1..LegCount : e \notin derived[i] => e \notin derived'[i]
          BY <1>1, TaskFrame
      <2> QED
          BY <1>k, <2>1, <2>2, <2>3
<1>2. CASE Recovery
      BY <1>k, <1>2, RecoveryFrame DEF stores, HasRow
<1>3. CASE UploadQueryMilvus
      <2>1. loop'.at \notin DeletePcs
          BY <1>3, <1>l DEF UploadQueryMilvus, LoopRecord, DeletePcs
      <2> QED
          BY <1>k, <1>3, <2>1 DEF UploadQueryMilvus, registry, stores
<1>4. CASE UploadRegister
      <2>1. loop'.at \notin DeletePcs
          BY <1>4 DEF UploadRegister, Idle, DeletePcs
      <2>2. \A e \in Docs : status'[e] = "deleted" => status[e] = "deleted"
          BY <1>4, <1>s DEF UploadRegister
      <2> QED
          BY <1>k, <1>4, <2>1, <2>2 DEF UploadRegister, stores
<1>5. CASE UploadAbort
      BY <1>k, <1>5 DEF UploadAbort, Idle, DeletePcs, registry, stores
<1>6. ASSUME NEW d \in Docs, DeleteBegin(d) PROVE PurgeOK'
      <2>1. loop'.at = "delMilvus" /\ loop'.doc = d /\ loop'.leg = 1
          BY <1>6 DEF DeleteBegin, Idle
      <2>2. UNCHANGED <<status, milvus, bm25, derived>> /\ status[d] # "deleted"
          BY <1>6 DEF DeleteBegin, registry, stores, HasRow
      <2>3. \A e \in Docs \ {d} : purge'[e] = purge[e]
          BY <1>6, <1>s DEF DeleteBegin
      <2> QED
          BY <2>1, <2>2, <2>3 DEF PurgeOK, Nowhere
<1>7. CASE DeleteRow
      <2>1. PICK d \in Docs : d = loop.doc
          BY <1>7 DEF DeleteRow, HandlerOK, DeletePcs
      <2>2. UNCHANGED <<milvus, bm25, derived, purge>> /\ loop'.at \notin DeletePcs
          BY <1>7 DEF DeleteRow, stores, Idle, DeletePcs
      <2>3. \A e \in Docs \ {d} : status'[e] = status[e]
          BY <1>7, <2>1, <1>s DEF DeleteRow
      <2>4. purge[d] = "after" => Nowhere(d)
          <3>1. loop.at = "delLeg" /\ loop.leg = LegCount + 1 /\ LegCount \in Nat
              BY <1>7, IngestionAssumption DEF DeleteRow, IngestionAssumption
          <3>2. \A i \in 1..LegCount : i < loop.leg
              BY <3>1
          <3> QED
              BY <2>1, <3>1, <3>2 DEF PurgeOK, Nowhere, DeletePcs
      <2> QED
          BY <2>2, <2>3, <2>4 DEF PurgeOK, Nowhere
<1>8. CASE Restart
      <2>1. loop'.at \notin DeletePcs /\ \A e \in Docs : bm25'[e] = 0
          BY <1>8 DEF Restart, Idle, DeletePcs
      <2> QED
          BY <1>k, <1>8, <2>1 DEF Restart, registry
<1>9. ASSUME NEW d \in Docs, Age(d) PROVE PurgeOK'
      BY <1>k, <1>9 DEF Age, stores
<1>10. CASE UNCHANGED vars
      BY <1>k, <1>10 DEF vars
<1>11. CASE DeleteInner
      <2>1. PICK d \in Docs : d = loop.doc /\ HasRow(d)
          BY <1>11, DeleteFrame DEF HandlerOK
      <2>2. /\ UNCHANGED status /\ status[d] # "deleted" /\ loop'.doc = d
            /\ \A e \in Docs : /\ purge'[e] = "after" => purge[e] = "after"
                               /\ milvus[e] = 0 => milvus'[e] = 0
                               /\ bm25[e] = 0 => bm25'[e] = 0
                               /\ \A i \in 1..LegCount : e \notin derived[i] => e \notin derived'[i]
          BY <1>11, <2>1, DeleteFrame DEF HasRow
      <2>3. ASSUME purge'[d] = "after"
            PROVE  /\ loop'.at # "delMilvus" => milvus'[d] = 0
                   /\ loop'.at \notin {"delMilvus", "delBm25"} => bm25'[d] = 0
                   /\ \A i \in 1..LegCount : i < loop'.leg => d \notin derived'[i]
                   /\ loop'.at = "delLegBump" /\ loop'.leg \in 1..LegCount =>
                        d \notin derived'[loop'.leg]
          <3>p. /\ purge[d] = "after"
                /\ loop.at # "delMilvus" => milvus[d] = 0
                /\ loop.at \notin {"delMilvus", "delBm25"} => bm25[d] = 0
                /\ \A i \in 1..LegCount : i < loop.leg => d \notin derived[i]
                /\ loop.at = "delLegBump" /\ loop.leg \in 1..LegCount =>
                     d \notin derived[loop.leg]
              BY <1>11, <2>1, <2>2, <2>3, DeleteFrame DEF PurgeOK
          <3>n. loop.leg \in Nat
              BY <1>l DEF LoopRecord
          <3>1. CASE DeleteMilvus
              <4>1. milvus'[d] = 0
                  BY <3>1, <2>1, <2>3, <1>s DEF DeleteMilvus, DeletedFromMilvus, Faulted
              <4>2. loop'.at = "delBm25" /\ loop'.leg = loop.leg /\ UNCHANGED derived
                  BY <3>1, <1>l DEF DeleteMilvus, LoopRecord
              <4> QED
                  BY <4>1, <4>2, <3>p
          <3>2. CASE DeleteBm25
              <4>1. bm25'[d] = 0
                  BY <3>2, <2>1, <2>3, <1>s DEF DeleteBm25, SameSource, Faulted
              <4>2. /\ loop.at = "delBm25" /\ loop'.at \in {"delBump", "delLeg"}
                    /\ loop'.leg = loop.leg /\ UNCHANGED <<milvus, derived>>
                  BY <3>2, <1>l DEF DeleteBm25, LoopRecord
              <4> QED
                  BY <4>1, <4>2, <3>p
          <3>3. CASE DeleteBump
              BY <3>3, <3>p, <1>l DEF DeleteBump, LoopRecord, stores
          <3>4. CASE DeleteLegBump
              <4>1. /\ loop.at = "delLegBump" /\ loop'.at = "delLeg"
                    /\ loop'.leg = loop.leg + 1 /\ UNCHANGED stores
                  BY <3>4, <1>l DEF DeleteLegBump, LoopRecord
              <4>2. \A i \in 1..LegCount : i < loop.leg + 1 => i < loop.leg \/ i = loop.leg
                  BY <3>n
              <4> QED
                  BY <4>1, <4>2, <3>p DEF stores
          <3>5. CASE DeleteLeg
              <4>1. /\ loop.at = "delLeg" /\ loop'.at \in {"delLeg", "delLegBump"}
                    /\ UNCHANGED <<milvus, bm25>>
                  BY <3>5, <1>l DEF DeleteLeg, LoopRecord
              <4>2. CASE loop'.at = "delLegBump"
                  <5>1. /\ loop'.leg = loop.leg
                        /\ derived' = [derived EXCEPT ![loop.leg] =
                                         @ \ (derived[loop.leg] \intersect SameSource(d))]
                      BY <3>5, <4>2, <2>1, <1>l DEF DeleteLeg, LoopRecord
                  <5>2. d \in SameSource(d)
                      BY <2>1 DEF SameSource
                  <5>3. loop.leg \in 1..LegCount => d \notin derived'[loop.leg]
                      BY <5>1, <5>2, <1>s
                  <5> QED
                      BY <4>1, <4>2, <5>1, <5>3, <3>p, <2>2
              <4>3. CASE loop'.at = "delLeg"
                  <5>1. /\ loop'.leg = loop.leg + 1
                        /\ derived[loop.leg] \intersect SameSource(d) = {}
                        /\ UNCHANGED derived
                      BY <3>5, <4>3, <2>1, <2>3, <1>l, <1>s DEF DeleteLeg, LoopRecord, Faulted
                  <5>2. d \notin derived[loop.leg]
                      BY <5>1, <2>1 DEF SameSource
                  <5>3. \A i \in 1..LegCount : i < loop.leg + 1 => i < loop.leg \/ i = loop.leg
                      BY <3>n
                  <5> QED
                      BY <4>1, <4>3, <5>1, <5>2, <5>3, <3>p
              <4> QED
                  BY <4>1, <4>2, <4>3
          <3> QED
              BY <1>11, <3>1, <3>2, <3>3, <3>4, <3>5 DEF DeleteInner
      <2>4. \A e \in Docs : purge'[e] = "after" /\ status'[e] = "deleted" => Nowhere(e)'
          BY <2>2 DEF PurgeOK, Nowhere
      <2> QED
          BY <2>2, <2>3, <2>4 DEF PurgeOK
<1> QED
      BY <1>1, <1>2, <1>3, <1>4, <1>5, <1>6, <1>7, <1>8, <1>9, <1>10, <1>11
      DEF Next, Upload, Delete, DeleteInner, Recovery

-----------------------------------------------------------------------------
\* The inductive invariant holds in every reachable state.
THEOREM Invariance == Spec => []IngestionInv
<1>1. IngestionInv /\ [Next]_vars => IngestionInv'
    BY TypeStep, HandlerInv, TaskInv, UniqueStep, PurgeInv DEF IngestionInv
<1> QED
    BY InitInv, <1>1, PTL DEF Spec

\* Every variable keeps its type, with any number of documents, stores, faults
\* and restarts.
THEOREM TypeCorrect == Spec => []TypeOK
<1>1. IngestionInv => TypeOK
    BY DEF IngestionInv
<1> QED
    BY <1>1, Invariance, PTL

\* No content hash is registered twice: the event loop runs one upload handler
\* from its duplicate check to its registry.put, whatever the tasks, the stale
\* recovery and restarts do meanwhile.
THEOREM HashesAreUnique == Spec => []UniqueHash
<1>1. IngestionInv => UniqueHash
    BY DEF IngestionInv
<1> QED
    BY <1>1, Invariance, PTL

\* A delete that met no running task and no raising store leaves nothing of the
\* document in any index, and nothing ever comes back.
THEOREM DeletesAreFinal == Spec => []DeletedIsGone
<1>1. IngestionInv => DeletedIsGone
    BY DEF IngestionInv, PurgeOK, DeletedIsGone
<1> QED
    BY <1>1, Invariance, PTL

-----------------------------------------------------------------------------
\* How the steps change the status column: which ones write it, and from where.
LEMMA StatusSteps ==
    ASSUME IngestionInv, [Next]_vars, NEW d \in Docs, status'[d] # status[d]
    PROVE  \/ d \in loop.stale /\ HasRow(d) /\ status'[d] = "failed"
           \/ status[d] = "unused" /\ status'[d] = "processing"
           \/ HasRow(d) /\ status'[d] = "deleted"
           \/ /\ HasRow(d) /\ Running(d) /\ ~Running(d)'
              /\ status[d] # "indexed" /\ status'[d] \in {"failed", "indexed"}
<1>s. /\ status \in [Docs -> {"unused", "processing", "indexed", "failed", "deleted"}]
      /\ TypeOK /\ HandlerOK /\ TaskOK
    BY DEF IngestionInv, TypeOK
<1>1. CASE Recovery
      BY <1>1, <1>s, RecoveryFrame
<1>2. CASE UploadRegister
      BY <1>2, <1>s DEF UploadRegister, HandlerOK, UploadPcs
<1>3. ASSUME NEW e \in Docs, TaskStep(e)
      PROVE  /\ HasRow(d) /\ Running(d) /\ ~Running(d)'
             /\ status[d] # "indexed" /\ status'[d] \in {"failed", "indexed"}
      BY <1>3, <1>s, TaskFrame DEF TaskOK
<1>4. CASE DeleteRow
      BY <1>4, <1>s DEF DeleteRow, HandlerOK, DeletePcs
<1>5. CASE DeleteInner
      BY <1>5, <1>s, DeleteFrame
<1>6. CASE UploadQueryMilvus \/ UploadAbort \/ Restart \/ UNCHANGED vars
      BY <1>6 DEF UploadQueryMilvus, UploadAbort, Restart, vars, registry
<1>7. ASSUME NEW e \in Docs, DeleteBegin(e) \/ Age(e) PROVE FALSE
      BY <1>7 DEF DeleteBegin, Age, registry
<1> QED
      BY <1>1, <1>2, <1>3, <1>4, <1>5, <1>6, <1>7
      DEF Next, Upload, Delete, DeleteInner, Recovery

\* No step puts an indexed row on the list of a stale recovery.
LEMMA ListSteps ==
    ASSUME TypeOK, [Next]_vars, NEW d \in Docs, status[d] = "indexed", d \in loop.stale'
    PROVE  d \in loop.stale
<1>l. loop \in LoopRecord
    BY DEF TypeOK
<1>i. loop' # Idle
    BY DEF Idle
<1>1. CASE Recovery
    <2>1. ASSUME NEW e \in Docs, NEW n \in RawNames, NEW h \in Hashes,
                 UploadListStale(e, n, h)
          PROVE  FALSE
        BY <2>1 DEF UploadListStale, StaleAmong
    <2>2. ASSUME NEW e \in Docs, UploadFlip(e) PROVE d \in loop.stale
        BY <2>2, <1>l DEF UploadFlip, LoopRecord
    <2>3. CASE UploadCheckRegistry
        BY <2>3, <1>l DEF UploadCheckRegistry, LoopRecord
    <2> QED
        BY <1>1, <2>1, <2>2, <2>3 DEF Recovery
<1>2. CASE UploadQueryMilvus
    BY <1>2, <1>l DEF UploadQueryMilvus, LoopRecord
<1>3. CASE UploadRegister \/ UploadAbort \/ DeleteRow \/ Restart
    BY <1>3, <1>i DEF UploadRegister, UploadAbort, DeleteRow, Restart
<1>4. ASSUME NEW e \in Docs, TaskStep(e) PROVE d \in loop.stale
    BY <1>4, TaskFrame
<1>5. CASE DeleteInner
    <2>1. CASE DeleteMilvus
        BY <2>1, <1>l DEF DeleteMilvus, LoopRecord
    <2>2. CASE DeleteBm25
        BY <2>2, <1>l DEF DeleteBm25, LoopRecord
    <2>3. CASE DeleteBump \/ DeleteLegBump
        BY <2>3, <1>l DEF DeleteBump, DeleteLegBump, LoopRecord
    <2>4. CASE DeleteLeg
        BY <2>4, <1>l DEF DeleteLeg, LoopRecord
    <2> QED
        BY <1>5, <2>1, <2>2, <2>3, <2>4 DEF DeleteInner
<1>6. ASSUME NEW e \in Docs, DeleteBegin(e) PROVE FALSE
    BY <1>6 DEF DeleteBegin, Idle
<1>7. ASSUME NEW e \in Docs, Age(e) \/ UNCHANGED vars PROVE d \in loop.stale
    BY <1>7 DEF Age, vars
<1>8. CASE UNCHANGED vars
    BY <1>8 DEF vars
<1> QED
    BY <1>1, <1>2, <1>3, <1>4, <1>5, <1>6, <1>7, <1>8
    DEF Next, Upload, Delete, DeleteInner, Recovery

\* An indexed row is ended by a delete or by a stale recovery that listed it
\* before it was indexed; a late failure of its own task never reaches it.
THEOREM IndexedIsLasting == Spec => IndexedStays
<1>1. IngestionInv /\ [Next]_vars =>
        [\A d \in Docs : status[d] = "indexed" =>
            /\ status'[d] \in {"indexed", "deleted"} \/ d \in loop.stale
            /\ d \in loop.stale' => d \in loop.stale]_vars
    BY StatusSteps, ListSteps DEF IngestionInv
<1> QED
    BY <1>1, Invariance, PTL DEF Spec, IndexedStays

\* A row becomes indexed only by the last step of its own live task, and never
\* when the row is gone.
THEOREM TaskIndexes == Spec => OnlyTaskIndexes
<1>1. IngestionInv /\ [Next]_vars =>
        [\A d \in Docs :
            status[d] # "indexed" /\ status'[d] = "indexed" =>
                Running(d) /\ ~Running(d)' /\ HasRow(d)]_vars
    BY StatusSteps
<1> QED
    BY <1>1, Invariance, PTL DEF Spec, OnlyTaskIndexes

-----------------------------------------------------------------------------
(***************************************************************************)
(* The registry tells the truth about the stores: what an indexed row      *)
(* reports is in Milvus, and a failed row has nothing in any store.        *)
(***************************************************************************)

\* Nothing is stored and nothing is registered at the start.
LEMMA StoredInit == Init => StoredInv
BY DEF Init, StoredInv, StoredOK, Nowhere, HasRow, Running, NoTask, Idle, TaskPcs, DeletePcs

\* A document is safe in a step that leaves its row and its task alone, adds
\* nothing of it to a store, and keeps its Milvus rows unless it is purged.
LEMMA Undisturbed ==
    ASSUME NEW e \in Docs, StoredOK(e),
           status'[e] = status[e], task'[e] = task[e], chunks'[e] = chunks[e],
           aged \subseteq aged',
           purge'[e] = "never" => purge[e] = "never",
           Nowhere(e) => Nowhere(e)',
           purge'[e] = "never" /\ (Running(e) \/ status[e] = "indexed") =>
               milvus'[e] = milvus[e]
    PROVE  StoredOK(e)'
BY DEF StoredOK, Running

\* A step of d's task adds to the stores only what is d's own, and keeps the
\* rest of every other row.
LEMMA OtherTasks ==
    ASSUME TypeOK, NEW d \in Docs, TaskStep(d), NEW e \in Docs \ {d}, StoredOK(e)
    PROVE  StoredOK(e)'
<1>1. UNCHANGED aged /\ chunks'[e] = chunks[e]
    BY DEF TypeOK, TaskStep, TaskParse, TaskMilvusRaises, TaskMilvusBatch, TaskBm25,
           TaskBump, TaskLeg, TaskLegBump, TaskFinish, TaskFails, UpdateStatus, registry
<1>2. /\ UNCHANGED purge
      /\ status'[e] = status[e] /\ task'[e] = task[e]
      /\ milvus'[e] = milvus[e] /\ bm25'[e] = bm25[e]
      /\ \A i \in 1..LegCount : e \notin derived[i] => e \notin derived'[i]
    BY TaskFrame
<1>3. Nowhere(e) => Nowhere(e)'
    BY <1>2 DEF Nowhere
<1> QED
    BY <1>1, <1>2, <1>3, Undisturbed

\* A step of d's own task counts what it stores, and reports the count or, when
\* nothing was stored yet, the failure.
LEMMA OwnTask ==
    ASSUME TypeOK, TaskOK, NEW d \in Docs, TaskStep(d), StoredOK(d)
    PROVE  StoredOK(d)'
<1>t. task \in [Docs -> TaskRecord] /\ task[d] \in TaskRecord
    BY DEF TypeOK
<1>s. /\ status \in [Docs -> {"unused", "processing", "indexed", "failed", "deleted"}]
      /\ chunks \in [Docs -> Nat]
      /\ milvus \in [Docs -> Nat]
      /\ bm25 \in [Docs -> Nat]
      /\ derived \in [1..LegCount -> SUBSET Docs]
    BY DEF TypeOK
<1>r. /\ Running(d) /\ UNCHANGED purge
      /\ status[d] \in {"processing", "failed", "deleted"}
      /\ status[d] = "failed" => d \in aged
    BY TaskFrame DEF TaskOK, StoredOK
<1>e. ASSUME UNCHANGED <<status, aged>>,
             task'[d].pc # "parse", ~(task'[d].pc = "milvus" /\ task'[d].sent = 0),
             Running(d)' /\ purge[d] = "never" => milvus'[d] = task'[d].inserted
      PROVE  StoredOK(d)'
    BY <1>e, <1>r DEF StoredOK
<1>1. CASE TaskFails(d) /\ (task[d].pc = "parse" \/ (task[d].pc = "milvus" /\ task[d].sent = 0))
    <2>1. Nowhere(d) /\ UNCHANGED <<stores, aged>>
        BY <1>1 DEF StoredOK, TaskFails
    <2>2. Nowhere(d)'
        BY <2>1 DEF Nowhere, stores
    <2>3. task'[d].pc = "ended"
        BY <1>1, <1>t DEF TaskFails, NoTask
    <2>4. status'[d] \in {"failed", "deleted"} /\ (status'[d] = "deleted" => status[d] = "deleted")
        BY <1>1, <1>s, <1>r DEF TaskFails, UpdateStatus, HasRow
    <2> QED
        BY <1>r, <2>1, <2>2, <2>3, <2>4 DEF StoredOK, Running, TaskPcs
<1>2. CASE TaskParse(d) /\ ~TaskFails(d)
    <2>1. PICK n \in 0..MaxBatches :
            task' = [task EXCEPT ![d].total = n,
                                 ![d].pc = IF n = 0 THEN "bm25" ELSE "milvus"]
        BY <1>2 DEF TaskParse
    <2>2. /\ task'[d].pc \in {"bm25", "milvus"} /\ task'[d].inserted = task[d].inserted
        BY <2>1, <1>t DEF TaskRecord
    <2>3. UNCHANGED <<registry, stores>> /\ Nowhere(d) /\ task[d].inserted = 0
        BY <1>2 DEF TaskParse, StoredOK
    <2>4. Nowhere(d)'
        BY <2>3 DEF Nowhere, stores
    <2> QED
        BY <1>r, <2>2, <2>3, <2>4 DEF StoredOK, Running, TaskPcs, registry, Nowhere
<1>3. CASE TaskMilvusBatch(d)
    <2>1. PICK ok \in {0, 1} :
            /\ milvus' = [milvus EXCEPT ![d] = @ + ok]
            /\ task' = [task EXCEPT ![d].sent = @ + 1,
                                    ![d].inserted = @ + ok,
                                    ![d].pc = IF task[d].sent + 1 = task[d].total
                                                THEN "bm25" ELSE "milvus"]
        BY <1>3 DEF TaskMilvusBatch
    <2>2. /\ milvus'[d] = milvus[d] + ok
          /\ task'[d].sent = task[d].sent + 1
          /\ task'[d].inserted = task[d].inserted + ok
          /\ task'[d].pc \in {"bm25", "milvus"}
        BY <2>1, <1>s, <1>t DEF TaskRecord
    <2>3. task[d].sent \in Nat
        BY <1>t DEF TaskRecord
    <2>4. task'[d].sent # 0
        BY <2>2, <2>3
    <2>5. purge[d] = "never" => milvus'[d] = task'[d].inserted
        BY <2>2, <1>r DEF StoredOK
    <2>6. UNCHANGED <<status, aged>>
        BY <1>3 DEF TaskMilvusBatch, registry
    <2> QED
        BY <1>e, <2>2, <2>4, <2>5, <2>6
<1>4. CASE TaskBm25(d) \/ TaskBump(d) \/ TaskLeg(d) \/ TaskLegBump(d)
    <2>1. task'[d].pc \in {"bump", "leg", "legBump"} /\ task'[d].inserted = task[d].inserted
        BY <1>4, <1>t DEF TaskBm25, TaskBump, TaskLeg, TaskLegBump, TaskRecord
    <2>2. UNCHANGED <<status, aged, milvus>>
        BY <1>4 DEF TaskBm25, TaskBump, TaskLeg, TaskLegBump, registry, stores
    <2>3. purge[d] = "never" => milvus[d] = task[d].inserted
        BY <1>r DEF StoredOK
    <2> QED
        BY <1>e, <2>1, <2>2, <2>3
<1>5. CASE TaskFinish(d)
    <2>1. task'[d].pc = "ended"
        BY <1>5, <1>t DEF TaskFinish, NoTask
    <2>2. UNCHANGED <<aged, milvus>>
        BY <1>5 DEF TaskFinish, stores
    <2>3. \/ status'[d] = "indexed" /\ chunks'[d] = task[d].inserted
          \/ status'[d] = "deleted" /\ status[d] = "deleted"
        BY <1>5, <1>s, <1>r DEF TaskFinish, UpdateStatus, HasRow
    <2>4. purge[d] = "never" => milvus[d] = task[d].inserted
        BY <1>r DEF StoredOK
    <2> QED
        BY <1>r, <2>1, <2>2, <2>3, <2>4 DEF StoredOK, Running, TaskPcs
<1> QED
    BY <1>1, <1>2, <1>3, <1>4, <1>5, <1>r DEF TaskStep, TaskParse, TaskMilvusRaises

-----------------------------------------------------------------------------
\* The Milvus rows a delete removes by content hash are those of its own
\* document, as far as documents with a row are concerned.
LEMMA DeletesOwnRows ==
    ASSUME HandlerOK, UniqueHash, DeleteMilvus, NEW e \in Docs, HasRow(e), e # loop.doc
    PROVE  milvus'[e] = milvus[e]
<1>1. loop.doc \in Docs /\ HasRow(loop.doc)
    BY DEF DeleteMilvus, HandlerOK, DeletePcs
<1>2. e \notin DeletedFromMilvus(loop.doc)
    BY <1>1 DEF DeletedFromMilvus, UniqueHash
<1> QED
    BY <1>2 DEF DeleteMilvus

\* Inside a delete only the document being deleted loses what it has stored.
LEMMA StoredInDelete ==
    ASSUME TypeOK, HandlerOK, TaskOK, UniqueHash, StoredInv, DeleteInner
    PROVE  StoredInv'
<1>1. /\ UNCHANGED <<status, task>>
      /\ loop.at \in DeletePcs /\ loop'.doc = loop.doc
      /\ \A e \in Docs : /\ purge'[e] \in {purge[e], "faulted"}
                         /\ milvus[e] = 0 => milvus'[e] = 0
                         /\ bm25[e] = 0 => bm25'[e] = 0
                         /\ \A i \in 1..LegCount : e \notin derived[i] => e \notin derived'[i]
    BY DeleteFrame
<1>2. UNCHANGED <<chunks, aged>>
    BY DEF DeleteInner, DeleteMilvus, DeleteBm25, DeleteBump, DeleteLeg, DeleteLegBump, registry
<1>3. loop.doc \in Docs /\ purge[loop.doc] # "never" /\ purge'[loop.doc] # "never"
    BY <1>1 DEF StoredInv, HandlerOK
<1>4. ASSUME NEW e \in Docs, purge'[e] = "never", Running(e) \/ status[e] = "indexed"
      PROVE  milvus'[e] = milvus[e]
    <2>1. purge[e] = "never" /\ e # loop.doc
        BY <1>1, <1>3, <1>4
    <2>2. HasRow(e)
        BY <1>4, <2>1 DEF HasRow, TaskOK, StoredInv, StoredOK
    <2>3. CASE DeleteMilvus
        BY <2>1, <2>2, <2>3, DeletesOwnRows
    <2>4. CASE ~DeleteMilvus
        BY <2>4 DEF DeleteInner, DeleteBm25, DeleteBump, DeleteLeg, DeleteLegBump, stores
    <2> QED
        BY <2>3, <2>4
<1>5. ASSUME NEW e \in Docs PROVE StoredOK(e)'
    <2>1. Nowhere(e) => Nowhere(e)'
        BY <1>1 DEF Nowhere
    <2>2. purge'[e] = "never" => purge[e] = "never"
        BY <1>1
    <2> QED
        BY <1>1, <1>2, <1>4, <2>1, <2>2, Undisturbed DEF StoredInv
<1> QED
    BY <1>1, <1>3, <1>5 DEF StoredInv

\* Every step keeps what the registry says and what the stores hold together.
LEMMA StoredStep ==
    ASSUME TypeOK, HandlerOK, TaskOK, UniqueHash, StoredInv, [Next]_vars
    PROVE  StoredInv'
<1>s. /\ status \in [Docs -> {"unused", "processing", "indexed", "failed", "deleted"}]
      /\ chunks \in [Docs -> Nat]
      /\ milvus \in [Docs -> Nat]
      /\ bm25 \in [Docs -> Nat]
      /\ task \in [Docs -> TaskRecord]
      /\ purge \in [Docs -> {"never", "during", "after", "faulted"}]
      /\ loop \in LoopRecord
    BY DEF TypeOK
<1>o. \A e \in Docs : StoredOK(e)
    BY DEF StoredInv
<1>k. ASSUME \A e \in Docs : StoredOK(e)',
             \/ loop'.at \notin DeletePcs
             \/ UNCHANGED <<loop, purge>>
      PROVE  StoredInv'
    BY <1>k DEF StoredInv
<1>u. ASSUME NEW e \in Docs, UNCHANGED <<stores, purge, aged>>,
             status'[e] = status[e], task'[e] = task[e], chunks'[e] = chunks[e]
      PROVE  StoredOK(e)'
    <2>1. Nowhere(e) => Nowhere(e)'
        BY <1>u DEF Nowhere, stores
    <2> QED
        BY <1>o, <1>u, <2>1, Undisturbed DEF stores
<1>1. ASSUME NEW d \in Docs, TaskStep(d) PROVE StoredInv'
    <2>1. UNCHANGED <<loop, purge>>
        BY <1>1, TaskFrame
    <2>2. ASSUME NEW e \in Docs PROVE StoredOK(e)'
        BY <1>1, <1>o, OwnTask, OtherTasks
    <2> QED
        BY <1>k, <2>1, <2>2
<1>2. CASE Recovery
    <2>1. ASSUME NEW e \in Docs PROVE StoredOK(e)'
        <3>1. CASE status'[e] = status[e] /\ chunks'[e] = chunks[e]
            BY <1>u, <1>2, <3>1, RecoveryFrame
        <3>2. CASE HasRow(e) /\ e \in aged /\ status'[e] = "failed"
            <4>1. Nowhere(e) => Nowhere(e)'
                BY <1>2, RecoveryFrame DEF Nowhere, stores
            <4> QED
                BY <1>o, <1>2, <3>2, <4>1, RecoveryFrame DEF StoredOK, Running, stores, HasRow
        <3> QED
            BY <1>2, <3>1, <3>2, RecoveryFrame DEF HandlerOK
    <2> QED
        BY <1>k, <1>2, <2>1, RecoveryFrame
<1>3. CASE UploadQueryMilvus \/ UploadAbort
    <2>1. loop'.at \notin DeletePcs
        <3>1. CASE UploadQueryMilvus
            BY <3>1, <1>s DEF UploadQueryMilvus, LoopRecord, DeletePcs
        <3>2. CASE UploadAbort
            BY <3>2 DEF UploadAbort, Idle, DeletePcs
        <3> QED
            BY <1>3, <3>1, <3>2
    <2>2. UNCHANGED <<registry, stores, task, purge>>
        BY <1>3 DEF UploadQueryMilvus, UploadAbort
    <2> QED
        BY <1>k, <1>u, <2>1, <2>2 DEF registry
<1>4. CASE UploadRegister
    <2>1. PICK d \in Docs : d = loop.doc /\ status[d] = "unused"
        BY <1>4 DEF UploadRegister, HandlerOK, UploadPcs
    <2>2. UNCHANGED <<chunks, aged, stores, purge>> /\ loop'.at \notin DeletePcs
        BY <1>4 DEF UploadRegister, Idle, DeletePcs
    <2>3. \A e \in Docs \ {d} : status'[e] = status[e] /\ task'[e] = task[e]
        BY <1>4, <2>1, <1>s DEF UploadRegister
    <2>4. /\ status'[d] = "processing"
          /\ task'[d].pc = "parse" /\ task'[d].inserted = 0
        BY <1>4, <2>1, <1>s DEF UploadRegister, NoTask
    <2>5. Nowhere(d) /\ Nowhere(d)'
        BY <1>o, <2>1, <2>2 DEF StoredOK, Nowhere, stores
    <2>6. StoredOK(d)'
        BY <2>4, <2>5 DEF StoredOK, Nowhere
    <2>7. ASSUME NEW e \in Docs \ {d} PROVE StoredOK(e)'
        BY <1>u, <2>2, <2>3
    <2> QED
        BY <1>k, <2>2, <2>6, <2>7
<1>5. ASSUME NEW d \in Docs, DeleteBegin(d) PROVE StoredInv'
    <2>1. UNCHANGED <<registry, stores, task>> /\ loop'.doc = d
        BY <1>5 DEF DeleteBegin, Idle
    <2>2. \A e \in Docs : purge'[e] = "never" => purge[e] = "never"
        BY <1>5, <1>s DEF DeleteBegin
    <2>3. purge'[d] # "never"
        BY <1>5, <1>s DEF DeleteBegin
    <2>4. ASSUME NEW e \in Docs PROVE StoredOK(e)'
        <3>1. Nowhere(e) => Nowhere(e)'
            BY <2>1 DEF Nowhere, stores
        <3> QED
            BY <1>o, <2>1, <2>2, <3>1, Undisturbed DEF registry, stores
    <2> QED
        BY <2>1, <2>3, <2>4 DEF StoredInv
<1>6. CASE DeleteInner
    BY <1>6, StoredInDelete
<1>7. CASE DeleteRow
    <2>1. PICK d \in Docs : d = loop.doc /\ purge[d] # "never"
        BY <1>7 DEF DeleteRow, HandlerOK, DeletePcs, StoredInv
    <2>2. UNCHANGED <<chunks, aged, stores, task, purge>> /\ loop'.at \notin DeletePcs
        BY <1>7 DEF DeleteRow, Idle, DeletePcs
    <2>3. status'[d] = "deleted" /\ \A e \in Docs \ {d} : status'[e] = status[e]
        BY <1>7, <2>1, <1>s DEF DeleteRow
    <2>4. StoredOK(d)'
        <3>1. Nowhere(d) => Nowhere(d)'
            BY <2>2 DEF Nowhere, stores
        <3> QED
            BY <1>o, <2>1, <2>2, <2>3, <3>1 DEF StoredOK
    <2>5. ASSUME NEW e \in Docs \ {d} PROVE StoredOK(e)'
        BY <1>u, <2>2, <2>3
    <2> QED
        BY <1>k, <2>2, <2>4, <2>5
<1>8. ASSUME NEW d \in Docs, Age(d) PROVE StoredInv'
    <2>1. UNCHANGED <<status, chunks, stores, task, loop, purge>> /\ aged \subseteq aged'
        BY <1>8 DEF Age
    <2>2. ASSUME NEW e \in Docs PROVE StoredOK(e)'
        <3>1. Nowhere(e) => Nowhere(e)'
            BY <2>1 DEF Nowhere, stores
        <3> QED
            BY <1>o, <2>1, <3>1, Undisturbed DEF stores
    <2> QED
        BY <1>k, <2>1, <2>2
<1>9. CASE Restart
    <2>1. /\ UNCHANGED <<status, chunks, aged, milvus, derived, purge>>
          /\ loop'.at \notin DeletePcs /\ \A e \in Docs : bm25'[e] = 0
        BY <1>9 DEF Restart, registry, Idle, DeletePcs
    <2>2. \A e \in Docs : /\ task'[e].pc \notin TaskPcs
                          /\ task[e].pc = "idle" => task'[e].pc = "idle"
        BY <1>9, <1>s DEF Restart, Running, NoTask, TaskPcs
    <2>3. ASSUME NEW e \in Docs PROVE StoredOK(e)'
        <3>1. Nowhere(e) => Nowhere(e)'
            BY <2>1 DEF Nowhere
        <3> QED
            BY <1>o, <2>1, <2>2, <3>1 DEF StoredOK, Running, TaskPcs
    <2> QED
        BY <1>k, <2>1, <2>3
<1>10. CASE UNCHANGED vars
    BY <1>10, <1>k, <1>u DEF vars, stores
<1> QED
    BY <1>1, <1>2, <1>3, <1>4, <1>5, <1>6, <1>7, <1>8, <1>9, <1>10
    DEF Next, Upload, Delete, DeleteInner, Recovery

-----------------------------------------------------------------------------
\* The strengthening holds in every reachable state.
THEOREM StoresInvariance == Spec => []StoredInv
<1>1. IngestionInv /\ StoredInv /\ [Next]_vars => StoredInv'
    BY StoredStep DEF IngestionInv
<1> QED
    BY StoredInit, <1>1, Invariance, PTL DEF Spec

\* An indexed document nobody asked to delete has exactly the Milvus batches its
\* registry row reports, although deletes remove Milvus rows by content hash:
\* the uniqueness of the hashes is what protects one document from another.
THEOREM RegistryTellsTheTruth == Spec => []IndexedIsStored
<1>1. StoredInv => IndexedIsStored
    BY DEF StoredInv, StoredOK, IndexedIsStored
<1> QED
    BY <1>1, StoresInvariance, PTL

\* A document whose own task failed has left nothing in Milvus, in BM25 or in an
\* additive store: the task can fail only before its first store operation.
THEOREM FailuresLeaveNothing == Spec => []FailedHoldsNothing
<1>1. StoredInv => FailedHoldsNothing
    BY DEF StoredInv, StoredOK, FailedHoldsNothing
<1> QED
    BY <1>1, StoresInvariance, PTL

-----------------------------------------------------------------------------
(***************************************************************************)
(* BM25.  Its lists are memory, a sync that raises is only logged, and     *)
(* deletes clear them by the sanitised name while uploads are compared by  *)
(* the client's: so what is indexed is only known to be in BM25 within one *)
(* life of the process, while the sync works, and with names that          *)
(* sanitising leaves as they are.                                          *)
(***************************************************************************)
OneLife ==
    /\ MaxCrashes = 0
    /\ "bm25Add" \notin Faults
    /\ \A n \in RawNames : SafeName[n] = n

\* No two rows have one name, as UniqueHash says of hashes.
NamesOK ==
    /\ loop.at \in {"query", "register"} => RowsNamed(loop.name) = {}
    /\ \A d, e \in Docs : HasRow(d) /\ HasRow(e) /\ NameOf(d) = NameOf(e) => d = e

\* What a task has counted was parsed before, and what was parsed is in BM25
\* from its sync on, unless somebody asked to delete it.
SyncedOK(d) ==
    /\ status[d] = "unused" => task[d].pc = "idle"
    /\ status[d] = "deleted" => purge[d] # "never"
    /\ task[d].pc = "parse" => task[d].inserted = 0
    /\ task[d].pc = "milvus" => task[d].total > 0
    /\ task[d].inserted > 0 => task[d].total > 0
    /\ purge[d] = "never" =>
         /\ task[d].pc \in {"bump", "leg", "legBump"} /\ task[d].total > 0 => bm25[d] > 0
         /\ status[d] = "indexed" /\ chunks[d] > 0 => bm25[d] > 0

\* The strengthening of IndexedIsSearchable.
SearchInv ==
    /\ NamesOK
    /\ \A d \in Docs : SyncedOK(d)
    /\ loop.at \in DeletePcs => purge[loop.doc] # "never"

LEMMA SearchInit == Init => SearchInv
BY DEF Init, SearchInv, NamesOK, SyncedOK, HasRow, NoTask, Idle, DeletePcs

\* Only the registration of an upload makes a row, and it makes one of the
\* name the client sent, which no row had when the registry was asked.
LEMMA NamesStep == OneLife /\ TypeOK /\ HandlerOK /\ NamesOK /\ [Next]_vars => NamesOK'
<1> SUFFICES ASSUME OneLife, TypeOK, HandlerOK, NamesOK, [Next]_vars PROVE NamesOK'
    OBVIOUS
<1>s. /\ status \in [Docs -> {"unused", "processing", "indexed", "failed", "deleted"}]
      /\ file \in [Docs -> Row] /\ loop \in LoopRecord
    BY DEF TypeOK
<1>k. ASSUME UNCHANGED file, \A e \in Docs : HasRow(e)' => HasRow(e),
             \/ loop'.at \notin {"query", "register"}
             \/ loop.at \in {"query", "register"} /\ loop'.name = loop.name
             \/ RowsNamed(loop'.name) = {}
      PROVE  NamesOK'
    <2>1. ASSUME NEW n, RowsNamed(n) = {} PROVE RowsNamed(n)' = {}
        BY <1>k, <2>1 DEF RowsNamed, NameOf
    <2>2. loop'.at \in {"query", "register"} => RowsNamed(loop.name)' = {}
        <3> SUFFICES ASSUME loop'.at \in {"query", "register"} PROVE RowsNamed(loop.name)' = {}
            OBVIOUS
        <3>1. RowsNamed(loop'.name) = {}
            BY <1>k DEF NamesOK
        <3>2. ASSUME NEW e \in Docs, HasRow(e)', NameOf(e)' = loop'.name PROVE FALSE
            <4>1. HasRow(e) /\ NameOf(e) = loop'.name
                BY <1>k, <3>2 DEF NameOf
            <4> QED
                BY <3>1, <4>1 DEF RowsNamed
        <3> QED
            BY <3>2 DEF RowsNamed
    <2>3. \A d, e \in Docs : HasRow(d)' /\ HasRow(e)' /\ NameOf(d)' = NameOf(e)' => d = e
        BY <1>k DEF NamesOK, NameOf
    <2> QED
        BY <2>2, <2>3 DEF NamesOK
<1>1. CASE Recovery
    <2>1. UNCHANGED file /\ \A e \in Docs : HasRow(e)' => HasRow(e)
        BY <1>1, RecoveryFrame DEF HasRow
    <2>2. CASE loop'.at # "query"
        BY <1>k, <1>1, <2>1, <2>2, RecoveryFrame
    <2>3. CASE loop'.at = "query"
        <3>1. UploadCheckRegistry
            <4>1. ASSUME NEW d \in Docs, NEW n \in RawNames, NEW h \in Hashes,
                         UploadListStale(d, n, h)
                  PROVE  FALSE
                BY <2>3, <4>1 DEF UploadListStale
            <4>2. ASSUME NEW d \in Docs, UploadFlip(d) PROVE FALSE
                BY <2>3, <4>2, <1>s DEF UploadFlip, LoopRecord
            <4> QED
                BY <1>1, <4>1, <4>2 DEF Recovery
        <3>2. PICK byName \in Fetch(RowsNamed(loop.name)), byHash \in Fetch(RowsHashed(loop.hash)) :
                loop' = [loop EXCEPT
                           !.at = IF Blocks(byName) \/ Blocks(byHash) THEN "conflict" ELSE "query",
                           !.found = IF Blocks(byName) THEN byName ELSE byHash]
            BY <3>1 DEF UploadCheckRegistry
        <3>3. byName = None /\ loop'.name = loop.name
            BY <2>3, <3>2, <1>s DEF Blocks, LoopRecord
        <3>4. RowsNamed(loop.name) \subseteq Docs
            BY DEF RowsNamed
        <3>5. RowsNamed(loop.name) = {}
            BY <3>2, <3>3, <3>4, FetchNone
        <3> QED
            BY <1>k, <2>1, <3>3, <3>5
    <2> QED
        BY <2>2, <2>3
<1>2. CASE UploadQueryMilvus
    <2>1. loop.at = "query" /\ loop'.name = loop.name
        BY <1>2, <1>s DEF UploadQueryMilvus, LoopRecord
    <2>2. UNCHANGED <<status, file>>
        BY <1>2 DEF UploadQueryMilvus, registry
    <2> QED
        BY <1>k, <2>1, <2>2 DEF HasRow
<1>3. CASE UploadRegister
    <2>1. PICK d \in Docs, n \in RawNames : d = loop.doc /\ n = loop.name /\ RowsNamed(n) = {}
        BY <1>3 DEF UploadRegister, HandlerOK, UploadPcs, NamesOK
    <2>2. \A e \in Docs \ {d} : status'[e] = status[e] /\ file'[e] = file[e]
        BY <1>3, <2>1, <1>s DEF UploadRegister
    <2>3. file'[d].name = n
        BY <1>3, <2>1, <1>s DEF UploadRegister, OneLife
    <2>4. ASSUME NEW e \in Docs \ {d}, HasRow(e)'
          PROVE  HasRow(e) /\ NameOf(e)' = NameOf(e) /\ NameOf(e) # n
        <3>1. HasRow(e) /\ NameOf(e)' = NameOf(e)
            BY <2>2, <2>4 DEF HasRow, NameOf
        <3> QED
            BY <3>1, <2>1 DEF RowsNamed
    <2>5. ASSUME NEW e \in Docs, NEW f \in Docs, HasRow(e)', HasRow(f)', NameOf(e)' = NameOf(f)'
          PROVE  e = f
        <3>1. NameOf(d)' = n
            BY <2>3 DEF NameOf
        <3> QED
            BY <2>4, <2>5, <3>1 DEF NamesOK
    <2>6. loop'.at = "idle"
        BY <1>3 DEF UploadRegister, Idle
    <2> QED
        BY <2>5, <2>6 DEF NamesOK
<1>4. CASE UploadAbort \/ Restart
    <2>1. loop'.at = "idle" /\ UNCHANGED <<status, file>>
        BY <1>4 DEF UploadAbort, Restart, registry, Idle
    <2> QED
        BY <1>k, <2>1 DEF HasRow
<1>5. ASSUME NEW d \in Docs, DeleteBegin(d) PROVE NamesOK'
    <2>1. loop'.at = "delMilvus" /\ UNCHANGED <<status, file>>
        BY <1>5 DEF DeleteBegin, Idle, registry
    <2> QED
        BY <1>k, <2>1 DEF HasRow
<1>6. CASE DeleteInner
    <2>1. loop'.at \notin {"query", "register"} /\ UNCHANGED <<status, file>>
        BY <1>6, DeleteFrame DEF DeletePcs
    <2> QED
        BY <1>k, <2>1 DEF HasRow
<1>7. CASE DeleteRow
    <2>1. loop'.at = "idle" /\ UNCHANGED file /\ \A e \in Docs : HasRow(e)' => HasRow(e)
        BY <1>7, <1>s DEF DeleteRow, Idle, HasRow
    <2> QED
        BY <1>k, <2>1
<1>8. ASSUME NEW d \in Docs, TaskStep(d) PROVE NamesOK'
    <2>1. UNCHANGED <<file, loop>> /\ \A e \in Docs : HasRow(e)' => HasRow(e)
        BY <1>8, TaskFrame DEF HasRow
    <2> QED
        BY <1>k, <2>1
<1>9. ASSUME NEW d \in Docs, Age(d) \/ UNCHANGED vars PROVE NamesOK'
    <2>1. UNCHANGED <<status, file, loop>>
        BY <1>9 DEF Age, vars
    <2> QED
        BY <1>k, <2>1 DEF HasRow
<1>10. CASE UNCHANGED vars
    <2>1. UNCHANGED <<status, file, loop>>
        BY <1>10 DEF vars
    <2> QED
        BY <1>k, <2>1 DEF HasRow
<1> QED
    BY <1>1, <1>2, <1>3, <1>4, <1>5, <1>6, <1>7, <1>8, <1>9, <1>10
    DEF Next, Upload, Delete, DeleteInner, Recovery

\* A document stays synced in a step that leaves its row and its task alone and
\* takes it out of BM25 only if it is purged.
LEMMA StaysSynced ==
    ASSUME NEW e \in Docs, SyncedOK(e),
           task'[e] = task[e],
           \/ status'[e] = status[e] /\ chunks'[e] = chunks[e]
           \/ status'[e] = "failed",
           purge'[e] = "never" => purge[e] = "never",
           purge'[e] = "never" /\ bm25[e] > 0 => bm25'[e] > 0
    PROVE  SyncedOK(e)'
BY DEF SyncedOK

\* A task that goes through its sync puts what it parsed into BM25.
LEMMA OwnSync ==
    ASSUME OneLife, TypeOK, TaskOK, NEW d \in Docs, TaskStep(d), SyncedOK(d)
    PROVE  SyncedOK(d)'
<1>t. task \in [Docs -> TaskRecord] /\ task[d] \in TaskRecord
    BY DEF TypeOK
<1>s. /\ status \in [Docs -> {"unused", "processing", "indexed", "failed", "deleted"}]
      /\ chunks \in [Docs -> Nat]
      /\ bm25 \in [Docs -> Nat]
    BY DEF TypeOK
<1>r. Running(d) /\ UNCHANGED purge /\ status[d] \in {"processing", "failed", "deleted"}
    BY TaskFrame DEF TaskOK
<1>1. CASE TaskFails(d)
    <2>1. task'[d].pc = "ended" /\ task'[d].inserted = 0
        BY <1>1, <1>t DEF TaskFails, NoTask
    <2>2. status'[d] = "failed" \/ (status'[d] = "deleted" /\ status[d] = "deleted")
        BY <1>1, <1>s, <1>r DEF TaskFails, UpdateStatus, HasRow
    <2> QED
        BY <1>r, <2>1, <2>2 DEF SyncedOK
<1>2. CASE TaskParse(d) /\ ~TaskFails(d)
    <2>1. PICK n \in 0..MaxBatches :
            task' = [task EXCEPT ![d].total = n,
                                 ![d].pc = IF n = 0 THEN "bm25" ELSE "milvus"]
        BY <1>2 DEF TaskParse
    <2>2. /\ task'[d].pc = "bm25" \/ (task'[d].pc = "milvus" /\ task'[d].total > 0)
          /\ task'[d].inserted = task[d].inserted
        BY <2>1, <1>t, IngestionAssumption DEF TaskRecord, IngestionAssumption
    <2>3. UNCHANGED status /\ task[d].inserted = 0
        BY <1>2 DEF TaskParse, SyncedOK, registry
    <2> QED
        BY <1>r, <2>2, <2>3 DEF SyncedOK
<1>3. CASE TaskMilvusBatch(d)
    <2>1. /\ task'[d].pc \in {"bm25", "milvus"} /\ task'[d].total = task[d].total
          /\ task[d].pc = "milvus"
        BY <1>3, <1>t DEF TaskMilvusBatch, TaskRecord
    <2>2. UNCHANGED status
        BY <1>3 DEF TaskMilvusBatch, registry
    <2> QED
        BY <1>r, <2>1, <2>2 DEF SyncedOK
<1>4. CASE TaskBm25(d)
    <2>1. /\ bm25' = [bm25 EXCEPT ![d] = IF task[d].total > 0 THEN @ + 1 ELSE @]
          /\ task' = [task EXCEPT ![d].pc = "bump"]
          /\ UNCHANGED status
        BY <1>4 DEF TaskBm25, OneLife, registry
    <2>2. task'[d].pc = "bump" /\ task'[d].total = task[d].total
            /\ task'[d].inserted = task[d].inserted
        BY <2>1, <1>t DEF TaskRecord
    <2>3. task[d].total > 0 => bm25'[d] > 0
        BY <2>1, <1>s
    <2> QED
        BY <1>r, <2>1, <2>2, <2>3 DEF SyncedOK
<1>5. CASE TaskBump(d) \/ TaskLeg(d) \/ TaskLegBump(d)
    <2>1. /\ task[d].pc \in {"bump", "leg", "legBump"} /\ task'[d].pc \in {"leg", "legBump"}
          /\ task'[d].total = task[d].total /\ task'[d].inserted = task[d].inserted
        BY <1>5, <1>t DEF TaskBump, TaskLeg, TaskLegBump, TaskRecord
    <2>2. UNCHANGED <<status, bm25>>
        BY <1>5 DEF TaskBump, TaskLeg, TaskLegBump, registry, stores
    <2> QED
        BY <1>r, <2>1, <2>2 DEF SyncedOK
<1>6. CASE TaskFinish(d)
    <2>1. task'[d].pc = "ended" /\ task'[d].inserted = 0 /\ task[d].pc = "leg"
        BY <1>6, <1>t DEF TaskFinish, NoTask
    <2>2. UNCHANGED bm25
        BY <1>6 DEF TaskFinish, stores
    <2>3. \/ status'[d] = "indexed" /\ chunks'[d] = task[d].inserted
          \/ status'[d] = "deleted" /\ status[d] = "deleted"
        BY <1>6, <1>s, <1>r DEF TaskFinish, UpdateStatus, HasRow
    <2> QED
        BY <1>r, <2>1, <2>2, <2>3 DEF SyncedOK
<1> QED
    BY <1>1, <1>2, <1>3, <1>4, <1>5, <1>6 DEF TaskStep, TaskParse, TaskMilvusRaises

\* What a delete takes out of BM25 by name is, as far as documents with a row
\* are concerned, its own document.
LEMMA DeletesOwnName ==
    ASSUME HandlerOK, NamesOK, DeleteBm25, NEW e \in Docs, HasRow(e), e # loop.doc
    PROVE  bm25'[e] = bm25[e] \/ bm25' = bm25
<1>1. loop.doc \in Docs /\ HasRow(loop.doc)
    BY DEF DeleteBm25, HandlerOK, DeletePcs
<1>2. e \notin SameSource(loop.doc)
    BY <1>1 DEF SameSource, NamesOK
<1> QED
    BY <1>2 DEF DeleteBm25

\* Every step keeps names, tasks and BM25 together.
LEMMA SearchStep ==
    ASSUME OneLife, TypeOK, HandlerOK, TaskOK, SearchInv, [Next]_vars
    PROVE  SearchInv'
<1>s. /\ status \in [Docs -> {"unused", "processing", "indexed", "failed", "deleted"}]
      /\ chunks \in [Docs -> Nat]
      /\ bm25 \in [Docs -> Nat]
      /\ task \in [Docs -> TaskRecord]
      /\ purge \in [Docs -> {"never", "during", "after", "faulted"}]
      /\ loop \in LoopRecord /\ crashes \in 0..MaxCrashes
    BY DEF TypeOK
<1>o. \A e \in Docs : SyncedOK(e)
    BY DEF SearchInv
<1>n. NamesOK'
    BY NamesStep DEF SearchInv
<1>k. ASSUME \A e \in Docs : SyncedOK(e)',
             \/ loop'.at \notin DeletePcs
             \/ UNCHANGED <<loop, purge>>
      PROVE  SearchInv'
    BY <1>k, <1>n DEF SearchInv
<1>u. ASSUME NEW e \in Docs, UNCHANGED <<bm25, purge>>,
             status'[e] = status[e], task'[e] = task[e], chunks'[e] = chunks[e]
      PROVE  SyncedOK(e)'
    BY <1>o, <1>u, StaysSynced
<1>1. ASSUME NEW d \in Docs, TaskStep(d) PROVE SearchInv'
    <2>1. UNCHANGED <<loop, purge>>
        BY <1>1, TaskFrame
    <2>2. ASSUME NEW e \in Docs \ {d} PROVE SyncedOK(e)'
        <3>1. chunks'[e] = chunks[e]
            BY <1>1, <1>s DEF TaskStep, TaskParse, TaskMilvusRaises, TaskMilvusBatch, TaskBm25,
                   TaskBump, TaskLeg, TaskLegBump, TaskFinish, TaskFails, UpdateStatus, registry
        <3>2. status'[e] = status[e] /\ task'[e] = task[e] /\ bm25'[e] = bm25[e]
            BY <1>1, TaskFrame
        <3> QED
            BY <1>o, <2>1, <3>1, <3>2, StaysSynced
    <2>3. SyncedOK(d)'
        BY <1>1, <1>o, OwnSync
    <2> QED
        BY <1>k, <2>1, <2>2, <2>3
<1>2. CASE Recovery
    <2>1. ASSUME NEW e \in Docs PROVE SyncedOK(e)'
        BY <1>o, <1>2, RecoveryFrame, StaysSynced DEF stores, HasRow
    <2> QED
        BY <1>k, <1>2, <2>1, RecoveryFrame
<1>3. CASE UploadQueryMilvus \/ UploadAbort
    <2>1. loop'.at \notin DeletePcs
        <3>1. CASE UploadQueryMilvus
            BY <3>1, <1>s DEF UploadQueryMilvus, LoopRecord, DeletePcs
        <3>2. CASE UploadAbort
            BY <3>2 DEF UploadAbort, Idle, DeletePcs
        <3> QED
            BY <1>3, <3>1, <3>2
    <2>2. UNCHANGED <<registry, stores, task, purge>>
        BY <1>3 DEF UploadQueryMilvus, UploadAbort
    <2> QED
        BY <1>k, <1>u, <2>1, <2>2 DEF registry, stores
<1>4. CASE UploadRegister
    <2>1. PICK d \in Docs : d = loop.doc /\ status[d] = "unused"
        BY <1>4 DEF UploadRegister, HandlerOK, UploadPcs
    <2>2. UNCHANGED <<chunks, stores, purge>> /\ loop'.at \notin DeletePcs
        BY <1>4 DEF UploadRegister, Idle, DeletePcs
    <2>3. \A e \in Docs \ {d} : status'[e] = status[e] /\ task'[e] = task[e]
        BY <1>4, <2>1, <1>s DEF UploadRegister
    <2>4. /\ status'[d] = "processing"
          /\ task'[d].pc = "parse" /\ task'[d].inserted = 0
        BY <1>4, <2>1, <1>s DEF UploadRegister, NoTask
    <2>5. SyncedOK(d)'
        BY <2>4 DEF SyncedOK
    <2>6. ASSUME NEW e \in Docs \ {d} PROVE SyncedOK(e)'
        BY <1>u, <2>2, <2>3 DEF stores
    <2> QED
        BY <1>k, <2>2, <2>5, <2>6
<1>5. ASSUME NEW d \in Docs, DeleteBegin(d) PROVE SearchInv'
    <2>1. UNCHANGED <<registry, stores, task>> /\ loop'.doc = d
        BY <1>5 DEF DeleteBegin, Idle
    <2>2. \A e \in Docs : purge'[e] = "never" => purge[e] = "never"
        BY <1>5, <1>s DEF DeleteBegin
    <2>3. purge'[d] # "never"
        BY <1>5, <1>s DEF DeleteBegin
    <2>4. ASSUME NEW e \in Docs PROVE SyncedOK(e)'
        BY <1>o, <2>1, <2>2, StaysSynced DEF registry, stores
    <2> QED
        BY <1>n, <2>1, <2>3, <2>4 DEF SearchInv
<1>6. CASE DeleteInner
    <2>1. /\ UNCHANGED <<status, task>>
          /\ loop.at \in DeletePcs /\ loop'.doc = loop.doc
          /\ \A e \in Docs : purge'[e] \in {purge[e], "faulted"}
        BY <1>6, DeleteFrame
    <2>2. UNCHANGED chunks
        BY <1>6 DEF DeleteInner, DeleteMilvus, DeleteBm25, DeleteBump, DeleteLeg, DeleteLegBump,
               registry
    <2>3. loop.doc \in Docs /\ purge[loop.doc] # "never" /\ purge'[loop.doc] # "never"
        BY <2>1 DEF SearchInv, HandlerOK
    <2>4. ASSUME NEW e \in Docs PROVE SyncedOK(e)'
        <3>1. ASSUME purge'[e] = "never", HasRow(e) PROVE bm25'[e] = bm25[e]
            <4>1. e # loop.doc
                BY <2>3, <3>1
            <4>2. CASE DeleteBm25
                BY <3>1, <4>1, <4>2, DeletesOwnName DEF SearchInv
            <4>3. CASE ~DeleteBm25
                BY <1>6, <4>3 DEF DeleteInner, DeleteMilvus, DeleteBump, DeleteLeg, DeleteLegBump,
                       stores
            <4> QED
                BY <4>2, <4>3
        <3>2. purge'[e] = "never" => purge[e] = "never"
            BY <2>1
        <3>3. ASSUME purge'[e] = "never", ~HasRow(e) PROVE SyncedOK(e)'
            <4>1. status[e] = "unused" /\ task[e].pc = "idle"
                BY <1>o, <1>s, <3>2, <3>3 DEF HasRow, SyncedOK
            <4> QED
                BY <1>o, <2>1, <4>1 DEF SyncedOK
        <3>4. ASSUME purge'[e] # "never" \/ HasRow(e) PROVE SyncedOK(e)'
            BY <1>o, <2>1, <2>2, <3>1, <3>2, <3>4, StaysSynced
        <3> QED
            BY <3>3, <3>4
    <2> QED
        BY <1>n, <2>1, <2>3, <2>4 DEF SearchInv
<1>7. CASE DeleteRow
    <2>1. PICK d \in Docs : d = loop.doc /\ purge[d] # "never"
        BY <1>7 DEF DeleteRow, HandlerOK, DeletePcs, SearchInv
    <2>2. UNCHANGED <<chunks, stores, task, purge>> /\ loop'.at \notin DeletePcs
        BY <1>7 DEF DeleteRow, Idle, DeletePcs
    <2>3. status'[d] = "deleted" /\ \A e \in Docs \ {d} : status'[e] = status[e]
        BY <1>7, <2>1, <1>s DEF DeleteRow
    <2>4. SyncedOK(d)'
        BY <1>o, <2>1, <2>2, <2>3 DEF SyncedOK
    <2>5. ASSUME NEW e \in Docs \ {d} PROVE SyncedOK(e)'
        BY <1>u, <2>2, <2>3 DEF stores
    <2> QED
        BY <1>k, <2>2, <2>4, <2>5
<1>8. ASSUME NEW d \in Docs, Age(d) PROVE SearchInv'
    <2>1. UNCHANGED <<status, chunks, stores, task, loop, purge>>
        BY <1>8 DEF Age
    <2> QED
        BY <1>k, <1>u, <2>1 DEF stores
<1>9. ~Restart
    BY <1>s DEF Restart, OneLife
<1>10. CASE UNCHANGED vars
    BY <1>10, <1>k, <1>u DEF vars
<1> QED
    BY <1>1, <1>2, <1>3, <1>4, <1>5, <1>6, <1>7, <1>8, <1>9, <1>10
    DEF Next, Upload, Delete, DeleteInner, Recovery

\* Within one life of the process, an indexed document with chunks that nobody
\* asked to delete is in BM25 (_process_document, delete_document), whatever
\* other documents came, went, failed or were flipped to failed meanwhile.
THEOREM IndexedIsFindable == OneLife => (Spec => []IndexedIsSearchable)
<1> SUFFICES ASSUME OneLife PROVE Spec => []IndexedIsSearchable
    OBVIOUS
<1>1. IngestionInv /\ SearchInv /\ [Next]_vars => SearchInv'
    BY SearchStep DEF IngestionInv
<1>2. SearchInv => IndexedIsSearchable
    BY DEF SearchInv, SyncedOK, IndexedIsSearchable
<1> QED
    BY SearchInit, <1>1, <1>2, Invariance, PTL DEF Spec

-----------------------------------------------------------------------------
(***************************************************************************)
(* The read path.                                                          *)
(***************************************************************************)

NativeOnly == NativeSparse /\ "sparse" \notin ReadFaults

\* Readers never enter the BM25 leg.
ReadersInv ==
    /\ version \in Nat
    /\ reader \in [Readers -> ReaderRecord]
    /\ \A r \in Readers : reader[r].sparse \in {"idle", "run", "done"}

\* A reader's step with the native leg, seen from the outside: the write path,
\* the version and every other reader are left alone; what the reader has found
\* grows by documents Milvus holds now, or it starts afresh with the current
\* key; only a result under the current key reaches the cache.
LEMMA ReaderFrame ==
    ASSUME NativeOnly, ReadersInv, NEW r \in Readers, ReaderStep(r)
    PROVE  /\ UNCHANGED <<vars, version, clearing>>
           /\ ReadersInv'
           /\ \A q \in Readers \ {r} : reader'[q] = reader[q]
           /\ \/ reader'[r].key = reader[r].key /\ Found(r)' \subseteq Found(r) \union InMilvus
              \/ reader'[r].key \in {0, version} /\ Found(r)' = {}
           /\ cache' = cache \/ (cache' = Found(r) /\ reader[r].key = version)
<1>t. reader \in [Readers -> ReaderRecord] /\ version \in Nat
    BY DEF ReadersInv
<1>n. NoReader \in ReaderRecord /\ NoReader.sparse = "idle"
    BY DEF NoReader, ReaderRecord, LegPcs
<1>m. InMilvus \subseteq Docs
    BY DEF InMilvus
<1>k. ASSUME NEW rec \in ReaderRecord, reader' = [reader EXCEPT ![r] = rec],
             rec.sparse \in {"idle", "run", "done"}, UNCHANGED version
      PROVE  /\ ReadersInv'
             /\ \A q \in Readers \ {r} : reader'[q] = reader[q]
             /\ reader'[r].key = rec.key
             /\ Found(r)' = rec.fromDense \union rec.fromSparse
    <2>1. reader'[r] = rec /\ \A q \in Readers \ {r} : reader'[q] = reader[q]
        BY <1>k, <1>t
    <2>2. reader' \in [Readers -> ReaderRecord]
        BY <1>k, <1>t
    <2>3. ReadersInv'
        BY <1>k, <1>t, <2>1, <2>2 DEF ReadersInv
    <2> QED
        BY <2>1, <2>3 DEF Found
<1>1. CASE StartQuery(r)
    <2> DEFINE rec == [NoReader EXCEPT !.key = version, !.dense = "run", !.sparse = "run"]
    <2>1. rec \in ReaderRecord /\ rec.sparse = "run" /\ rec.key = version
            /\ rec.fromDense = {} /\ rec.fromSparse = {}
        BY <1>t DEF NoReader, ReaderRecord, LegPcs
    <2>2. /\ reader' = [reader EXCEPT ![r] = rec]
          /\ UNCHANGED <<vars, version, clearing, cache>>
        BY <1>1 DEF StartQuery
    <2> HIDE DEF rec
    <2> QED
        BY <1>k, <2>1, <2>2 DEF Found, LegPcs
<1>2. CASE DenseLeg(r)
    <2>1. PICK found \in {InMilvus, {}} :
            reader' = [reader EXCEPT ![r].dense = "done", ![r].fromDense = found]
        BY <1>2 DEF DenseLeg
    <2> DEFINE rec == [reader[r] EXCEPT !.dense = "done", !.fromDense = found]
    <2>2. /\ rec \in ReaderRecord /\ rec.sparse = reader[r].sparse
          /\ rec.key = reader[r].key
          /\ rec.fromDense = found /\ rec.fromSparse = reader[r].fromSparse
        BY <1>t, <1>m DEF ReaderRecord, LegPcs
    <2>3. reader' = [reader EXCEPT ![r] = rec]
        BY <2>1
    <2>4. UNCHANGED <<vars, version, clearing, cache>>
        BY <1>2 DEF DenseLeg
    <2>5. reader[r].sparse \in {"idle", "run", "done"}
        BY DEF ReadersInv
    <2> HIDE DEF rec
    <2>6. /\ ReadersInv'
          /\ \A q \in Readers \ {r} : reader'[q] = reader[q]
          /\ reader'[r].key = reader[r].key
          /\ Found(r)' = found \union reader[r].fromSparse
        BY <1>k, <2>2, <2>3, <2>4, <2>5
    <2> QED
        BY <2>1, <2>4, <2>6 DEF Found
<1>3. CASE NativeLeg(r)
    <2> DEFINE rec == [reader[r] EXCEPT !.sparse = "done", !.fromSparse = InMilvus]
    <2>1. /\ rec \in ReaderRecord /\ rec.sparse = "done"
          /\ rec.key = reader[r].key
          /\ rec.fromSparse = InMilvus /\ rec.fromDense = reader[r].fromDense
        BY <1>t, <1>m DEF ReaderRecord, LegPcs
    <2>2. /\ reader' = [reader EXCEPT ![r] = rec]
          /\ UNCHANGED <<vars, version, clearing, cache>>
        BY <1>3 DEF NativeLeg, NativeOnly
    <2> HIDE DEF rec
    <2> QED
        BY <1>k, <2>1, <2>2 DEF Found, LegPcs
<1>4. CASE StoreResult(r) \/ DropResult(r)
    <2>1. /\ reader' = [reader EXCEPT ![r] = NoReader]
          /\ UNCHANGED <<vars, version, clearing>>
        BY <1>4 DEF StoreResult, DropResult
    <2>3. cache' = cache \/ (cache' = Found(r) /\ reader[r].key = version)
        <3>1. CASE StoreResult(r)
            BY <3>1 DEF StoreResult
        <3>2. CASE DropResult(r)
            BY <3>2 DEF DropResult
        <3> QED
            BY <1>4, <3>1, <3>2
    <2>2. NoReader.key = 0 /\ NoReader.fromDense = {} /\ NoReader.fromSparse = {}
        BY DEF NoReader
    <2> QED
        BY <1>k, <1>n, <2>1, <2>2, <2>3
<1>5. ~(LegacyLeg(r) \/ CheckHydrated(r) \/ HydrateQuery(r) \/ HydrateAdd(r) \/ ScoreBm25(r))
    BY DEF ReadersInv, NativeOnly, LegacyLeg, CheckHydrated, HydrateQuery, HydrateAdd, ScoreBm25
<1> QED
    BY <1>1, <1>2, <1>3, <1>4, <1>5 DEF ReaderStep

\* No other step touches a reader, except a restart, which resets them all.
LEMMA ReadersStep ==
    ASSUME NativeOnly, ReadersInv, [PathNext]_allVars
    PROVE  ReadersInv'
<1>1. ASSUME NEW r \in Readers, ReaderStep(r) PROVE ReadersInv'
    BY <1>1, ReaderFrame
<1>2. CASE PathRestart
    BY <1>2 DEF PathRestart, ReadersInv, NoReader, ReaderRecord, LegPcs
<1>3. ASSUME NEW thread, BumpVersion(thread) \/ ClearCache(thread) PROVE ReadersInv'
    BY <1>3 DEF BumpVersion, ClearCache, ReadersInv
<1>4. CASE QuietWrite \/ UNCHANGED allVars
    BY <1>4 DEF QuietWrite, allVars, pathVars, ReadersInv
<1> QED
    BY <1>1, <1>2, <1>3, <1>4 DEF PathNext, LoopBump, TaskBumps

\* A writer step is a step of DocumentIngestion; every other step leaves its
\* variables alone.
LEMMA WriterStep ==
    ASSUME NativeOnly, ReadersInv, [PathNext]_allVars
    PROVE  [Next]_vars
<1>1. ASSUME NEW r \in Readers, ReaderStep(r) PROVE UNCHANGED vars
    BY <1>1, ReaderFrame
<1>2. CASE QuietWrite
    BY <1>2 DEF QuietWrite, LoopStep, QuietTaskStep, Next, Upload, Delete, TaskStep
<1>3. CASE LoopBump
    BY <1>3 DEF LoopBump, Next, Delete
<1>4. ASSUME NEW d \in Docs, TaskBumps(d) PROVE Next
    BY <1>4 DEF TaskBumps, Next, TaskStep
<1>5. ASSUME NEW thread, ClearCache(thread) PROVE UNCHANGED vars
    BY <1>5 DEF ClearCache
<1>6. CASE PathRestart
    BY <1>6 DEF PathRestart, Next
<1>7. CASE UNCHANGED allVars
    BY <1>7 DEF allVars
<1> QED
    BY <1>1, <1>2, <1>3, <1>4, <1>5, <1>6, <1>7 DEF PathNext

LEMMA ReadersInit == PathInit => ReadersInv
BY DEF PathInit, ReadersInv, NoReader, ReaderRecord, LegPcs

-----------------------------------------------------------------------------
\* With native sparse search readers cannot be told from stuttering: whatever
\* DocumentIngestion promises alone it promises with any number of readers.
THEOREM NativeReadersAreInvisible == NativeOnly => (PathSpec => WritePath)
<1> SUFFICES ASSUME NativeOnly PROVE PathSpec => WritePath
    OBVIOUS
<1>1. PathInit => Init
    BY DEF PathInit
<1>2. ReadersInv /\ [PathNext]_allVars => ReadersInv' /\ [Next]_vars
    BY ReadersStep, WriterStep
<1> QED
    BY <1>1, <1>2, ReadersInit, PTL DEF PathSpec, WritePath, Spec

-----------------------------------------------------------------------------
\* What the purge of d has to have done by the time its bump is over.
Purged(d) ==
    /\ purge[d] = "after"
    /\ \/ status[d] = "deleted"
       \/ loop.doc = d /\ loop.at \in {"delLeg", "delLegBump"}

\* A purged document is no longer in Milvus.
LEMMA PurgedIsNotStored ==
    ASSUME IngestionInv, NEW d \in Docs, Purged(d)
    PROVE  d \notin InMilvus
BY DEF IngestionInv, PurgeOK, Purged, Nowhere, InMilvus, DeletePcs

\* A step that does not bump does not complete a purge.
LEMMA QuietPurge ==
    ASSUME IngestionInv, QuietWrite, NEW d \in Docs, Purged(d)'
    PROVE  Purged(d)
<1>l. loop \in LoopRecord
    BY DEF IngestionInv, TypeOK
<1>s. /\ status \in [Docs -> {"unused", "processing", "indexed", "failed", "deleted"}]
      /\ purge \in [Docs -> {"never", "during", "after", "faulted"}]
      /\ TypeOK /\ TaskOK /\ HandlerOK
    BY DEF IngestionInv, TypeOK
<1>1. ASSUME NEW e \in Docs, QuietTaskStep(e) PROVE Purged(d)
    <2>1. TaskStep(e)
        BY <1>1 DEF QuietTaskStep, TaskStep
    <2>2. UNCHANGED <<loop, purge>> /\ (status'[d] = "deleted" => status[d] = "deleted")
        BY <2>1, <1>s, TaskFrame
    <2> QED
        BY <2>2 DEF Purged
<1>2. CASE Recovery
    <2>1. status'[d] = "deleted" => status[d] = "deleted"
        BY <1>2, <1>s, RecoveryFrame
    <2>2. loop'.at \notin {"delLeg", "delLegBump"} /\ UNCHANGED purge
        BY <1>2, <1>s, RecoveryFrame
    <2> QED
        BY <2>1, <2>2 DEF Purged
<1>3. CASE UploadQueryMilvus
    <2>1. loop'.at \in {"register", "conflict"}
        BY <1>3, <1>l DEF UploadQueryMilvus, LoopRecord
    <2> QED
        BY <1>3, <2>1 DEF UploadQueryMilvus, Purged, registry
<1>4. CASE UploadRegister \/ UploadAbort
    BY <1>4, <1>s DEF UploadRegister, UploadAbort, Purged, Idle, registry
<1>5. ASSUME NEW e \in Docs, DeleteBegin(e) PROVE Purged(d)
    BY <1>5, <1>s DEF DeleteBegin, Purged, Idle, registry, HasRow
<1>6. CASE DeleteMilvus
    <2>1. loop'.at = "delBm25"
        BY <1>6, <1>l DEF DeleteMilvus, LoopRecord
    <2>2. purge'[d] = "after" => purge[d] = "after"
        BY <1>6, <1>s DEF DeleteMilvus, Faulted
    <2> QED
        BY <1>6, <2>1, <2>2 DEF DeleteMilvus, Purged, registry
<1>7. CASE DeleteBm25
    <2>1. \/ loop'.at = "delBump" /\ UNCHANGED purge
          \/ loop'.doc = loop.doc /\ purge' = [purge EXCEPT ![loop.doc] = "faulted"]
        BY <1>7, <1>l DEF DeleteBm25, LoopRecord, Faulted
    <2> QED
        BY <1>7, <2>1, <1>s DEF DeleteBm25, Purged, registry
<1>8. CASE DeleteLeg
    <2>1. /\ loop.at = "delLeg"
          /\ loop'.doc = loop.doc
        BY <1>8, <1>l DEF DeleteLeg, LoopRecord
    <2>2. purge'[d] = "after" => purge[d] = "after"
        BY <1>8, <1>s DEF DeleteLeg, Faulted
    <2> QED
        BY <1>8, <2>1, <2>2 DEF DeleteLeg, Purged, registry
<1>9. CASE DeleteRow
    BY <1>9, <1>s DEF DeleteRow, Purged, Idle
<1>10. ASSUME NEW e \in Docs, Age(e) PROVE Purged(d)
    BY <1>10 DEF Age, Purged
<1> QED
    BY <1>1, <1>2, <1>3, <1>4, <1>5, <1>6, <1>7, <1>8, <1>9, <1>10
    DEF QuietWrite, LoopStep, Upload, Recovery

\* FreshInv is inductive: a bump leaves every earlier read under an old key.
LEMMA FreshStep ==
    ASSUME NativeOnly, ReadersInv, IngestionInv, FreshInv, [PathNext]_allVars
    PROVE  FreshInv'
<1>f. FreshInv <=> /\ \A r \in Readers : reader[r].key <= version
                   /\ \A d \in Docs : Purged(d) =>
                        /\ d \notin ServedNow
                        /\ \A r \in Readers : reader[r].key = version => d \notin Found(r)
    BY DEF FreshInv, Purged
<1>g. FreshInv' <=> /\ \A r \in Readers : reader'[r].key <= version'
                    /\ \A d \in Docs : Purged(d)' =>
                         /\ d \notin ServedNow'
                         /\ \A r \in Readers : reader'[r].key = version' => d \notin Found(r)'
    BY DEF FreshInv, Purged
<1>t. reader \in [Readers -> ReaderRecord] /\ version \in Nat
    BY DEF ReadersInv
<1>1. ASSUME NEW r \in Readers, ReaderStep(r) PROVE FreshInv'
    <2>1. UNCHANGED <<status, purge, loop, milvus, version>>
        BY <1>1, ReaderFrame DEF vars
    <2>2. /\ \A q \in Readers \ {r} : reader'[q] = reader[q] /\ Found(q)' = Found(q)
          /\ \/ reader'[r].key = reader[r].key /\ Found(r)' \subseteq Found(r) \union InMilvus
             \/ reader'[r].key \in {0, version} /\ Found(r)' = {}
          /\ cache' = cache \/ (cache' = Found(r) /\ reader[r].key = version)
        BY <1>1, ReaderFrame DEF Found
    <2>3. \A q \in Readers : reader'[q].key <= version'
        BY <1>f, <1>t, <2>1, <2>2
    <2>4. ASSUME NEW d \in Docs, Purged(d)'
          PROVE  /\ d \notin ServedNow'
                 /\ \A q \in Readers : reader'[q].key = version' => d \notin Found(q)'
        <3>1. Purged(d)
            BY <2>1, <2>4 DEF Purged
        <3>2. d \notin InMilvus
            BY <3>1, PurgedIsNotStored
        <3>3. d \notin ServedNow'
            BY <1>f, <3>1, <2>2 DEF ServedNow
        <3>4. \A q \in Readers : reader'[q].key = version' => d \notin Found(q)'
            BY <1>f, <3>1, <3>2, <2>1, <2>2
        <3> QED
            BY <3>3, <3>4
    <2> QED
        BY <1>g, <2>3, <2>4
<1>2. CASE QuietWrite
    <2>1. UNCHANGED <<version, cache, reader>>
        BY <1>2 DEF QuietWrite, pathVars
    <2>2. \A d \in Docs : Purged(d)' => Purged(d)
        BY <1>2, QuietPurge
    <2> QED
        BY <1>f, <1>g, <2>1, <2>2 DEF ServedNow, Found
<1>3. ASSUME NEW thread, BumpVersion(thread) PROVE FreshInv'
    <2>1. version' = version + 1 /\ cache' = None /\ UNCHANGED reader
        BY <1>3 DEF BumpVersion
    <2>2. \A r \in Readers : reader'[r].key \in Nat /\ reader'[r].key <= version
        BY <2>1, <1>f, <1>t DEF ReaderRecord
    <2> QED
        BY <1>g, <1>t, <2>1, <2>2 DEF ServedNow
<1>4. ASSUME NEW thread, ClearCache(thread) PROVE FreshInv'
    <2>1. cache' = None /\ UNCHANGED <<reader, version, status, purge, loop>>
        BY <1>4 DEF ClearCache, vars
    <2> QED
        BY <1>f, <1>g, <2>1 DEF ServedNow, Found, Purged
<1>5. CASE PathRestart
    <2>1. cache' = None /\ version' = 0 /\ reader' = [r \in Readers |-> NoReader]
        BY <1>5 DEF PathRestart
    <2>2. \A r \in Readers : reader'[r].key = 0 /\ Found(r)' = {}
        BY <2>1 DEF NoReader, Found
    <2> QED
        BY <1>g, <2>1, <2>2 DEF ServedNow
<1>6. CASE UNCHANGED allVars
    <2>1. UNCHANGED <<cache, reader, version, status, purge, loop>>
        BY <1>6 DEF allVars, vars, pathVars
    <2> QED
        BY <1>f, <1>g, <2>1 DEF ServedNow, Found, Purged
<1> QED
    BY <1>1, <1>2, <1>3, <1>4, <1>5, <1>6 DEF PathNext, LoopBump, TaskBumps

\* With native sparse search, once a delete that met no running task and no
\* raising store has returned, the document is in no answer the cache serves,
\* whatever readers were under way before, meanwhile or after.
THEOREM NoStaleAnswers == NativeOnly => (PathSpec => []NoStaleHit)
<1> SUFFICES ASSUME NativeOnly PROVE PathSpec => []NoStaleHit
    OBVIOUS
<1>1. PathInit => FreshInv
    BY DEF PathInit, Init, FreshInv, NoReader
<1>2. PathSpec => []IngestionInv
    BY NativeReadersAreInvisible, Invariance DEF WritePath
<1>3. ReadersInv /\ IngestionInv /\ FreshInv /\ [PathNext]_allVars => FreshInv'
    BY FreshStep
<1>4. ReadersInv /\ [PathNext]_allVars => ReadersInv'
    BY ReadersStep
<1>5. FreshInv => NoStaleHit
    BY DEF FreshInv, NoStaleHit
<1> QED
    BY <1>1, <1>2, <1>3, <1>4, <1>5, ReadersInit, PTL DEF PathSpec

\* And what it deleted stays deleted, with readers too.
THEOREM NativeDeletesAreFinal == NativeOnly => (PathSpec => []DeletedIsGone)
BY NativeReadersAreInvisible, DeletesAreFinal DEF WritePath

-----------------------------------------------------------------------------
(***************************************************************************)
(* Additions.  A document counts as served from the bump of its own task   *)
(* on: whoever reads under the version of that bump, or a later one, began *)
(* after the document was written.                                         *)
(***************************************************************************)
Announced(d) ==
    /\ purge[d] = "never"
    /\ \/ task[d].pc \in {"leg", "legBump"} /\ task[d].inserted > 0
       \/ status[d] = "indexed" /\ chunks[d] > 0

\* The strengthening of IndexedIsServed: what is cached under the current
\* version, or read by the sparse leg on its way there, holds what is announced.
ServedInv ==
    /\ version \in Nat
    /\ reader \in [Readers -> ReaderRecord]
    /\ \A r \in Readers : reader[r].key <= version
    /\ \A d \in Docs : Announced(d) =>
         /\ cache # None => d \in cache
         /\ \A r \in Readers :
              reader[r].key = version /\ reader[r].sparse = "done" => d \in reader[r].fromSparse

\* Where the sparse leg looks, it finds what is announced.
Findable == \A d \in Docs : Announced(d) => d \in (IF NativeSparse THEN InMilvus ELSE InBm25)

LEMMA ServedInit == PathInit => ServedInv
BY DEF PathInit, Init, ServedInv, Announced, NoReader, ReaderRecord, LegPcs, NoTask

\* A step of the write path that does not bump announces nothing.
LEMMA QuietAnnounces ==
    ASSUME TypeOK, HandlerOK, "bm25Add" \notin Faults, QuietWrite, NEW d \in Docs, Announced(d)'
    PROVE  Announced(d)
<1>s. /\ status \in [Docs -> {"unused", "processing", "indexed", "failed", "deleted"}]
      /\ chunks \in [Docs -> Nat]
      /\ task \in [Docs -> TaskRecord]
      /\ purge \in [Docs -> {"never", "during", "after", "faulted"}]
    BY DEF TypeOK
<1>k. ASSUME task'[d] = task[d], purge'[d] = "never" => purge[d] = "never",
             status'[d] = "indexed" => status[d] = "indexed" /\ chunks'[d] = chunks[d]
      PROVE  Announced(d)
    BY <1>k DEF Announced
<1>1. ASSUME QuietTaskStep(d) PROVE Announced(d)
    <2>1. UNCHANGED purge
        BY <1>1, TaskFrame DEF QuietTaskStep, TaskStep
    <2>2. CASE TaskFails(d)
        <3>1. task'[d].pc = "ended"
            BY <2>2, <1>s DEF TaskFails, NoTask
        <3>2. status'[d] # "indexed"
            BY <2>2, <1>s DEF TaskFails, UpdateStatus, HasRow
        <3> QED
            BY <3>1, <3>2 DEF Announced
    <2>3. CASE TaskParse(d) /\ ~TaskFails(d)
        <3>1. PICK n \in 0..MaxBatches :
                task' = [task EXCEPT ![d].total = n,
                                     ![d].pc = IF n = 0 THEN "bm25" ELSE "milvus"]
            BY <2>3 DEF TaskParse
        <3>2. task'[d].pc \in {"bm25", "milvus"}
            BY <3>1, <1>s DEF TaskRecord
        <3>3. UNCHANGED <<status, chunks>>
            BY <2>3 DEF TaskParse, registry
        <3> QED
            BY <2>1, <3>2, <3>3 DEF Announced
    <2>4. CASE TaskMilvusBatch(d)
        <3>1. task'[d].pc \in {"bm25", "milvus"} /\ UNCHANGED <<status, chunks>>
            BY <2>4, <1>s DEF TaskMilvusBatch, TaskRecord, registry
        <3> QED
            BY <2>1, <3>1 DEF Announced
    <2>5. CASE TaskBm25(d)
        <3>1. task'[d].pc = "bump" /\ UNCHANGED <<status, chunks>>
            BY <2>5, <1>s DEF TaskBm25, TaskRecord, registry
        <3> QED
            BY <2>1, <3>1 DEF Announced
    <2>6. CASE TaskLeg(d)
        <3>1. task[d].pc = "leg" /\ task'[d].inserted = task[d].inserted /\ UNCHANGED <<status, chunks>>
            BY <2>6, <1>s DEF TaskLeg, TaskRecord, registry
        <3> QED
            BY <2>1, <3>1 DEF Announced
    <2>7. CASE TaskFinish(d)
        <3>1. task[d].pc = "leg" /\ task'[d].pc = "ended"
            BY <2>7, <1>s DEF TaskFinish, NoTask
        <3>2. status'[d] = "indexed" => chunks'[d] = task[d].inserted
            BY <2>7, <1>s DEF TaskFinish, UpdateStatus, HasRow
        <3> QED
            BY <2>1, <3>1, <3>2 DEF Announced
    <2> QED
        BY <1>1, <2>2, <2>3, <2>4, <2>5, <2>6, <2>7 DEF QuietTaskStep, TaskParse, TaskMilvusRaises
<1>2. ASSUME NEW e \in Docs \ {d}, QuietTaskStep(e) PROVE Announced(d)
    <2>1. TaskStep(e)
        BY <1>2 DEF QuietTaskStep, TaskStep
    <2>2. status'[d] = status[d] /\ task'[d] = task[d] /\ UNCHANGED purge
        BY <2>1, TaskFrame
    <2>3. chunks'[d] = chunks[d]
        BY <1>2, <1>s DEF QuietTaskStep, TaskParse, TaskMilvusRaises, TaskMilvusBatch, TaskBm25,
               TaskLeg, TaskFinish, TaskFails, UpdateStatus, registry
    <2> QED
        BY <1>k, <2>2, <2>3
<1>3. CASE Recovery
    BY <1>3, <1>k, RecoveryFrame
<1>4. CASE UploadQueryMilvus \/ UploadAbort
    BY <1>4, <1>k DEF UploadQueryMilvus, UploadAbort, registry
<1>5. CASE UploadRegister
    <2>1. PICK e \in Docs : e = loop.doc
        BY <1>5 DEF UploadRegister, HandlerOK, UploadPcs
    <2>2. d # e => status'[d] = status[d] /\ task'[d] = task[d]
        BY <1>5, <2>1, <1>s DEF UploadRegister
    <2>3. d = e => status'[d] = "processing" /\ task'[d].pc = "parse"
        BY <1>5, <2>1, <1>s DEF UploadRegister, NoTask
    <2>4. UNCHANGED <<chunks, purge>>
        BY <1>5 DEF UploadRegister
    <2> QED
        BY <1>k, <2>2, <2>3, <2>4 DEF Announced
<1>6. ASSUME NEW e \in Docs, DeleteBegin(e) PROVE Announced(d)
    <2>1. purge'[d] = "never" => purge[d] = "never"
        BY <1>6, <1>s DEF DeleteBegin
    <2> QED
        BY <1>6, <1>k, <2>1 DEF DeleteBegin, registry
<1>7. CASE DeleteMilvus \/ DeleteBm25 \/ DeleteLeg
    <2>1. UNCHANGED <<status, task>> /\ (purge'[d] = "never" => purge[d] = "never")
        BY <1>7, DeleteFrame DEF DeleteInner
    <2>2. UNCHANGED chunks
        BY <1>7 DEF DeleteMilvus, DeleteBm25, DeleteLeg, registry
    <2> QED
        BY <1>k, <2>1, <2>2
<1>8. CASE DeleteRow
    <2>1. status'[d] = "indexed" => status[d] = "indexed"
        BY <1>8, <1>s DEF DeleteRow
    <2> QED
        BY <1>8, <1>k, <2>1 DEF DeleteRow
<1>9. ASSUME NEW e \in Docs, Age(e) PROVE Announced(d)
    BY <1>9, <1>k DEF Age
<1> QED
    BY <1>1, <1>2, <1>3, <1>4, <1>5, <1>6, <1>7, <1>8, <1>9 DEF QuietWrite, LoopStep, Upload, Recovery

\* A sparse leg that ends under the current key has found what is announced,
\* and a result that reaches the cache was read under that key by both legs.
LEMMA ServedRead ==
    ASSUME ServedInv, Findable, NativeOnly => ReadersInv, NativeSparse => NativeOnly,
           NEW r \in Readers, ReaderStep(r)
    PROVE  ServedInv'
<1>t. reader \in [Readers -> ReaderRecord] /\ reader[r] \in ReaderRecord
        /\ version \in Nat /\ reader[r].key \in Nat /\ reader[r].key <= version
    BY DEF ServedInv, ReaderRecord
<1>m. InMilvus \subseteq Docs /\ InBm25 \subseteq Docs
    BY DEF InMilvus, InBm25
<1>v. UNCHANGED <<status, chunks, task, purge, version>>
    BY DEF ReaderStep, StartQuery, DenseLeg, NativeLeg, LegacyLeg, CheckHydrated, HydrateQuery,
           HydrateAdd, ScoreBm25, StoreResult, DropResult, vars, registry
<1>a. \A d \in Docs : Announced(d)' = Announced(d)
    BY <1>v DEF Announced
<1>k. ASSUME NEW rec \in ReaderRecord, reader' = [reader EXCEPT ![r] = rec],
             rec.key <= version,
             rec.key = version /\ rec.sparse = "done" =>
                \/ reader[r].key = version /\ reader[r].sparse = "done"
                     /\ rec.fromSparse = reader[r].fromSparse
                \/ \A d \in Docs : Announced(d) => d \in rec.fromSparse,
             \/ cache' = cache
             \/ cache' = Found(r) /\ reader[r].key = version /\ reader[r].sparse = "done"
      PROVE  ServedInv'
    <2>1. reader'[r] = rec /\ \A q \in Readers \ {r} : reader'[q] = reader[q]
        BY <1>k, <1>t
    <2>2. reader' \in [Readers -> ReaderRecord] /\ version' \in Nat
        BY <1>k, <1>t, <1>v
    <2>3. \A q \in Readers : reader'[q].key <= version'
        BY <1>k, <1>v, <2>1 DEF ServedInv
    <2>4. ASSUME NEW d \in Docs, Announced(d)'
          PROVE  /\ cache' # None => d \in cache'
                 /\ \A q \in Readers : reader'[q].key = version' /\ reader'[q].sparse = "done"
                        => d \in reader'[q].fromSparse
        <3>1. Announced(d)
            BY <1>a, <2>4
        <3>2. cache' # None => d \in cache'
            <4>1. CASE cache' = cache
                BY <3>1, <4>1 DEF ServedInv
            <4>2. CASE cache' # cache
                BY <1>k, <3>1, <4>2 DEF ServedInv, Found
            <4> QED
                BY <4>1, <4>2
        <3>3. ASSUME NEW q \in Readers \ {r}, reader'[q].key = version', reader'[q].sparse = "done"
              PROVE  d \in reader'[q].fromSparse
            BY <1>v, <2>1, <3>1, <3>3 DEF ServedInv
        <3>4. reader'[r].key = version' /\ reader'[r].sparse = "done" => d \in reader'[r].fromSparse
            BY <1>k, <1>v, <2>1, <3>1 DEF ServedInv
        <3> QED
            BY <3>2, <3>3, <3>4
    <2> QED
        BY <2>2, <2>3, <2>4 DEF ServedInv
<1>1. CASE StartQuery(r)
    <2> DEFINE rec == [NoReader EXCEPT !.key = version, !.dense = "run", !.sparse = "run"]
    <2>1. rec \in ReaderRecord /\ rec.sparse = "run" /\ rec.key = version
        BY <1>t DEF NoReader, ReaderRecord, LegPcs
    <2>2. reader' = [reader EXCEPT ![r] = rec] /\ cache' = cache
        BY <1>1 DEF StartQuery
    <2> HIDE DEF rec
    <2>3. rec.key <= version /\ rec.sparse # "done"
        BY <1>t, <2>1
    <2> QED
        BY <1>k, <2>1, <2>2, <2>3
<1>2. CASE DenseLeg(r)
    <2>1. PICK found \in {InMilvus, {}} :
            reader' = [reader EXCEPT ![r].dense = "done", ![r].fromDense = found]
        BY <1>2 DEF DenseLeg
    <2> DEFINE rec == [reader[r] EXCEPT !.dense = "done", !.fromDense = found]
    <2>2. /\ rec \in ReaderRecord /\ rec.sparse = reader[r].sparse /\ rec.key = reader[r].key
          /\ rec.fromSparse = reader[r].fromSparse
        BY <1>t, <1>m DEF ReaderRecord, LegPcs
    <2>3. reader' = [reader EXCEPT ![r] = rec]
        BY <2>1
    <2>4. cache' = cache
        BY <1>2 DEF DenseLeg
    <2> HIDE DEF rec
    <2> QED
        BY <1>k, <1>t, <2>2, <2>3, <2>4
<1>3. CASE NativeLeg(r)
    <2> DEFINE rec == [reader[r] EXCEPT !.sparse = "done", !.fromSparse = InMilvus]
    <2>1. rec \in ReaderRecord /\ rec.key = reader[r].key /\ rec.fromSparse = InMilvus
        BY <1>t, <1>m DEF ReaderRecord, LegPcs
    <2>2. NativeSparse /\ "sparse" \notin ReadFaults
        BY <1>3 DEF NativeLeg, NativeOnly
    <2>3. reader' = [reader EXCEPT ![r] = rec] /\ cache' = cache
        BY <1>3, <2>2 DEF NativeLeg
    <2> HIDE DEF rec
    <2>4. \A d \in Docs : Announced(d) => d \in rec.fromSparse
        BY <2>1, <2>2 DEF Findable
    <2> QED
        BY <1>k, <1>t, <2>1, <2>3, <2>4
<1>4. CASE ScoreBm25(r)
    <2> DEFINE rec == [reader[r] EXCEPT !.sparse = "done", !.fromSparse = InBm25]
    <2>1. rec \in ReaderRecord /\ rec.key = reader[r].key /\ rec.fromSparse = InBm25
        BY <1>t, <1>m DEF ReaderRecord, LegPcs
    <2>2. ~NativeSparse
        BY <1>4 DEF ScoreBm25, ReadersInv
    <2>3. reader' = [reader EXCEPT ![r] = rec] /\ cache' = cache
        BY <1>4 DEF ScoreBm25
    <2> HIDE DEF rec
    <2>4. \A d \in Docs : Announced(d) => d \in rec.fromSparse
        BY <2>1, <2>2 DEF Findable
    <2> QED
        BY <1>k, <1>t, <2>1, <2>3, <2>4
<1>5. CASE LegacyLeg(r) \/ CheckHydrated(r) \/ HydrateQuery(r) \/ HydrateAdd(r)
    <2>1. PICK next \in {"check", "score", "snapshot", "hydrate"}, kept \in SUBSET Docs :
            reader' = [reader EXCEPT ![r].sparse = next, ![r].snapshot = kept]
        <3>1. reader[r].snapshot \in SUBSET Docs
            BY <1>t DEF ReaderRecord
        <3>2. ASSUME NEW next, reader' = [reader EXCEPT ![r].sparse = next]
              PROVE  reader' = [reader EXCEPT ![r].sparse = next, ![r].snapshot = reader[r].snapshot]
            BY <3>2, <1>t DEF ReaderRecord
        <3>3. CASE LegacyLeg(r)
            BY <3>1, <3>2, <3>3 DEF LegacyLeg
        <3>4. CASE CheckHydrated(r)
            BY <3>1, <3>2, <3>4 DEF CheckHydrated
        <3>5. CASE HydrateQuery(r)
            <4>1. CASE reader' = [reader EXCEPT ![r].sparse = "score"]
                BY <3>1, <3>2, <4>1
            <4>2. CASE reader' = [reader EXCEPT ![r].snapshot = InMilvus,
                           ![r].sparse = IF InMilvus = {} THEN "score" ELSE "hydrate"]
                <5> DEFINE next == IF InMilvus = {} THEN "score" ELSE "hydrate"
                <5>1. next \in {"check", "score", "snapshot", "hydrate"}
                    OBVIOUS
                <5>2. reader' = [reader EXCEPT ![r].sparse = next, ![r].snapshot = InMilvus]
                    BY <4>2, <1>t DEF ReaderRecord
                <5> QED
                    BY <5>1, <5>2, <1>m
            <4> QED
                BY <3>5, <4>1, <4>2 DEF HydrateQuery
        <3>6. CASE HydrateAdd(r)
            BY <3>6 DEF HydrateAdd
        <3> QED
            BY <1>5, <3>3, <3>4, <3>5, <3>6
    <2> DEFINE rec == [reader[r] EXCEPT !.sparse = next, !.snapshot = kept]
    <2>2. rec \in ReaderRecord /\ rec.key = reader[r].key /\ rec.sparse = next
        BY <1>t DEF ReaderRecord, LegPcs
    <2>3. reader' = [reader EXCEPT ![r] = rec]
        BY <2>1
    <2>4. cache' = cache
        BY <1>5 DEF LegacyLeg, CheckHydrated, HydrateQuery, HydrateAdd
    <2> HIDE DEF rec
    <2> QED
        BY <1>k, <1>t, <2>2, <2>3, <2>4
<1>6. CASE StoreResult(r) \/ DropResult(r)
    <2>1. NoReader \in ReaderRecord /\ NoReader.key = 0 /\ NoReader.sparse = "idle"
        BY DEF NoReader, ReaderRecord, LegPcs
    <2>2. /\ reader' = [reader EXCEPT ![r] = NoReader]
          /\ \/ cache' = cache
             \/ cache' = Found(r) /\ reader[r].key = version /\ reader[r].sparse = "done"
        BY <1>6 DEF StoreResult, DropResult, BothDone
    <2>3. NoReader.key <= version /\ NoReader.sparse # "done"
        BY <1>t, <2>1
    <2> QED
        BY <1>k, <2>1, <2>2, <2>3
<1> QED
    BY <1>1, <1>2, <1>3, <1>4, <1>5, <1>6 DEF ReaderStep

\* ServedInv is inductive while the sparse leg finds what is announced: the
\* bump that announces a document empties the cache and outdates every key.
LEMMA ServedStep ==
    ASSUME ServedInv, Findable, TypeOK, HandlerOK, "bm25Add" \notin Faults,
           NativeOnly => ReadersInv, NativeSparse => NativeOnly, [PathNext]_allVars
    PROVE  ServedInv'
<1>t. reader \in [Readers -> ReaderRecord] /\ version \in Nat
        /\ \A r \in Readers : reader[r].key \in Nat /\ reader[r].key <= version
    BY DEF ServedInv, ReaderRecord
<1>1. ASSUME NEW r \in Readers, ReaderStep(r) PROVE ServedInv'
    BY <1>1, ServedRead
<1>2. CASE QuietWrite
    <2>1. UNCHANGED <<version, cache, reader>>
        BY <1>2 DEF QuietWrite, pathVars
    <2>2. \A d \in Docs : Announced(d)' => Announced(d)
        BY <1>2, QuietAnnounces
    <2> QED
        BY <2>1, <2>2 DEF ServedInv
<1>3. ASSUME NEW thread, BumpVersion(thread) PROVE ServedInv'
    <2>1. version' = version + 1 /\ cache' = None /\ UNCHANGED reader
        BY <1>3 DEF BumpVersion
    <2>2. version' \in Nat /\ \A r \in Readers : reader'[r].key < version'
        BY <2>1, <1>t
    <2> QED
        BY <1>t, <2>1, <2>2 DEF ServedInv
<1>4. ASSUME NEW thread, ClearCache(thread) PROVE ServedInv'
    <2>1. cache' = None /\ UNCHANGED <<reader, version, status, chunks, task, purge>>
        BY <1>4 DEF ClearCache, vars
    <2> QED
        BY <2>1 DEF ServedInv, Announced
<1>5. CASE PathRestart
    <2>1. cache' = None /\ version' = 0 /\ reader' = [r \in Readers |-> NoReader]
        BY <1>5 DEF PathRestart
    <2>2. NoReader \in ReaderRecord /\ NoReader.key = 0 /\ NoReader.sparse = "idle"
        BY DEF NoReader, ReaderRecord, LegPcs
    <2> QED
        BY <2>1, <2>2 DEF ServedInv
<1>6. CASE UNCHANGED allVars
    <2>1. UNCHANGED <<cache, reader, version, status, chunks, task, purge>>
        BY <1>6 DEF allVars, vars, pathVars
    <2> QED
        BY <2>1 DEF ServedInv, Announced
<1> QED
    BY <1>1, <1>2, <1>3, <1>4, <1>5, <1>6 DEF PathNext, LoopBump, TaskBumps

LEMMA ServedImplies == ServedInv => IndexedIsServed
BY DEF ServedInv, Announced, IndexedIsServed, ServedNow

\* With native sparse search: once a document is indexed with chunks, every
\* answer the cache serves holds it, although its query may have begun while
\* the document was being written, through any faults (but of the BM25 sync,
\* which skips the bump) and restarts.
THEOREM AdditionsAreServed ==
    NativeOnly /\ "bm25Add" \notin Faults => (PathSpec => []IndexedIsServed)
<1> SUFFICES ASSUME NativeOnly, "bm25Add" \notin Faults PROVE PathSpec => []IndexedIsServed
    OBVIOUS
<1>1. IngestionInv /\ StoredInv => Findable
    <2> SUFFICES ASSUME IngestionInv, StoredInv, NEW d \in Docs, Announced(d)
                 PROVE  d \in InMilvus
        BY DEF Findable, NativeOnly
    <2>1. StoredOK(d)
        BY DEF StoredInv
    <2>2. milvus[d] > 0
        BY <2>1 DEF StoredOK, Announced, Running, TaskPcs
    <2> QED
        BY <2>2 DEF InMilvus
<1>2. PathSpec => []IngestionInv /\ []StoredInv
    BY NativeReadersAreInvisible, Invariance, StoresInvariance DEF WritePath
<1>3. ReadersInv /\ IngestionInv /\ StoredInv /\ ServedInv /\ [PathNext]_allVars => ServedInv'
    BY <1>1, ServedStep DEF IngestionInv
<1>4. ReadersInv /\ [PathNext]_allVars => ReadersInv'
    BY ReadersStep
<1> QED
    BY <1>2, <1>3, <1>4, ServedInit, ReadersInit, ServedImplies, PTL DEF PathSpec

-----------------------------------------------------------------------------
\* With the BM25 leg a reader that hydrates BM25 writes to it as well.
WriteInv == TypeOK /\ HandlerOK /\ TaskOK /\ SearchInv

LEMMA PathSteps ==
    ASSUME [PathNext]_allVars
    PROVE  [Next]_vars \/ \E r \in Readers : HydrateAdd(r)
<1>1. ASSUME NEW r \in Readers, ReaderStep(r) PROVE UNCHANGED vars \/ HydrateAdd(r)
    BY <1>1 DEF ReaderStep, StartQuery, DenseLeg, NativeLeg, LegacyLeg, CheckHydrated, HydrateQuery,
           ScoreBm25, StoreResult, DropResult
<1>2. CASE QuietWrite
    BY <1>2 DEF QuietWrite, LoopStep, QuietTaskStep, Next, Upload, Delete, TaskStep
<1>3. CASE LoopBump
    BY <1>3 DEF LoopBump, Next, Delete
<1>4. ASSUME NEW d \in Docs, TaskBumps(d) PROVE Next
    BY <1>4 DEF TaskBumps, Next, TaskStep
<1>5. ASSUME NEW thread, ClearCache(thread) PROVE UNCHANGED vars
    BY <1>5 DEF ClearCache
<1>6. CASE PathRestart
    BY <1>6 DEF PathRestart, Next
<1>7. CASE UNCHANGED allVars
    BY <1>7 DEF allVars
<1> QED
    BY <1>1, <1>2, <1>3, <1>4, <1>5, <1>6, <1>7 DEF PathNext

\* It only adds, so it disturbs nothing that is known of rows and BM25.
LEMMA WriteStep ==
    ASSUME OneLife, WriteInv, [PathNext]_allVars
    PROVE  WriteInv'
<1>1. CASE [Next]_vars
    BY <1>1, TypeStep, HandlerInv, TaskInv, SearchStep DEF WriteInv
<1>2. ASSUME NEW r \in Readers, HydrateAdd(r) PROVE WriteInv'
    <2>1. UNCHANGED <<status, file, chunks, aged, milvus, derived, task, loop, crashes, purge>>
        BY <1>2 DEF HydrateAdd, registry
    <2>2. bm25 \in [Docs -> Nat]
        BY DEF WriteInv, TypeOK
    <2>3. bm25' \in [Docs -> Nat] /\ \A d \in Docs : bm25[d] > 0 => bm25'[d] > 0
        BY <1>2, <2>2 DEF HydrateAdd
    <2>4. TypeOK' /\ HandlerOK' /\ TaskOK'
        BY <2>1, <2>3 DEF WriteInv, TypeOK, HandlerOK, TaskOK, Running, RowsHashed, HasRow, HashOf
    <2>5. \A d \in Docs : SyncedOK(d)'
        BY <2>1, <2>3, StaysSynced DEF WriteInv, SearchInv
    <2>6. NamesOK' /\ (loop'.at \in DeletePcs => purge'[loop'.doc] # "never")
        BY <2>1 DEF WriteInv, SearchInv, NamesOK, RowsNamed, HasRow, NameOf
    <2> QED
        BY <2>4, <2>5, <2>6 DEF WriteInv, SearchInv
<1> QED
    BY <1>1, <1>2, PathSteps

\* The same with the BM25 leg, within one life of the process (OneLife): its
\* hydration may bring back what was deleted, but hides nothing.
THEOREM AdditionsAreServedFromBm25 ==
    ~NativeSparse /\ OneLife => (PathSpec => []IndexedIsServed)
<1> SUFFICES ASSUME ~NativeSparse, OneLife PROVE PathSpec => []IndexedIsServed
    OBVIOUS
<1>1. WriteInv => Findable
    <2> SUFFICES ASSUME WriteInv, NEW d \in Docs, Announced(d) PROVE d \in InBm25
        BY DEF Findable
    <2>1. SyncedOK(d)
        BY DEF WriteInv, SearchInv
    <2>2. bm25[d] > 0
        BY <2>1 DEF SyncedOK, Announced
    <2> QED
        BY <2>2 DEF InBm25
<1>2. PathInit => WriteInv
    BY InitInv, SearchInit DEF PathInit, WriteInv, IngestionInv
<1>3. WriteInv /\ [PathNext]_allVars => WriteInv'
    BY WriteStep
<1>4. WriteInv /\ ServedInv /\ [PathNext]_allVars => ServedInv'
    BY <1>1, ServedStep DEF WriteInv, NativeOnly, OneLife
<1> QED
    BY <1>2, <1>3, <1>4, ServedInit, ServedImplies, PTL DEF PathSpec
=============================================================================
