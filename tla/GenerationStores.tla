--------------------------- MODULE GenerationStores ---------------------------
(***************************************************************************)
(* The two optional stores an indexing task fills after Milvus and BM25:   *)
(* the RAPTOR summary trees (core/retrieval/raptor_store.py) and the       *)
(* rendered PDF pages (core/retrieval/visual_retriever.py).  Both keep     *)
(* generations in SQLite: one is staged as `building', published as        *)
(* `ready' by moving the active pointer of its source, and retired by the  *)
(* next one.  The visual store also keeps a directory of page images per   *)
(* file hash, which no transaction covers.                                 *)
(*                                                                         *)
(* A worker is an indexing task or a delete request (documents.py), or a   *)
(* garbage collection.  A transaction is one step, because it runs under   *)
(* the store's lock; the file operations outside the lock are steps of     *)
(* their own.  At most MaxFaults exceptions and restarts happen.           *)
(***************************************************************************)
EXTENDS Naturals, FiniteSets

CONSTANTS Sources,    \* source names
          Hashes,     \* file hashes, the names of the asset directories
          Renders,    \* what a rendering of a file may look like
          Gens,       \* generation ids (uuid4: never used twice)
          Workers,    \* indexing tasks, delete requests, collections
          MaxFaults,  \* bound: SQLite exceptions and process restarts
          None,
          Torn        \* a directory some of whose pages are gone

ASSUME StoreAssumption ==
    /\ MaxFaults \in Nat
    /\ None \notin Gens
    /\ None \notin [source : Sources, hash : Hashes, pages : Renders]
    /\ None \notin Renders \cup Sources
    /\ Torn \notin Renders \cup {None}

VARIABLES
    job,       \* what each generation was staged from, None before
    rows,      \* status of each generation's row in either store
    active,    \* the active generation of each source in either store
    born,      \* history: the generations ever staged in either store
    staging,   \* staging directories of the visual store
    assets,    \* what the asset directory of each hash holds
    worker,    \* what each worker is doing
    exposed,   \* history: moved while a cleanup meant to delete their directory or
               \* a collection was deleting their staging directory
    left,      \* history: directories a failed commit or a restart left behind
    faults

vars == <<job, rows, active, born, staging, assets, worker, exposed, left, faults>>
catalogue == <<rows, active, born>>
files == <<staging, assets>>
history == <<exposed, left>>

Legs == {"raptor", "visual"}
Statuses == {"none", "building", "ready", "retired"}
Jobs == [source : Sources, hash : Hashes, pages : Renders]

Idle == [at |-> "idle", gen |-> None, source |-> None, dirs |-> {}, old |-> {}]

Init ==
    /\ job = [g \in Gens |-> None]
    /\ rows = [l \in Legs |-> [g \in Gens |-> "none"]]
    /\ active = [l \in Legs |-> [s \in Sources |-> None]]
    /\ born = [l \in Legs |-> {}]
    /\ staging = {}
    /\ assets = [h \in Hashes |-> None]
    /\ worker = [w \in Workers |-> Idle]
    /\ exposed = {}
    /\ left = {}
    /\ faults = 0

At(w, place) == worker[w].at = place
GoTo(w, place) == worker' = [worker EXCEPT ![w].at = place]
Rest(w) == worker' = [worker EXCEPT ![w] = Idle]

(* The visual store's lock is held from the validation of the pages, over    *)
(* their move, to the commit that activates them.                            *)
Locking == {"visual_move", "visual_commit"}
Unlocked == \A w \in Workers : worker[w].at \notin Locking

(* The directories a cleanup keeps: hashes of the active, ready generations. *)
Referenced ==
    {job[active["visual"][s]].hash :
        s \in {t \in Sources : /\ active["visual"][t] # None
                               /\ rows["visual"][active["visual"][t]] = "ready"}}

Fault == faults < MaxFaults /\ faults' = faults + 1

-----------------------------------------------------------------------------
(* The transactions both stores share. *)

Staged(leg, g) ==
    /\ rows' = [rows EXCEPT ![leg][g] = "building"]
    /\ born' = [born EXCEPT ![leg] = @ \cup {g}]
    /\ UNCHANGED active

(* Mutation of Published: the generation published before stays `ready'. *)
Published(leg, g) ==
    LET previous == active[leg][job[g].source]
    IN  /\ rows' = [rows EXCEPT ![leg] =
                      [h \in Gens |-> IF h = g THEN "ready"
                                      ELSE IF h = previous /\ @[h] = "ready"
                                           THEN "retired" ELSE @[h]]]
        /\ active' = [active EXCEPT ![leg][job[g].source] = g]
        /\ UNCHANGED born

GensOf(s) == {g \in Gens : job[g] # None /\ job[g].source = s}

(* Mutation of Removed: only the active generation is deleted, a staged one *)
(* can still be published.                                                   *)
RemovedActiveOnly(leg, s) ==
    /\ rows' = [rows EXCEPT ![leg] =
                  [g \in Gens |-> IF g = active[leg][s] THEN "none" ELSE @[g]]]
    /\ active' = [active EXCEPT ![leg][s] = None]
    /\ UNCHANGED born

Removed(leg, s) ==
    /\ rows' = [rows EXCEPT ![leg] =
                  [g \in Gens |-> IF g \in GensOf(s) THEN "none" ELSE @[g]]]
    /\ active' = [active EXCEPT ![leg][s] = None]
    /\ UNCHANGED born

Collectable(leg, old) ==
    {g \in old : /\ rows[leg][g] \in {"building", "retired"}
                 /\ \A s \in Sources : active[leg][s] # g}

(* Mutation of Collected: the rows are marked and kept. *)
Collected(leg, old) ==
    /\ rows' = [rows EXCEPT ![leg] =
                  [g \in Gens |-> IF g \in Collectable(leg, old) THEN "none" ELSE @[g]]]
    /\ UNCHANGED <<active, born>>

-----------------------------------------------------------------------------
(* RAPTOR: build_source stages and publishes; any step may raise, and the  *)
(* task goes on to the visual store.  A document without usable chunks, or *)
(* a disabled store, stages nothing.                                       *)

StartBuild(w, g, place) ==
    /\ At(w, "idle")
    /\ job[g] = None
    /\ \E j \in Jobs : job' = [job EXCEPT ![g] = j]
    /\ worker' = [worker EXCEPT ![w].at = place, ![w].gen = g]
    /\ UNCHANGED <<files, history, faults>>

RaptorStage(w) ==
    \E g \in Gens : StartBuild(w, g, "raptor_publish") /\ Staged("raptor", g)

RaptorSkip(w) ==
    \E g \in Gens : StartBuild(w, g, "visual_stage") /\ UNCHANGED catalogue

Publishable(leg, g) == rows[leg][g] = "building"

RaptorPublish(w) ==
    /\ At(w, "raptor_publish")
    /\ Publishable("raptor", worker[w].gen)
    /\ Published("raptor", worker[w].gen)
    /\ GoTo(w, "visual_stage")
    /\ UNCHANGED <<job, files, history, faults>>

(* The generation was removed or collected meanwhile, or SQLite raised. *)
RaptorPublishRaises(w) ==
    /\ At(w, "raptor_publish")
    /\ IF Publishable("raptor", worker[w].gen) THEN Fault ELSE UNCHANGED faults
    /\ GoTo(w, "visual_stage")
    /\ UNCHANGED <<job, catalogue, files, history>>

-----------------------------------------------------------------------------
(* Visual pages. *)

(* Visual retrieval is off, the file is no PDF, or rendering it raises.      *)
VisualSkip(w) ==
    /\ At(w, "visual_stage")
    /\ Rest(w)
    /\ UNCHANGED <<job, catalogue, files, history, faults>>

(* stage_pages writes the page files before the rows that name them. *)
VisualFiles(w) ==
    /\ At(w, "visual_stage")
    /\ staging' = staging \cup {worker[w].gen}
    /\ GoTo(w, "visual_rows")
    /\ UNCHANGED <<job, catalogue, assets, history, faults>>

VisualRows(w) ==
    /\ At(w, "visual_rows") /\ Unlocked
    /\ Staged("visual", worker[w].gen)
    /\ GoTo(w, "visual_publish")
    /\ UNCHANGED <<job, files, history, faults>>

VisualRowsRaise(w) ==
    /\ At(w, "visual_rows") /\ Unlocked /\ Fault
    /\ staging' = staging \ {worker[w].gen}
    /\ Rest(w)
    /\ UNCHANGED <<job, catalogue, assets, history>>

(* Mutation of PagesFit: an existing directory is taken as it is. *)
PagesFitUnchecked(g) == TRUE

(* _validate_asset_directory: another rendering of the same file collides. *)
PagesFit(g) == assets[job[g].hash] \in {None, job[g].pages}

(* A cleanup that will delete the directory of h although h is about to be  *)
(* referenced: it read the references or the listing too early.             *)
Endangered(h) ==
    \E w \in Workers : \/ At(w, "sweep_list") /\ h \notin worker[w].dirs
                       \/ At(w, "sweep_delete") /\ h \in worker[w].dirs

(* A collection that is deleting the staged pages of g, one by one.         *)
Collecting(g) == \E w \in Workers : At(w, "visual_sweep") /\ g \in worker[w].old

(* publish_generation validates the row and the staged pages ...             *)
VisualValidate(w) ==
    LET g == worker[w].gen
    IN  /\ At(w, "visual_publish") /\ Unlocked
        /\ Publishable("visual", g) /\ g \in staging
        /\ GoTo(w, "visual_move")
        /\ UNCHANGED <<job, catalogue, files, history, faults>>

VisualRefused(w) ==
    LET g == worker[w].gen
    IN  /\ At(w, "visual_publish") /\ Unlocked
        /\ ~Publishable("visual", g) \/ g \notin staging \/ Collecting(g)
        /\ Rest(w)
        /\ UNCHANGED <<job, catalogue, files, history, faults>>

(* ... and moves them, or finds pages of the same file that fit.             *)
Vanishing(g) == assets[job[g].hash] = None /\ Collecting(g)
Movable(g) == PagesFit(g) /\ (assets[job[g].hash] = None => g \in staging)

VisualMove(w) ==
    LET g == worker[w].gen
        h == job[g].hash
    IN  /\ At(w, "visual_move") /\ Movable(g)
        /\ \E torn \in {FALSE, Vanishing(g)} :
             /\ assets' = [assets EXCEPT ![h] = IF torn THEN Torn ELSE job[g].pages]
             /\ exposed' = IF torn \/ Endangered(h) THEN exposed \cup {g} ELSE exposed
        /\ staging' = staging \ {g}
        /\ GoTo(w, "visual_commit")
        /\ UNCHANGED <<job, catalogue, left, faults>>

(* The pages there are others, or the staged ones have been collected.       *)
VisualMoveRaises(w) ==
    /\ At(w, "visual_move")
    /\ ~Movable(worker[w].gen) \/ Vanishing(worker[w].gen)
    /\ Rest(w)
    /\ UNCHANGED <<job, catalogue, files, history, faults>>

VisualCommit(w) ==
    /\ At(w, "visual_commit")
    /\ Published("visual", worker[w].gen)
    /\ GoTo(w, "sweep_read")
    /\ UNCHANGED <<job, files, history, faults>>

(* The transaction rolls back and publish_generation raises past its        *)
(* cleanup: the pages have moved, the row stays `building'.                  *)
VisualCommitRaises(w) ==
    /\ At(w, "visual_commit") /\ Fault
    /\ left' = left \cup {job[worker[w].gen].hash}
    /\ Rest(w)
    /\ UNCHANGED <<job, catalogue, files, exposed>>

(* Mutation of SweepRead: the cleanup runs on the references of the start of *)
(* the operation, before the source it removes is gone.                      *)
(* _cleanup_unreferenced_assets reads the references under the lock ... *)
SweepRead(w) ==
    /\ At(w, "sweep_read") /\ Unlocked
    /\ worker' = [worker EXCEPT ![w] = [Idle EXCEPT !.at = "sweep_list", !.dirs = Referenced]]
    /\ UNCHANGED <<job, catalogue, files, history, faults>>

(* ... lists the directories without it ... *)
SweepList(w) ==
    /\ At(w, "sweep_list")
    /\ LET dirs == {h \in Hashes : assets[h] # None} \ worker[w].dirs IN
         worker' = [worker EXCEPT ![w] = IF dirs = {} THEN Idle
                                         ELSE [@ EXCEPT !.at = "sweep_delete", !.dirs = dirs]]
    /\ UNCHANGED <<job, catalogue, files, history, faults>>

(* ... and removes the unreferenced ones one by one. *)
SweepDelete(w) ==
    /\ At(w, "sweep_delete")
    /\ \E h \in worker[w].dirs :
         /\ assets' = [assets EXCEPT ![h] = None]
         /\ left' = left \ {h}
         /\ worker' = [worker EXCEPT ![w] = IF worker[w].dirs = {h} THEN Idle
                                            ELSE [worker[w] EXCEPT !.dirs = @ \ {h}]]
    /\ UNCHANGED <<job, catalogue, staging, exposed, faults>>

-----------------------------------------------------------------------------
(* Delete requests: documents.py removes from RAPTOR, then from the visual  *)
(* store; either may raise and is only logged.                              *)

RaptorRemove(w) ==
    /\ At(w, "idle")
    /\ \E s \in Sources :
         /\ GensOf(s) # {}
         /\ worker' = [worker EXCEPT ![w].at = "visual_remove", ![w].source = s]
         /\ \/ Removed("raptor", s) /\ UNCHANGED faults
            \/ UNCHANGED catalogue /\ Fault
    /\ UNCHANGED <<job, files, history>>

VisualRemove(w) ==
    /\ At(w, "visual_remove") /\ Unlocked
    /\ Removed("visual", worker[w].source)
    /\ GoTo(w, "sweep_read")
    /\ UNCHANGED <<job, files, history, faults>>

VisualRemoveRaises(w) ==
    /\ At(w, "visual_remove") /\ Unlocked /\ Fault
    /\ Rest(w)
    /\ UNCHANGED <<job, catalogue, files, history>>

-----------------------------------------------------------------------------
(* Garbage collection of the generations created before the threshold.  Any *)
(* set of them may be that old, also one that is still being built: the      *)
(* threshold is an age, not a sign that its builder is gone.                 *)

RaptorCollect(w) ==
    /\ At(w, "idle")
    /\ \E old \in SUBSET born["raptor"] :
         Collectable("raptor", old) = old /\ old # {} /\ Collected("raptor", old)
    /\ UNCHANGED <<job, files, worker, history, faults>>

(* The visual collection first deletes old staging directories, unlocked. *)
VisualCollectFiles(w) ==
    /\ At(w, "idle")
    /\ \E old \in SUBSET {g \in Gens : g \in staging \/ rows["visual"][g] # "none"} :
         worker' = [worker EXCEPT ![w].at = "visual_sweep", ![w].old = old]
    /\ UNCHANGED <<job, catalogue, files, history, faults>>

VisualFilesGone(w) ==
    /\ At(w, "visual_sweep")
    /\ staging' = staging \ worker[w].old
    /\ GoTo(w, "visual_collect")
    /\ UNCHANGED <<job, catalogue, assets, history, faults>>

VisualCollect(w) ==
    /\ At(w, "visual_collect") /\ Unlocked
    /\ Collected("visual", worker[w].old)
    /\ worker' = [worker EXCEPT ![w].at = "sweep_read", ![w].old = {}]
    /\ UNCHANGED <<job, files, history, faults>>

(* A restart ends every worker; the databases and directories stay. *)
Restart ==
    /\ Fault
    /\ worker' = [w \in Workers |-> Idle]
    /\ left' = left \cup ({h \in Hashes : assets[h] # None} \ Referenced)
    /\ UNCHANGED <<job, catalogue, files, exposed>>

Step(w) ==
    \/ RaptorStage(w) \/ RaptorSkip(w) \/ RaptorPublish(w) \/ RaptorPublishRaises(w)
    \/ VisualSkip(w) \/ VisualFiles(w) \/ VisualRows(w) \/ VisualRowsRaise(w)
    \/ VisualValidate(w) \/ VisualRefused(w) \/ VisualMove(w) \/ VisualMoveRaises(w)
    \/ VisualCommit(w) \/ VisualCommitRaises(w)
    \/ SweepRead(w) \/ SweepList(w) \/ SweepDelete(w)
    \/ RaptorRemove(w) \/ VisualRemove(w) \/ VisualRemoveRaises(w)
    \/ RaptorCollect(w) \/ VisualCollectFiles(w) \/ VisualFilesGone(w) \/ VisualCollect(w)

Next == (\E w \in Workers : Step(w)) \/ Restart

Spec == Init /\ [][Next]_vars

-----------------------------------------------------------------------------
Places == {"idle", "raptor_publish", "visual_stage", "visual_rows", "visual_publish",
           "visual_move", "visual_commit", "sweep_read", "sweep_list", "sweep_delete",
           "visual_remove", "visual_sweep", "visual_collect"}

(* Every row, pointer, directory and worker is of the kind its column is;   *)
(* a worker that builds has a generation and one that removes a source.      *)
TypeOK ==
    /\ job \in [Gens -> Jobs \cup {None}]
    /\ rows \in [Legs -> [Gens -> Statuses]]
    /\ active \in [Legs -> [Sources -> Gens \cup {None}]]
    /\ born \in [Legs -> SUBSET Gens]
    /\ staging \subseteq Gens
    /\ assets \in [Hashes -> Renders \cup {None, Torn}]
    /\ worker \in [Workers -> [at : Places, gen : Gens \cup {None},
                               source : Sources \cup {None}, dirs : SUBSET Hashes,
                               old : SUBSET Gens]]
    /\ exposed \subseteq Gens
    /\ left \subseteq Hashes
    /\ faults \in 0 .. MaxFaults

(* A reader of either store sees one whole generation per source: the active *)
(* pointer names a `ready' row of its own source, and every `ready' row is   *)
(* the active one (publish_generation, remove_by_source, collect_garbage).   *)
ReadyIsActive ==
    \A l \in Legs, g \in Gens :
        (rows[l][g] = "ready") <=>
        (job[g] # None /\ active[l][job[g].source] = g)

(* The pages of every active visual generation are on disk, and are the      *)
(* pages that were rendered for it, unless they were moved while a cleanup   *)
(* that had read the references before was still deleting directories, or a  *)
(* collection the staged pages (visual_retriever.py                          *)
(* _cleanup_unreferenced_assets, collect_garbage).                           *)
ActiveHasPages ==
    \A s \in Sources :
        LET g == active["visual"][s] IN
        g # None => \/ assets[job[g].hash] = job[g].pages
                    \/ g \in exposed

(* When nothing is running, every asset directory is referenced by an active *)
(* generation, but for those a failed commit or a restart left behind.       *)
QuiescentIsTidy ==
    (\A w \in Workers : At(w, "idle")) =>
        {h \in Hashes : assets[h] # None} \subseteq Referenced \cup left

-----------------------------------------------------------------------------
(* The strengthening behind the properties.                                 *)
Building == {"raptor_publish", "visual_stage", "visual_rows", "visual_publish",
             "visual_move", "visual_commit"}
Unstaged == {"raptor_publish", "visual_stage", "visual_rows"}

(* A row belongs to a generation that was staged, and that to a job; a       *)
(* pointer to a generation of its source.                                    *)
RowsOK ==
    /\ \A l \in Legs, g \in Gens :
         /\ rows[l][g] # "none" => g \in born[l]
         /\ g \in born[l] => job[g] # None
    /\ \A l \in Legs, s \in Sources :
         active[l][s] # None => /\ job[active[l][s]] # None
                                /\ job[active[l][s]].source = s

(* Every builder has a generation of its own, which nobody removes between   *)
(* their validation and the commit.                                          *)
WorkersOK ==
    \A w \in Workers :
        /\ worker[w].at \in Building =>
             /\ worker[w].gen \in Gens
             /\ job[worker[w].gen] # None
             /\ \A v \in Workers \ {w} :
                  worker[v].at \in Building => worker[v].gen # worker[w].gen
        /\ worker[w].at \in Unstaged => worker[w].gen \notin born["visual"]
        /\ worker[w].at \in Locking =>
             /\ rows["visual"][worker[w].gen] = "building"
             /\ \A v \in Workers \ {w} : worker[v].at \notin Locking
        /\ worker[w].at = "visual_remove" => worker[w].source \in Sources

(* The generations whose pages must be on disk: the active ones, and the one *)
(* between its move and its commit.                                          *)
Kept(g) ==
    \/ \E s \in Sources : active["visual"][s] = g
    \/ \E w \in Workers : At(w, "visual_commit") /\ worker[w].gen = g

PagesOK ==
    \A g \in Gens \ exposed :
        Kept(g) => /\ assets[job[g].hash] = job[g].pages
                   /\ ~Endangered(job[g].hash)

(* A directory no active generation references has a cleanup on its way.     *)
Swept(h) ==
    \E w \in Workers :
        \/ At(w, "visual_commit") /\ job[worker[w].gen].hash = h
        \/ At(w, "sweep_read")
        \/ At(w, "sweep_list") /\ h \notin worker[w].dirs
        \/ At(w, "sweep_delete") /\ h \in worker[w].dirs

SweepsOK == \A h \in Hashes : assets[h] # None => h \in Referenced \cup left \/ Swept(h)

StoresInv == TypeOK /\ ReadyIsActive /\ RowsOK /\ WorkersOK /\ PagesOK /\ SweepsOK

-----------------------------------------------------------------------------
(* What a store shows of a generation. *)
Fate(leg) ==
    [g \in Gens |-> CASE rows[leg][g] = "none" /\ g \notin born[leg] -> "unborn"
                      [] rows[leg][g] = "building" -> "offered"
                      [] rows[leg][g] = "ready" -> "visible"
                      [] OTHER -> "gone"]

Of(leg) ==
    [g \in Gens |-> IF rows[leg][g] \in {"building", "ready"} THEN job[g].source ELSE None]

Raptor == INSTANCE GenerationCatalogue WITH fate <- Fate("raptor"), of <- Of("raptor")
Visual == INSTANCE GenerationCatalogue WITH fate <- Fate("visual"), of <- Of("visual")

(* Either store implements the catalogue: a removed, replaced or collected   *)
(* generation is never shown again, also when its builder publishes late.    *)
StoresAreCatalogues == Raptor!Spec /\ Visual!Spec
=============================================================================
