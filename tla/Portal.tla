-------------------------------- MODULE Portal --------------------------------
(***************************************************************************)
(* The portal backend: projects and their software items                   *)
(* (server/src/controllers/project.controller.ts) and their knowledge      *)
(* documents (knowledge.controller.ts).  Each is a Prisma row, a directory *)
(* under the storage root, and for a knowledge document an entry of the    *)
(* RAG service; no transaction spans two of them.                          *)
(*                                                                         *)
(* A request is a sequence of steps: a call that is awaited (a query, a    *)
(* fetch) takes effect in one, and the synchronous code between two awaits *)
(* is one.  An awaited call may raise, and the process may stop there:     *)
(* Abort ends the request where it stands.  Ids are uuids, never used      *)
(* twice.                                                                  *)
(***************************************************************************)
EXTENDS Integers, FiniteSets

CONSTANTS Projects,  \* project ids
          Items,     \* software item ids, with their directory uuids
          Rows,      \* KnowledgeDocument ids
          RagIds,    \* document ids of the RAG service
          Files,     \* uploaded contents
          Requests,  \* request handlers that may run at the same time
          MaxAborts, \* bound: awaited calls that raise, or processes that stop
          None

ASSUME PortalAssumption ==
    /\ None \notin Projects \cup Items \cup Rows \cup RagIds \cup Files
    /\ MaxAborts \in Nat
    /\ IsFiniteSet(Items) /\ IsFiniteSet(Requests)

VARIABLES
    projects,  \* rows of test_projects
    owner,     \* project_id of each item ever uploaded
    items,     \* rows of software_items
    count,     \* item_count of each project
    docs,      \* rows of knowledge_documents
    roots,     \* project directories
    disk,      \* item directories
    copies,    \* preview copies
    rag,       \* what each document id of the RAG service holds
    used,      \* ids given out
    job,       \* what each request is doing
    emptied,   \* history: items their users left without a directory: the archive had
               \* no entries, or the directory itself was deleted or renamed as a node
    halfway,   \* history: documents removed from the RAG service and not put back
    aborts

vars == <<projects, owner, items, count, docs, roots, disk, copies, rag, used, job,
          emptied, halfway, aborts>>
rows == <<projects, items, count, docs>>
storage == <<roots, disk, copies>>
history == <<emptied, halfway, aborts>>

Idle == [at |-> "idle", project |-> None, item |-> None, row |-> None, rag |-> None,
         file |-> None]

Init ==
    /\ projects = {}
    /\ owner = [i \in Items |-> None]
    /\ items = {}
    /\ count = [p \in Projects |-> 0]
    /\ docs = [k \in Rows |-> None]
    /\ roots = {}
    /\ disk = {}
    /\ copies = {}
    /\ rag = [g \in RagIds |-> None]
    /\ used = {}
    /\ job = [r \in Requests |-> Idle]
    /\ emptied = {}
    /\ halfway = {}
    /\ aborts = 0

At(r, place) == job[r].at = place
GoTo(r, place) == job' = [job EXCEPT ![r].at = place]
End(r) == job' = [job EXCEPT ![r] = Idle]
Begin(r, place, what) ==
    /\ At(r, "idle")
    /\ job' = [job EXCEPT ![r] = [at |-> place, project |-> what.project, item |-> what.item,
                                  row |-> what.row, rag |-> what.rag, file |-> what.file]]

OfProject(p) == [Idle EXCEPT !.project = p]
OfItem(i) == [Idle EXCEPT !.project = owner[i], !.item = i]
OfRow(k) == [Idle EXCEPT !.project = docs[k].project, !.row = k, !.rag = docs[k].rag]

Mine(r) == job[r].project
Exists(r) == Mine(r) \in projects
ItemsOf(p) == {i \in items : owner[i] = p}
\* mkdir and rm are recursive.
WithRoot(p) == roots \cup {p}
-----------------------------------------------------------------------------
\* createProject: the row, then the directory; the path update has no reader.
CreateRow(r) ==
    \E p \in Projects \ used :
        /\ projects' = projects \cup {p}
        /\ used' = used \cup {p}
        /\ Begin(r, "project made", OfProject(p))
        /\ UNCHANGED <<owner, items, count, docs, storage, rag, history>>

CreateRoot(r) ==
    /\ At(r, "project made")
    /\ roots' = WithRoot(Mine(r))
    /\ End(r)
    /\ UNCHANGED <<rows, owner, disk, copies, rag, used, history>>

\* deleteProject: the lookup, the row with its cascade, the directory.
DropProjectFind(r) ==
    \E p \in projects :
        /\ Begin(r, "dropping project", OfProject(p))
        /\ UNCHANGED <<rows, owner, storage, rag, used, history>>

DropProjectRow(r) ==
    /\ At(r, "dropping project")
    /\ IF Exists(r) THEN GoTo(r, "project gone") ELSE End(r)
    /\ projects' = projects \ {Mine(r)}
    /\ items' = items \ ItemsOf(Mine(r))
    /\ docs' = [k \in Rows |->
                    IF docs[k] # None /\ docs[k].project = Mine(r) THEN None ELSE docs[k]]
    /\ UNCHANGED <<count, owner, storage, rag, used, history>>

DropProjectRoot(r) ==
    /\ At(r, "project gone")
    /\ roots' = roots \ {Mine(r)}
    /\ disk' = {i \in disk : owner[i] # Mine(r)}
    /\ copies' = {c \in copies : c.project # Mine(r)}
    /\ End(r)
    /\ UNCHANGED <<rows, owner, rag, used, history>>
-----------------------------------------------------------------------------
\* uploadSoftwareItem.
UploadFind(r) ==
    \E p \in projects :
        /\ Begin(r, "uploading", OfProject(p))
        /\ UNCHANGED <<rows, owner, storage, rag, used, history>>

\* The archive or the folder goes under a new uuid; an archive makes directories
\* for its entries only, and a bad one is refused with what it had extracted left.
Extract(r) ==
    /\ At(r, "uploading")
    /\ roots' = WithRoot(Mine(r))
    /\ \E i \in Items \ used :
        /\ used' = used \cup {i}
        /\ owner' = [owner EXCEPT ![i] = Mine(r)]
        /\ \/ /\ \/ disk' = disk \cup {i} /\ emptied' = emptied
                 \/ disk' = disk /\ emptied' = emptied \cup {i}
              /\ job' = [job EXCEPT ![r].at = "extracted", ![r].item = i]
           \/ /\ disk' \in {disk, disk \cup {i}}
              /\ End(r)
              /\ UNCHANGED emptied
    /\ UNCHANGED <<rows, copies, rag, halfway, aborts>>

\* The row is connected to the project, which must still be there.
CreateItem(r) ==
    /\ At(r, "extracted")
    /\ IF Exists(r) THEN items' = items \cup {job[r].item} /\ GoTo(r, "item made")
                    ELSE items' = items /\ End(r)
    /\ UNCHANGED <<projects, count, docs, owner, storage, rag, used, history>>

CountItem(r) ==
    /\ At(r, "item made")
    /\ IF Exists(r) THEN count' = [count EXCEPT ![Mine(r)] = @ + 1] /\ GoTo(r, "counted")
                    ELSE count' = count /\ End(r)
    /\ UNCHANGED <<projects, items, docs, owner, storage, rag, used, history>>

\* writeProjectManifest: its lookup, then a recursive mkdir inside the item.
ManifestFind(r) ==
    /\ At(r, "counted")
    /\ IF Exists(r) THEN GoTo(r, "manifest") ELSE End(r)
    /\ UNCHANGED <<rows, owner, storage, rag, used, history>>

\* operateSoftwareItemNode looks the item up and then makes or deletes a node.
NodeFind(r) ==
    \E i \in items :
        /\ Begin(r, "node", OfItem(i))
        /\ UNCHANGED <<rows, owner, storage, rag, used, history>>

\* The manifest, a new file and a new folder all make the item's directory again.
MakeNode(r) ==
    /\ At(r, "manifest") \/ At(r, "node")
    /\ roots' = WithRoot(Mine(r))
    /\ disk' = disk \cup {job[r].item}
    /\ emptied' = emptied \ {job[r].item}
    /\ End(r)
    /\ UNCHANGED <<rows, owner, copies, rag, used, halfway, aborts>>

\* The names a directory of the project can be given: one nobody uses (None), or
\* the uuid of an item of the project that has no directory.
NewNames(p) == {None} \cup {j \in Items \ disk : owner[j] = p}

\* Deleting the node `.' takes the whole directory, renaming it gives it another
\* name in the project's; what is done to another node takes none of it.
DeleteNode(r) ==
    /\ At(r, "node")
    /\ \/ /\ job[r].item \in disk
          /\ \E name \in NewNames(Mine(r)) :
                /\ disk' = (disk \ {job[r].item}) \cup ({name} \ {None})
                /\ emptied' = (emptied \cup {job[r].item}) \ {name}
       \/ UNCHANGED <<disk, emptied>>
    /\ End(r)
    /\ UNCHANGED <<rows, owner, roots, copies, rag, used, halfway, aborts>>

\* Mutation of DropItemFind: the directory goes before the row.
DropItemFindRemoves(r) ==
    \E i \in items :
        /\ Begin(r, "dropping item", OfItem(i))
        /\ disk' = disk \ {i}
        /\ UNCHANGED <<rows, owner, roots, copies, rag, used, history>>

\* deleteSoftwareItem: the lookup, the row, the directory, the counter.
DropItemFind(r) ==
    \E i \in items :
        /\ Begin(r, "dropping item", OfItem(i))
        /\ UNCHANGED <<rows, owner, storage, rag, used, history>>

\* A row that is gone raises.
DropItemRow(r) ==
    /\ At(r, "dropping item")
    /\ IF job[r].item \in items THEN GoTo(r, "item gone") ELSE End(r)
    /\ items' = items \ {job[r].item}
    /\ UNCHANGED <<projects, count, docs, owner, storage, rag, used, history>>

DropItemFiles(r) ==
    /\ At(r, "item gone")
    /\ disk' = disk \ {job[r].item}
    /\ GoTo(r, "files gone")
    /\ UNCHANGED <<rows, owner, roots, copies, rag, used, history>>

UncountItem(r) ==
    /\ At(r, "files gone")
    /\ count' = IF Exists(r) THEN [count EXCEPT ![Mine(r)] = @ - 1] ELSE count
    /\ End(r)
    /\ UNCHANGED <<projects, items, docs, owner, storage, rag, used, history>>
-----------------------------------------------------------------------------
\* POST /api/documents/upload of the RAG service: a content it has is refused.
RagAccepts(f, g) ==
    /\ g \in RagIds \ used
    /\ \A h \in RagIds : rag[h] # f
    /\ rag' = [rag EXCEPT ![g] = f]
    /\ used' = used \cup {g}

\* DELETE /api/documents/{id}: the caller looks at neither the status nor an error.
RagDelete(g) == rag' \in {rag, [rag EXCEPT ![g] = None]}

\* uploadDocument: the lookup, the RAG service, the row, the preview copy.
SendFind(r) ==
    \E p \in projects :
        /\ Begin(r, "sending", OfProject(p))
        /\ UNCHANGED <<rows, owner, storage, rag, used, history>>

\* The RAG service takes it, and may not be heard; or refuses, or is down.
SendToRag(r) ==
    /\ At(r, "sending")
    /\ \/ \E f \in Files, g \in RagIds :
            /\ RagAccepts(f, g)
            /\ \/ job' = [job EXCEPT ![r].at = "sent", ![r].rag = g, ![r].file = f]
               \/ End(r)
       \/ End(r) /\ UNCHANGED <<rag, used>>
    /\ UNCHANGED <<rows, owner, storage, history>>

CreateDoc(r) ==
    /\ At(r, "sent")
    /\ IF Exists(r)
         THEN \E k \in Rows \ used :
                /\ used' = used \cup {k}
                /\ docs' = [docs EXCEPT ![k] = [project |-> Mine(r), rag |-> job[r].rag]]
                /\ job' = [job EXCEPT ![r].at = "doc made", ![r].row = k]
         ELSE End(r) /\ UNCHANGED <<used, docs>>
    /\ UNCHANGED <<projects, items, count, owner, storage, rag, history>>

\* Best effort: a copy that cannot be written is a warning.
SaveCopy(r) ==
    /\ At(r, "doc made")
    /\ \/ /\ roots' = WithRoot(Mine(r))
          /\ copies' = copies \cup {[project |-> Mine(r), row |-> job[r].row,
                                     file |-> job[r].file]}
       \/ UNCHANGED <<copies, roots>>
    /\ End(r)
    /\ UNCHANGED <<rows, owner, disk, rag, used, history>>

\* deleteDocument: the lookup, the RAG service, the row; the copy stays.
DropDocFind(r) ==
    \E k \in Rows :
        /\ docs[k] # None
        /\ Begin(r, "dropping doc", OfRow(k))
        /\ UNCHANGED <<rows, owner, storage, rag, used, history>>

DropDocRag(r) ==
    /\ At(r, "dropping doc")
    /\ RagDelete(job[r].rag)
    /\ GoTo(r, "doc out of rag")
    /\ UNCHANGED <<rows, owner, storage, used, history>>

DropDocRow(r) ==
    /\ At(r, "doc out of rag")
    /\ docs' = [docs EXCEPT ![job[r].row] = None]
    /\ End(r)
    /\ UNCHANGED <<projects, items, count, owner, storage, rag, used, history>>

\* reindexDocument: the lookup and the copy, out of the RAG service, a bounded
\* wait for it to forget, in again, and the row gets the new id.
ReindexFind(r) ==
    \E k \in Rows :
        /\ docs[k] # None /\ \E c \in copies : c.row = k
        /\ Begin(r, "reindexing", OfRow(k))
        /\ UNCHANGED <<rows, owner, storage, rag, used, history>>

ReindexDelete(r) ==
    /\ At(r, "reindexing")
    /\ RagDelete(job[r].rag)
    /\ GoTo(r, "waited")
    /\ UNCHANGED <<rows, owner, storage, used, history>>

\* A refusal ends it, and so does a copy that went with its project: the row
\* keeps the id of the document that was removed.
ReindexSend(r) ==
    /\ At(r, "waited")
    /\ \/ \E c \in copies, g \in RagIds :
            /\ c.row = job[r].row
            /\ RagAccepts(c.file, g)
            /\ \/ /\ job' = [job EXCEPT ![r].at = "resent", ![r].rag = g]
                  /\ UNCHANGED halfway
               \/ End(r) /\ halfway' = halfway \cup {job[r].row}
       \/ /\ End(r)
          /\ halfway' = halfway \cup {job[r].row}
          /\ UNCHANGED <<rag, used>>
    /\ UNCHANGED <<rows, owner, storage, emptied, aborts>>

\* Mutation of Repoint: the row keeps the old id.
RepointNot(r) ==
    /\ At(r, "resent")
    /\ End(r)
    /\ UNCHANGED <<rows, owner, storage, rag, used, history>>

\* A row that is gone raises, and the new RAG document has no row.
Repoint(r) ==
    /\ At(r, "resent")
    /\ docs' = [k \in Rows |-> IF k = job[r].row /\ docs[k] # None
                                 THEN [docs[k] EXCEPT !.rag = job[r].rag] ELSE docs[k]]
    /\ halfway' = halfway \ {job[r].row}
    /\ End(r)
    /\ UNCHANGED <<projects, items, count, owner, storage, rag, used, emptied, aborts>>
-----------------------------------------------------------------------------
OutOfRag == {"doc out of rag", "waited", "resent"}

\* The call a request waits for raises, or the process stops.
Abort(r) ==
    /\ aborts < MaxAborts /\ ~At(r, "idle")
    /\ aborts' = aborts + 1
    /\ halfway' = IF job[r].at \in OutOfRag THEN halfway \cup {job[r].row} ELSE halfway
    /\ End(r)
    /\ UNCHANGED <<rows, owner, storage, rag, used, emptied>>

ProjectStep(r) ==
    CreateRow(r) \/ CreateRoot(r) \/ DropProjectFind(r) \/ DropProjectRow(r) \/ DropProjectRoot(r)
ItemStep(r) ==
    \/ UploadFind(r) \/ Extract(r) \/ CreateItem(r) \/ CountItem(r) \/ ManifestFind(r)
    \/ NodeFind(r) \/ MakeNode(r) \/ DeleteNode(r)
    \/ DropItemFind(r) \/ DropItemRow(r) \/ DropItemFiles(r) \/ UncountItem(r)
DocStep(r) ==
    \/ SendFind(r) \/ SendToRag(r) \/ CreateDoc(r) \/ SaveCopy(r)
    \/ DropDocFind(r) \/ DropDocRag(r) \/ DropDocRow(r)
    \/ ReindexFind(r) \/ ReindexDelete(r) \/ ReindexSend(r) \/ Repoint(r)

Next == \E r \in Requests : ProjectStep(r) \/ ItemStep(r) \/ DocStep(r) \/ Abort(r)

Spec == Init /\ [][Next]_vars
-----------------------------------------------------------------------------
Places == {"item made", "item gone", "files gone"} \cup OutOfRag \cup
    {"idle", "project made", "dropping project", "project gone", "uploading", "extracted",
     "counted", "manifest", "node", "dropping item", "sending", "sent", "doc made",
     "dropping doc", "reindexing"}

JobStates == [at : Places, project : Projects \cup {None}, item : Items \cup {None},
              row : Rows \cup {None}, rag : RagIds \cup {None}, file : Files \cup {None}]

\* Types: rows refer to rows that exist, and only to ids that were given out.
TypeOK ==
    /\ projects \subseteq Projects /\ roots \subseteq Projects
    /\ owner \in [Items -> Projects \cup {None}]
    /\ items \subseteq Items /\ disk \subseteq Items
    /\ count \in [Projects -> Int]
    /\ docs \in [Rows -> [project : Projects, rag : RagIds] \cup {None}]
    /\ copies \subseteq [project : Projects, row : Rows, file : Files]
    /\ rag \in [RagIds -> Files \cup {None}]
    /\ job \in [Requests -> JobStates]
    /\ \A i \in items : owner[i] \in projects
    /\ \A k \in Rows : docs[k] # None => docs[k].project \in projects
    /\ emptied \subseteq Items /\ halfway \subseteq Rows
    /\ aborts \in 0 .. MaxAborts

\* An item that is listed can be opened and downloaded: its directory is there,
\* whichever requests ran and wherever they stopped, unless what its users did
\* left it without one (emptied), until the manifest or a new node makes it again
\* (files before the row on upload, 351-422; the row before the files on
\* deletion, 520-527).
FilesBehindRows == items \subseteq disk \cup emptied

\* A knowledge document points at a document the RAG service has, unless it is
\* being removed or reindexed, or that stopped half way (knowledge.controller.ts
\* 231-240, 615-669).
RagBehindRows ==
    \A k \in Rows :
        docs[k] # None =>
            \/ rag[docs[k].rag] # None
            \/ k \in halfway
            \/ \E r \in Requests : job[r].row = k /\ job[r].at \in OutOfRag
=============================================================================
