------------------------- MODULE CollectionMigration -------------------------
(***************************************************************************)
(* Which vectors stand in which Milvus collection: the server that uploads *)
(* to and searches the collection its environment names, the embedding     *)
(* registry that gates both, the parent store, and the command             *)
(* migrate_embedding_collection.py that rebuilds a collection from it for  *)
(* another embedding model.                                                *)
(***************************************************************************)
EXTENDS Naturals, FiniteSets

CONSTANTS
    Uploads,        \* documents that may be uploaded
    Markdowns,      \* those of them whose parents carry the temporary path
    Sections,       \* the sections every document has
    Collections,    \* collection names
    Embeddings,         \* embedding settings [source, dim, sparse]
    FirstModel,     \* the settings before any change
    MaxCommands,    \* migration commands, one after the other
    MaxRestarts,    \* restarts of the server
    MaxOutages,     \* operations that raise
    Gone

\* What a collection holds: chunks, each with whose text and whose vector it
\* has and whether a delete by file_hash finds it, under the schema it was
\* created with.
Chunks == [doc : Uploads, section : Sections, model : Embeddings, hashed : BOOLEAN]
Standing == [dim : Nat, sparse : BOOLEAN, chunks : SUBSET Chunks]

ASSUME MigrationAssumption ==
    /\ FirstModel \in Embeddings
    /\ \A m \in Embeddings : m.dim \in Nat /\ m.sparse \in BOOLEAN
    /\ Gone \notin Standing /\ Gone \notin Uploads

VARIABLES
    row,            \* document registry: status per document
    parentRows,     \* parent store: [doc, section, key]
    collection,     \* name -> Gone or [dim, sparse, chunks]
    recorded,       \* embedding registry: name -> Gone or settings
    server,         \* the API process: [at, name, model, task, doc]
    command,        \* the migration command
    used            \* how many commands, restarts and outages there were

corpusVars == <<row, parentRows, collection, recorded, server, command, used>>

\* Small-to-big keys: a Markdown section by its position, any other and every
\* section a migration splits again by its content.
ParentRow(d, s, key) == [doc |-> d, section |-> s, key |-> key]
KeyOf(d) == IF d \in Markdowns THEN "index" ELSE "content"

\* The source name of a parent row: MarkdownParser was given the upload's
\* temporary path.
ParentSource(r) == IF r.doc \in Markdowns THEN <<"tmp", r.doc>> ELSE r.doc

ChunkOf(d, s, m, hashed) == [doc |-> d, section |-> s, model |-> m, hashed |-> hashed]

Exists(c) == collection[c] # Gone

\* Mutation of Fits: a collection without a record passes, as a warning.
FitsUnlessRecorded(c, m) ==
    ~Exists(c) \/ /\ collection[c].dim = m.dim
                  /\ collection[c].sparse = m.sparse
                  /\ recorded[c] \in {Gone, m}

\* collection_compatibility: the schema, then the registry's fingerprint; a
\* missing collection is compatible, a missing record is not.
Fits(c, m) ==
    ~Exists(c) \/ /\ collection[c].dim = m.dim
                  /\ collection[c].sparse = m.sparse
                  /\ recorded[c] = m

Created(c, m) == [collection EXCEPT ![c] = [dim |-> m.dim, sparse |-> m.sparse, chunks |-> {}]]

Inserted(c, new) == [collection EXCEPT ![c].chunks = @ \union new]

May(outage) == outage => used.outages < MaxOutages
Spend(outage) == used' = [used EXCEPT !.outages = @ + IF outage THEN 1 ELSE 0]

-----------------------------------------------------------------------------
(***************************************************************************)
(* The server.  One indexing thread at a time; uploads of one name are     *)
(* DocumentIngestion's matter.                                             *)
(***************************************************************************)

ServerIs(task) == server.task = task
Serve(task, d) == server' = [server EXCEPT !.task = task, !.doc = d]

UploadFails ==
    /\ row' = [row EXCEPT ![server.doc] = "failed"]
    /\ Serve("idle", Gone)
    /\ UNCHANGED <<parentRows, collection, recorded, command>>

Upload(d) ==
    /\ ServerIs("idle")
    /\ row[d] = "none"
    /\ row' = [row EXCEPT ![d] = "processing"]
    /\ Serve("parents", d)
    /\ UNCHANGED <<parentRows, collection, recorded, command, used>>

\* Each section's parent row; a write that raises is logged.
WriteParents ==
    /\ ServerIs("parents")
    /\ \E outage \in BOOLEAN : \E lost \in IF outage THEN SUBSET Sections \ {{}} ELSE {{}} :
         /\ May(outage) /\ Spend(outage)
         /\ parentRows' = parentRows \union
              {ParentRow(server.doc, s, KeyOf(server.doc)) : s \in Sections \ lost}
    /\ Serve("ensure", server.doc)
    /\ UNCHANGED <<row, collection, recorded, command>>

\* _ensure_collection_loaded before an insert, or before a search of the idle
\* server: a missing collection is created ...
Ensure ==
    /\ server.task \in {"idle", "ensure"}
    /\ ~Exists(server.name)
    /\ collection' = Created(server.name, server.model)
    /\ Serve("register", server.doc)
    /\ UNCHANGED <<row, parentRows, recorded, command, used>>

\* ... and its fingerprint recorded, or the collection dropped again.
Register ==
    /\ ServerIs("register")
    /\ \/ /\ recorded' = [recorded EXCEPT ![server.name] = server.model]
          /\ Serve(IF server.doc = Gone THEN "idle" ELSE "ensure", server.doc)
          /\ UNCHANGED <<row, parentRows, collection, command, used>>
       \/ /\ May(TRUE) /\ Spend(TRUE)
          /\ collection' = [collection EXCEPT ![server.name] = Gone]
          /\ row' = [d \in Uploads |-> IF d = server.doc THEN "failed" ELSE row[d]]
          /\ Serve("idle", Gone)
          /\ UNCHANGED <<parentRows, recorded, command>>

\* add_documents: the gate, then batches that may fail each on its own.
AddDocuments ==
    /\ ServerIs("ensure")
    /\ Exists(server.name)
    /\ \/ ~Fits(server.name, server.model) /\ UploadFails /\ UNCHANGED used
       \/ /\ Fits(server.name, server.model)
          /\ \E outage \in BOOLEAN : \E lost \in IF outage THEN SUBSET Sections \ {{}} ELSE {{}} :
               /\ May(outage) /\ Spend(outage)
               /\ collection' = Inserted(server.name,
                    {ChunkOf(server.doc, s, server.model, TRUE) : s \in Sections \ lost})
          /\ row' = [row EXCEPT ![server.doc] = "indexed"]
          /\ Serve("idle", Gone)
          /\ UNCHANGED <<parentRows, recorded, command>>

\* delete_document, while no indexing runs: the chunks by file_hash, the row.
Delete(d) ==
    /\ ServerIs("idle")
    /\ row[d] \in {"processing", "indexed", "failed"}
    /\ row' = [row EXCEPT ![d] = "deleted"]
    /\ collection' = IF ~Exists(server.name) THEN collection
                     ELSE [collection EXCEPT ![server.name].chunks = {k \in @ : k.doc # d \/ ~k.hashed}]
    /\ UNCHANGED <<parentRows, recorded, server, command, used>>

Verified == command.at = "verified"
CommandOver == command.at \in {"none", "verified", "refused", "killed"}

\* The operator restarts the server with the collection and the embedding
\* settings the environment now names, not with the target of a running
\* command.  What was being indexed stays "processing".
Reconfigure ==
    /\ used.restarts < MaxRestarts
    /\ used' = [used EXCEPT !.restarts = @ + 1]
    /\ \E m \in Embeddings, c \in Collections :
         /\ CommandOver \/ c # command.target
         /\ server' = [task |-> "idle", doc |-> Gone, name |-> c, model |-> m]
    /\ UNCHANGED <<row, parentRows, collection, recorded, command>>

-----------------------------------------------------------------------------
(***************************************************************************)
(* rebuild_collection.  "before" and "owed" remember what stood there when *)
(* it started: the collections, and the sections of indexed documents.     *)
(***************************************************************************)

NoCommand == [at |-> "none", target |-> Gone, model |-> Gone, rows |-> {},
              created |-> FALSE, before |-> {}, owed |-> {}]

CommandIs(at) == command.at = at
Go(at) == command' = [command EXCEPT !.at = at]

Indexed == {d \in Uploads : row[d] = "indexed"}

\* The parents are listed first.
StartCommand(t, m) ==
    LET owed == {r \in parentRows : r.doc \in Indexed} IN
    /\ CommandOver /\ used.commands < MaxCommands
    /\ t # server.name
    /\ used' = [used EXCEPT !.commands = @ + 1]
    /\ command' = [NoCommand EXCEPT !.at = IF parentRows = {} THEN "refused" ELSE "sources",
                                    !.target = t, !.model = m, !.rows = parentRows,
                                    !.before = {c \in Collections : Exists(c)},
                                    !.owed = {<<r.doc, r.section>> : r \in owed}]
    /\ UNCHANGED <<row, parentRows, collection, recorded, server>>

\* Then the registry: every indexed name must be a source of some parent.
CheckSources ==
    /\ CommandIs("sources")
    /\ Go(IF \A d \in Indexed : \E r \in command.rows : ParentSource(r) = d THEN "split" ELSE "refused")
    /\ UNCHANGED <<row, parentRows, collection, recorded, server, used>>

\* _split_documents writes a parent row of its own for every section.
Resplit ==
    /\ CommandIs("split")
    /\ parentRows' = parentRows \union {ParentRow(r.doc, r.section, "content") : r \in command.rows}
    /\ Go("list")
    /\ UNCHANGED <<row, collection, recorded, server, used>>

\* Mutation of ListTargets: what finally drops is not only what was created.
ListTargetsEagerly ==
    /\ CommandIs("list")
    /\ command' = [command EXCEPT !.at = IF Exists(command.target) THEN "cleanup" ELSE "create",
                                  !.created = TRUE]
    /\ UNCHANGED <<row, parentRows, collection, recorded, server, used>>

ListTargets ==
    /\ CommandIs("list")
    /\ Go(IF Exists(command.target) THEN "cleanup" ELSE "create")
    /\ UNCHANGED <<row, parentRows, collection, recorded, server, used>>

Create ==
    /\ CommandIs("create")
    /\ collection' = Created(command.target, command.model)
    /\ Go("record")
    /\ UNCHANGED <<row, parentRows, recorded, server, used>>

Record ==
    /\ CommandIs("record")
    /\ \/ /\ recorded' = [recorded EXCEPT ![command.target] = command.model]
          /\ command' = [command EXCEPT !.at = "write", !.created = TRUE]
          /\ UNCHANGED <<collection, used>>
       \/ /\ May(TRUE) /\ Spend(TRUE)
          /\ collection' = [collection EXCEPT ![command.target] = Gone]
          /\ Go("cleanup")
          /\ UNCHANGED recorded
    /\ UNCHANGED <<row, parentRows, server>>

\* Mutation of Whole: a failed batch is only counted.
WholeOrNot(lost) == TRUE

\* Every chunk was inserted and none failed.
Whole(lost) == lost = {}

\* The chunks carry source, title and parent, and no file_hash.
WriteTarget ==
    /\ CommandIs("write")
    /\ \E outage \in BOOLEAN : \E lost \in IF outage THEN SUBSET command.rows \ {{}} ELSE {{}} :
         /\ May(outage) /\ Spend(outage)
         /\ collection' = Inserted(command.target,
              {ChunkOf(r.doc, r.section, command.model, FALSE) : r \in command.rows \ lost})
         /\ Go(IF Whole(lost) THEN "verify" ELSE "cleanup")
    /\ UNCHANGED <<row, parentRows, recorded, server>>

\* The compatibility gate, and a sample query that finds something.
VerifyTarget ==
    /\ CommandIs("verify")
    /\ \E outage \in BOOLEAN :
         /\ May(outage) /\ Spend(outage)
         /\ Go(IF ~outage /\ Fits(command.target, command.model) THEN "verified" ELSE "cleanup")
    /\ UNCHANGED <<row, parentRows, collection, recorded, server>>

\* finally: the target is dropped if it was created, which may fail silently.
Cleanup ==
    /\ CommandIs("cleanup")
    /\ \E outage \in BOOLEAN :
         /\ May(outage) /\ Spend(outage)
         /\ collection' = IF command.created /\ ~outage
                          THEN [collection EXCEPT ![command.target] = Gone] ELSE collection
    /\ Go("refused")
    /\ UNCHANGED <<row, parentRows, recorded, server>>

KillCommand ==
    /\ ~CommandOver
    /\ May(TRUE) /\ Spend(TRUE)
    /\ Go("killed")
    /\ UNCHANGED <<row, parentRows, collection, recorded, server>>

CommandStep ==
    \/ \E t \in Collections, m \in Embeddings : StartCommand(t, m)
    \/ CheckSources \/ Resplit \/ ListTargets \/ Create \/ Record
    \/ WriteTarget \/ VerifyTarget \/ Cleanup \/ KillCommand

ServerStep ==
    \/ \E d \in Uploads : Upload(d) \/ Delete(d)
    \/ WriteParents \/ Ensure \/ Register \/ AddDocuments
    \/ Reconfigure

CorpusInit ==
    /\ row = [d \in Uploads |-> "none"]
    /\ parentRows = {}
    /\ collection = [c \in Collections |-> Gone]
    /\ recorded = [c \in Collections |-> Gone]
    /\ \E c \in Collections : server = [task |-> "idle", doc |-> Gone, name |-> c, model |-> FirstModel]
    /\ command = NoCommand
    /\ used = [commands |-> 0, restarts |-> 0, outages |-> 0]

CorpusNext == ServerStep \/ CommandStep

CorpusSpec == CorpusInit /\ [][CorpusNext]_corpusVars

-----------------------------------------------------------------------------
ServerTasks == {"idle", "parents", "ensure", "register"}
CommandPlaces == {"none", "sources", "split", "list", "create", "record", "write", "verify",
                  "verified", "cleanup", "refused", "killed"}
ParentRows == [doc : Uploads, section : Sections, key : {"index", "content"}]

\* The state is of the kind its declaration says; a document is being indexed
\* exactly while a task is under way, but for the collection that a search of
\* the idle server creates.
CorpusTypeOK ==
    /\ row \in [Uploads -> {"none", "processing", "indexed", "failed", "deleted"}]
    /\ parentRows \subseteq ParentRows
    /\ collection \in [Collections -> Standing \cup {Gone}]
    /\ recorded \in [Collections -> Embeddings \cup {Gone}]
    /\ server \in [task : ServerTasks, doc : Uploads \cup {Gone}, name : Collections,
                    model : Embeddings]
    /\ server.task \in {"parents", "ensure"} => server.doc \in Uploads
    /\ command \in [at : CommandPlaces, target : Collections \cup {Gone},
                     model : Embeddings \cup {Gone}, rows : SUBSET ParentRows,
                     created : BOOLEAN, before : SUBSET Collections,
                     owed : SUBSET (Uploads \X Sections)]
    /\ command.at # "none" => command.target \in Collections /\ command.model \in Embeddings

\* Whoever passes the gate of a collection finds in it only vectors of its own
\* model (_assert_collection_compatible): after a change of the embedding
\* settings, a crash between creating and recording, a drop and a new creation.
VectorsMatch ==
    \A c \in Collections, m \in Embeddings :
      Exists(c) /\ Fits(c, m) => \A k \in collection[c].chunks : k.model = m

\* A migration that reports success has every section that the parent store held
\* of a document indexed before it began (write_result, missing_sources).
VerifiedIsWhole ==
    Verified /\ Exists(command.target) =>
        \A o \in command.owed : \E k \in collection[command.target].chunks :
          k.doc = o[1] /\ k.section = o[2]

\* "The command never mutates or drops the active collection", nor any other
\* that stood there when it began.
OthersUntouched ==
    [][CommandStep => \A c \in command.before : collection'[c] = collection[c]]_corpusVars

=============================================================================
