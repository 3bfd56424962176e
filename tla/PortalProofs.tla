---------------------------- MODULE PortalProofs ----------------------------
(***************************************************************************)
(* What MCPortal checks on a small instance, for every number of projects, *)
(* items, documents, requests and aborted calls: FilesBehindRows and       *)
(* RagBehindRows are invariants of Spec.                                   *)
(*                                                                         *)
(* Neither is inductive.  For the first one has to know that nobody but    *)
(* its uploader knows an item that has a directory and no row yet, and     *)
(* that whoever removes a directory removed the row, or the project,       *)
(* before.  For the second, that no two rows share a document of the RAG   *)
(* service, and that a document that was sent and has no row yet is known  *)
(* to its sender alone.                                                    *)
(***************************************************************************)
EXTENDS Portal, TLAPS

-----------------------------------------------------------------------------
(* The invariant.                                                          *)

ItemPlaces == {"extracted", "item made", "counted", "manifest", "node", "dropping item",
               "item gone", "files gone"}
\* Where a request will remove the RAG document it has in hand, and where it
\* will point a row at it.
Removers == {"dropping doc", "reindexing"}
Senders == {"sent", "resent"}

\* What a request knows where it stands.
JobOK(j) ==
    /\ j.at # "idle" => j.project \in Projects
    /\ j.at \in ItemPlaces => j.item \in Items
    /\ j.at \in OutOfRag \cup Removers \cup {"doc made"} => j.row \in Rows
    /\ j.at \in Removers \cup Senders => j.rag \in RagIds
    /\ j.at \in {"sent", "doc made"} => j.file \in Files

JobsOK == \A r \in Requests : JobOK(job[r])

\* Ids that anybody knows were given out.
UsedOK ==
    /\ projects \cup items \subseteq used
    /\ \A r \in Requests : {job[r].project, job[r].item, job[r].rag} \subseteq used \cup {None}
    /\ \A k \in Rows : docs[k] # None => docs[k].rag \in used

ItemsOK ==
    \A r \in Requests :
        /\ At(r, "extracted") =>
              /\ job[r].item \notin items
              /\ owner[job[r].item] = Mine(r)
              /\ Exists(r) => job[r].item \in disk \cup emptied
              /\ \A s \in Requests \ {r} : job[s].item # job[r].item
        /\ At(r, "item gone") => job[r].item \notin items
        /\ At(r, "project gone") => ~Exists(r)

RagOK ==
    /\ \A k, l \in Rows : docs[k] # None /\ docs[l] # None /\ docs[k].rag = docs[l].rag => k = l
    /\ \A r \in Requests : job[r].at \in Removers =>
          \A k \in Rows : docs[k] # None /\ docs[k].rag = job[r].rag => k = job[r].row
    /\ \A r \in Requests : job[r].at \in Senders =>
          /\ rag[job[r].rag] # None
          /\ \A k \in Rows : docs[k] # None => docs[k].rag # job[r].rag
          /\ \A s \in Requests \ {r} :
                job[s].at \in Removers \cup Senders => job[s].rag # job[r].rag

PortalInv ==
    TypeOK /\ JobsOK /\ UsedOK /\ ItemsOK /\ RagOK /\ FilesBehindRows /\ RagBehindRows

-----------------------------------------------------------------------------
(* What a step of one request must not do.                                 *)

Becomes(r, new) == job' = [job EXCEPT ![r] = new]
Fits(new) ==
    /\ new \in JobStates /\ JobOK(new)
    /\ {new.project, new.item, new.rag} \subseteq used' \cup {None}

\* The request itself.
LEMMA JobStepKeeps ==
    ASSUME PortalInv, NEW r \in Requests, NEW new, Becomes(r, new), Fits(new),
           used \subseteq used', projects' \cup items' \subseteq used',
           \A k \in Rows : docs'[k] # None => docs'[k].rag \in used'
    PROVE  job' \in [Requests -> JobStates] /\ JobsOK' /\ UsedOK'
<1>1. job \in [Requests -> JobStates] BY DEF PortalInv, TypeOK
<1>2. job' \in [Requests -> JobStates] BY <1>1 DEF Becomes, Fits
<1>3. \A s \in Requests : job'[s] = new \/ job'[s] = job[s] BY <1>1 DEF Becomes
<1>4. JobsOK' BY <1>3 DEF PortalInv, JobsOK, JobOK, Fits
<1>5. UsedOK' BY <1>3 DEF PortalInv, UsedOK, Fits
<1>6. QED BY <1>2, <1>4, <1>5

\* Projects, items and directories.  An id that was given out never comes
\* back, only an uploader that finds its project makes an item, and a
\* directory goes when its owner says so, after its row or after its project.
LEMMA ItemStepKeeps ==
    ASSUME PortalInv, NEW r \in Requests, NEW new, Becomes(r, new), Fits(new), TypeOK',
           used \subseteq used',
           \A i \in Items \cap used : owner'[i] = owner[i],
           projects' \cap used \subseteq projects,
           \/ items' \subseteq items
           \/ At(r, "extracted") /\ Exists(r) /\ items' = items \cup {job[r].item},
           new.at = "extracted" => /\ new.item \notin used
                                   /\ new.item \in disk' \cup emptied'
                                   /\ owner'[new.item] = new.project,
           new.at # "extracted" => new.item \in {None, job[r].item} \cup items,
           new.at = "item gone" => new.item \notin items',
           new.at = "project gone" => new.project \notin projects',
           emptied \subseteq emptied' \cup disk',
           \A i \in disk \ disk' : \/ i \in emptied' \/ owner[i] \notin projects'
                                   \/ At(r, "item gone") /\ i = job[r].item
    PROVE  ItemsOK' /\ FilesBehindRows'
<1>1. job \in [Requests -> JobStates] /\ job' \in [Requests -> JobStates]
      /\ items \subseteq Items /\ items \subseteq used
      BY DEF PortalInv, TypeOK, UsedOK
<1>2. job'[r] = new /\ \A s \in Requests \ {r} : job'[s] = job[s] BY <1>1 DEF Becomes
<1>3. \A s \in Requests : job[s].at = "extracted" =>
         /\ job[s].item \in Items \cap used /\ job[s].project \in used \cap Projects
         /\ job[s].item \notin items /\ owner[job[s].item] = job[s].project
         /\ job[s].project \in projects => job[s].item \in disk \cup emptied
         /\ \A t \in Requests \ {s} : job[t].item # job[s].item
  <2>1. ASSUME NEW s \in Requests, job[s].at = "extracted"
        PROVE  /\ job[s].item \in Items /\ job[s].project \in Projects
               /\ {job[s].item, job[s].project} \subseteq used \cup {None}
        BY <2>1 DEF PortalInv, JobsOK, JobOK, ItemPlaces, UsedOK
  <2>2. None \notin Items \cup Projects BY PortalAssumption
  <2>3. QED BY <2>1, <2>2 DEF PortalInv, ItemsOK, At, Mine, Exists
<1>4. \A s \in Requests : job[s].at = "item gone" => job[s].item \in (Items \cap used) \ items
  <2>1. ASSUME NEW s \in Requests, job[s].at = "item gone"
        PROVE  /\ job[s].item \in Items /\ job[s].item \notin items
               /\ job[s].item \in used \cup {None}
        BY <2>1 DEF PortalInv, JobsOK, JobOK, ItemPlaces, UsedOK, ItemsOK, At
  <2>2. None \notin Items BY PortalAssumption
  <2>3. QED BY <2>1, <2>2
<1>5. \A s \in Requests : job[s].at = "project gone" => job[s].project \in used \ projects
  <2>1. ASSUME NEW s \in Requests, job[s].at = "project gone"
        PROVE  /\ job[s].project \in Projects /\ job[s].project \notin projects
               /\ job[s].project \in used \cup {None}
        BY <2>1 DEF PortalInv, JobsOK, JobOK, UsedOK, ItemsOK, At, Mine, Exists
  <2>2. None \notin Projects BY PortalAssumption
  <2>3. QED BY <2>1, <2>2
<1>6. \A i \in items : i \in disk \cup emptied /\ owner[i] \in projects
      BY DEF PortalInv, TypeOK, FilesBehindRows
<1>7. \A i \in items' : owner'[i] \in projects' BY DEF TypeOK
<1>8. \A i \in items' : /\ i \in Items \cap used
                        /\ i \notin items => job[r].at = "extracted" /\ i = job[r].item
  <2>1. CASE items' \subseteq items BY <1>1, <2>1
  <2>2. CASE job[r].at = "extracted" /\ items' = items \cup {job[r].item}
        BY <1>1, <1>3, <2>2
  <2>3. QED BY <2>1, <2>2 DEF At
\* A directory that goes is of no item, and of nobody's that has none yet.
<1>9. ASSUME NEW i \in Items \cap used, i \in disk \cup emptied, owner'[i] \in projects',
             job[r].at = "item gone" => i # job[r].item
      PROVE  i \in disk' \cup emptied'
      BY <1>9 DEF At
<1>10. FilesBehindRows'
  <2>1. ASSUME NEW i \in items' PROVE i \in disk' \cup emptied'
    <3>1. i \in disk \cup emptied BY <1>3, <1>6, <1>8, <2>1 DEF At, Exists, Mine
    <3>2. job[r].at = "item gone" => i # job[r].item BY <1>4, <1>8, <2>1
    <3>3. QED BY <1>7, <1>8, <1>9, <2>1, <3>1, <3>2
  <2>2. QED BY <2>1 DEF FilesBehindRows
<1>11. ASSUME NEW s \in Requests, job'[s].at = "extracted"
       PROVE  /\ job'[s].item \notin items'
              /\ owner'[job'[s].item] = job'[s].project
              /\ job'[s].project \in projects' => job'[s].item \in disk' \cup emptied'
              /\ \A t \in Requests \ {s} : job'[t].item # job'[s].item
  <2>1. CASE s = r
    <3>1. new.item \in Items BY <1>2, <1>11, <2>1 DEF Fits, JobOK, ItemPlaces
    <3>2. \A t \in Requests : job[t].item # new.item
          BY <1>2, <1>11, <2>1, <3>1, PortalAssumption DEF PortalInv, UsedOK
    <3>3. QED BY <1>2, <1>8, <1>11, <2>1, <3>2
  <2>2. CASE s # r
    <3>1. job'[s] = job[s] /\ job[s].at = "extracted" BY <1>2, <1>11, <2>2
    <3>2. job[s].item \notin items' BY <1>3, <1>8, <2>2, <3>1
    <3>3. owner'[job[s].item] = job[s].project BY <1>3, <3>1
    <3>4. job[s].project \in projects' => job[s].item \in disk' \cup emptied'
      <4>1. job[s].project \in projects' => job[s].project \in projects BY <1>3, <3>1
      <4>2. job[r].item # job[s].item BY <1>3, <2>2, <3>1
      <4>3. QED BY <1>3, <1>9, <3>1, <3>3, <4>1, <4>2
    <3>5. new.item # job[s].item
      <4>1. job[s].item \in Items \cap used /\ job[s].item \notin items BY <1>3, <3>1
      <4>2. job[r].item # job[s].item BY <1>3, <2>2, <3>1
      <4>3. job[s].item # None BY <4>1, PortalAssumption
      <4>4. QED BY <4>1, <4>2, <4>3
    <3>6. \A t \in Requests \ {s} : job'[t].item # job[s].item
      <4>1. ASSUME NEW t \in Requests \ {s} PROVE job'[t].item # job[s].item
        <5>1. CASE t = r BY <1>2, <3>5, <5>1
        <5>2. CASE t # r
          <6>1. job'[t] = job[t] BY <1>2, <5>2
          <6>2. job[t].item # job[s].item BY <1>3, <3>1
          <6>3. QED BY <6>1, <6>2
        <5>3. QED BY <5>1, <5>2
      <4>2. QED BY <4>1
    <3>7. QED BY <3>1, <3>2, <3>3, <3>4, <3>6
  <2>3. QED BY <2>1, <2>2
<1>12. ASSUME NEW s \in Requests, job'[s].at = "item gone"
       PROVE  job'[s].item \notin items'
  <2>1. CASE s = r BY <1>2, <1>12, <2>1
  <2>2. CASE s # r
    <3>1. job'[s] = job[s] /\ job[s].item \in (Items \cap used) \ items BY <1>2, <1>4, <1>12, <2>2
    <3>2. job[r].at = "extracted" => job[s].item # job[r].item BY <1>3, <2>2
    <3>3. QED BY <1>8, <3>1, <3>2
  <2>3. QED BY <2>1, <2>2
<1>13. ASSUME NEW s \in Requests, job'[s].at = "project gone"
       PROVE  job'[s].project \notin projects'
       BY <1>2, <1>5, <1>13
<1>14. ItemsOK' BY <1>11, <1>12, <1>13 DEF ItemsOK, At, Mine, Exists
<1>15. QED BY <1>10, <1>14
\* Rows and documents of the RAG service.  A document goes only when a request
\* takes a row's out to remove or replace it, and a request that took one out
\* puts another in, ends the row, or leaves it half way.
LEMMA DocStepKeeps ==
    ASSUME PortalInv, NEW r \in Requests, NEW new, Becomes(r, new), Fits(new),
           used \subseteq used', halfway \subseteq halfway',
           \A k \in Rows : docs'[k] \in {docs[k], None},
           \A g \in RagIds : rag[g] # None /\ rag'[g] = None =>
              /\ job[r].at \in Removers /\ g = job[r].rag
              /\ new.at \in OutOfRag /\ new.row = job[r].row,
           job[r].at \in OutOfRag => \/ new.at \in OutOfRag /\ new.row = job[r].row
                                     \/ job[r].row \in halfway'
                                     \/ docs'[job[r].row] = None,
           new.at \in Removers => /\ new.row \in Rows
                                  /\ docs[new.row] # None /\ docs[new.row].rag = new.rag,
           new.at \in Senders => new.rag \notin used /\ rag'[new.rag] # None
    PROVE  RagOK' /\ RagBehindRows'
<1>1. job \in [Requests -> JobStates]
      BY DEF PortalInv, TypeOK
<1>2. job'[r] = new /\ \A s \in Requests \ {r} : job'[s] = job[s] BY <1>1 DEF Becomes
<1>3. \A k \in Rows : docs'[k] # None =>
         docs[k] # None /\ docs'[k] = docs[k] /\ docs[k].rag \in used \cap RagIds
      BY DEF PortalInv, TypeOK, UsedOK
<1>4. \A s \in Requests : job[s].at \in Removers \cup Senders => job[s].rag \in used \cap RagIds
  <2>1. ASSUME NEW s \in Requests, job[s].at \in Removers \cup Senders
        PROVE  job[s].rag \in RagIds /\ job[s].rag \in used \cup {None}
        BY <2>1 DEF PortalInv, JobsOK, JobOK, UsedOK
  <2>2. None \notin RagIds BY PortalAssumption
  <2>3. QED BY <2>1, <2>2
<1>5. new.at \in Removers \cup Senders => new.rag \in RagIds BY DEF Fits, JobOK
\* Nobody has a document in hand that a sender sent, and no row either.
<1>6. \A s \in Requests : job[s].at \in Senders =>
         /\ rag[job[s].rag] # None
         /\ \A k \in Rows : docs[k] # None => docs[k].rag # job[s].rag
         /\ \A t \in Requests \ {s} :
               job[t].at \in Removers \cup Senders => job[t].rag # job[s].rag
      BY DEF PortalInv, RagOK
<1>7. \A k, l \in Rows :
         docs'[k] # None /\ docs'[l] # None /\ docs'[k].rag = docs'[l].rag => k = l
      BY <1>3 DEF PortalInv, RagOK
<1>8. ASSUME NEW s \in Requests, job'[s].at \in Removers,
             NEW k \in Rows, docs'[k] # None, docs'[k].rag = job'[s].rag
      PROVE  k = job'[s].row
  <2>1. CASE s = r BY <1>2, <1>3, <1>8, <2>1 DEF PortalInv, RagOK
  <2>2. CASE s # r BY <1>2, <1>3, <1>8, <2>2 DEF PortalInv, RagOK
  <2>3. QED BY <2>1, <2>2
<1>9. ASSUME NEW s \in Requests, job'[s].at \in Senders
      PROVE  /\ rag'[job'[s].rag] # None
             /\ \A k \in Rows : docs'[k] # None => docs'[k].rag # job'[s].rag
             /\ \A t \in Requests \ {s} :
                   job'[t].at \in Removers \cup Senders => job'[t].rag # job'[s].rag
  <2>1. CASE s = r
    <3>1. new.rag \notin used /\ rag'[new.rag] # None BY <1>2, <1>9, <2>1
    <3>2. \A k \in Rows : docs'[k] # None => docs'[k].rag # new.rag BY <1>3, <3>1
    <3>3. \A t \in Requests \ {s} :
             job[t].at \in Removers \cup Senders => job[t].rag # new.rag
          BY <1>4, <3>1
    <3>4. QED BY <1>2, <2>1, <3>1, <3>2, <3>3
  <2>2. CASE s # r
    <3>1. job'[s] = job[s] /\ job[s].at \in Senders BY <1>2, <1>9, <2>2
    <3>2. rag'[job[s].rag] # None BY <1>4, <1>6, <2>2, <3>1
    <3>3. \A k \in Rows : docs'[k] # None => docs'[k].rag # job[s].rag
          BY <1>3, <1>6, <3>1
    <3>4. new.at \in Removers \cup Senders => new.rag # job[s].rag
      <4>1. CASE new.at \in Removers BY <1>6, <3>1, <4>1
      <4>2. CASE new.at \in Senders BY <1>4, <3>1, <4>2
      <4>3. QED BY <4>1, <4>2
    <3>5. ASSUME NEW t \in Requests \ {s}, job'[t].at \in Removers \cup Senders
          PROVE  job'[t].rag # job[s].rag
      <4>1. CASE t = r BY <1>2, <3>4, <3>5, <4>1
      <4>2. CASE t # r
        <5>1. job'[t] = job[t] BY <1>2, <4>2
        <5>2. QED BY <1>6, <3>1, <3>5, <5>1
      <4>3. QED BY <4>1, <4>2
    <3>6. QED BY <3>1, <3>2, <3>3, <3>5
  <2>3. QED BY <2>1, <2>2
<1>10. RagOK' BY <1>7, <1>8, <1>9 DEF RagOK
<1>11. ASSUME NEW k \in Rows, docs'[k] # None,
              rag'[docs'[k].rag] = None, k \notin halfway'
       PROVE  \E s \in Requests : job'[s].row = k /\ job'[s].at \in OutOfRag
  <2>1. docs[k] # None /\ docs'[k] = docs[k] /\ docs[k].rag \in RagIds BY <1>3, <1>11
  <2>2. CASE rag[docs[k].rag] # None
    <3>1. /\ job[r].at \in Removers /\ docs[k].rag = job[r].rag
          /\ new.at \in OutOfRag /\ new.row = job[r].row
          BY <1>11, <2>1, <2>2
    <3>2. k = job[r].row BY <2>1, <3>1 DEF PortalInv, RagOK
    <3>3. QED BY <1>2, <3>1, <3>2
  <2>3. CASE rag[docs[k].rag] = None
    <3>1. k \notin halfway BY <1>11
    <3>2. PICK s \in Requests : job[s].row = k /\ job[s].at \in OutOfRag
          BY <2>1, <2>3, <3>1 DEF PortalInv, RagBehindRows
    <3>3. CASE s = r BY <1>2, <1>11, <3>2, <3>3
    <3>4. CASE s # r BY <1>2, <3>2, <3>4
    <3>5. QED BY <3>3, <3>4
  <2>4. QED BY <2>2, <2>3
<1>12. RagBehindRows' BY <1>11 DEF RagBehindRows
<1>13. QED BY <1>10, <1>12

\* A sender points a row at the document it sent, which nobody else knows and
\* the RAG service still has.
LEMMA PointKeeps ==
    ASSUME PortalInv, NEW r \in Requests, NEW new, Becomes(r, new),
           job[r].at \in Senders, new.at \notin OutOfRag \cup Removers \cup Senders,
           NEW k \in Rows, docs'[k].rag = job[r].rag \/ docs'[k] = None,
           At(r, "resent") => k = job[r].row,
           \A l \in Rows \ {k} : docs'[l] = docs[l],
           UNCHANGED rag, halfway \ {k} \subseteq halfway'
    PROVE  RagOK' /\ RagBehindRows'
<1>1. job \in [Requests -> JobStates]
      BY DEF PortalInv, TypeOK
<1>2. job'[r] = new /\ \A s \in Requests \ {r} : job'[s] = job[s] BY <1>1 DEF Becomes
<1>3. /\ rag[job[r].rag] # None
      /\ \A l \in Rows : docs[l] # None => docs[l].rag # job[r].rag
      /\ \A s \in Requests \ {r} : job[s].at \in Removers \cup Senders => job[s].rag # job[r].rag
      BY DEF PortalInv, RagOK
<1>4. \A l, m \in Rows :
         docs'[l] # None /\ docs'[m] # None /\ docs'[l].rag = docs'[m].rag => l = m
  <2>1. ASSUME NEW l \in Rows, docs'[l] # None, l # k
        PROVE  docs'[l] = docs[l] /\ docs'[l].rag # job[r].rag
        BY <1>3, <2>1
  <2>2. \A l, m \in Rows : docs[l] # None /\ docs[m] # None /\ docs[l].rag = docs[m].rag => l = m
        BY DEF PortalInv, RagOK
  <2>3. QED BY <2>1, <2>2
<1>5. ASSUME NEW s \in Requests, job'[s].at \in Removers,
             NEW l \in Rows, docs'[l] # None, docs'[l].rag = job'[s].rag
      PROVE  l = job'[s].row
  <2>1. s # r BY <1>2, <1>5
  <2>2. job'[s] = job[s] /\ job[s].at \in Removers BY <1>2, <1>5, <2>1
  <2>3. l # k BY <1>3, <1>5, <2>1, <2>2
  <2>4. QED BY <1>5, <2>2, <2>3 DEF PortalInv, RagOK
<1>6. ASSUME NEW s \in Requests, job'[s].at \in Senders
      PROVE  /\ rag'[job'[s].rag] # None
             /\ \A l \in Rows : docs'[l] # None => docs'[l].rag # job'[s].rag
             /\ \A t \in Requests \ {s} :
                   job'[t].at \in Removers \cup Senders => job'[t].rag # job'[s].rag
  <2>1. s # r BY <1>2, <1>6
  <2>2. job'[s] = job[s] /\ job[s].at \in Senders BY <1>2, <1>6, <2>1
  <2>3. /\ rag[job[s].rag] # None
        /\ \A l \in Rows : docs[l] # None => docs[l].rag # job[s].rag
        /\ \A t \in Requests \ {s} : job[t].at \in Removers \cup Senders => job[t].rag # job[s].rag
        BY <2>2 DEF PortalInv, RagOK
  <2>4. \A l \in Rows : docs'[l] # None => docs'[l].rag # job[s].rag
        BY <1>3, <2>1, <2>2, <2>3
  <2>5. \A t \in Requests \ {s} :
           job'[t].at \in Removers \cup Senders => t # r /\ job'[t] = job[t]
        BY <1>2
  <2>6. QED BY <2>2, <2>3, <2>4, <2>5
<1>7. RagOK' BY <1>4, <1>5, <1>6 DEF RagOK
<1>8. ASSUME NEW l \in Rows, docs'[l] # None, rag'[docs'[l].rag] = None, l \notin halfway'
      PROVE  \E s \in Requests : job'[s].row = l /\ job'[s].at \in OutOfRag
  <2>1. l # k /\ docs'[l] = docs[l] BY <1>3, <1>8
  <2>2. PICK s \in Requests : job[s].row = l /\ job[s].at \in OutOfRag
        BY <1>8, <2>1 DEF PortalInv, RagBehindRows
  <2>3. s # r BY <2>1, <2>2 DEF At, OutOfRag, Senders
  <2>4. QED BY <1>2, <2>2, <2>3
<1>9. RagBehindRows' BY <1>8 DEF RagBehindRows
<1>10. QED BY <1>7, <1>9
-----------------------------------------------------------------------------
(* How a request begins, goes on and ends.                                 *)

Known(new) ==
    /\ new \in JobStates /\ JobOK(new)
    /\ {new.project, new.item, new.rag} \subseteq used \cup {None}

LEMMA KnownFits ==
    ASSUME NEW new, Known(new), used \subseteq used'
    PROVE  Fits(new)
BY DEF Known, Fits

LEMMA Typed ==
    ASSUME PortalInv
    PROVE  /\ projects \subseteq Projects /\ roots \subseteq Projects
           /\ owner \in [Items -> Projects \cup {None}]
           /\ items \subseteq Items /\ disk \subseteq Items
           /\ count \in [Projects -> Int]
           /\ docs \in [Rows -> [project : Projects, rag : RagIds] \cup {None}]
           /\ copies \subseteq [project : Projects, row : Rows, file : Files]
           /\ rag \in [RagIds -> Files \cup {None}]
           /\ job \in [Requests -> JobStates]
           /\ \A i \in items : owner[i] \in projects
           /\ \A k \in Rows : docs[k] # None => docs[k].project \in projects
           /\ emptied \subseteq Items /\ halfway \subseteq Rows
           /\ aborts \in 0 .. MaxAborts
           /\ projects \cup items \subseteq used
           /\ \A k \in Rows : docs[k] # None => docs[k].rag \in used
BY DEF PortalInv, TypeOK, UsedOK

LEMMA Knows ==
    ASSUME PortalInv, NEW r \in Requests
    PROVE  Known(job[r])
BY DEF PortalInv, TypeOK, JobsOK, UsedOK, Known

LEMMA EndIs ==
    ASSUME NEW r \in Requests, End(r)
    PROVE  Becomes(r, Idle) /\ Known(Idle) /\ Idle.at = "idle" /\ Idle.item = None
<1>1. Idle \in JobStates BY DEF Idle, JobStates, Places
<1>2. JobOK(Idle) BY DEF Idle, JobOK, ItemPlaces, OutOfRag, Removers, Senders
<1>3. QED BY <1>1, <1>2 DEF End, Becomes, Known, Idle

LEMMA GoToIs ==
    ASSUME PortalInv, NEW r \in Requests, NEW place \in Places, GoTo(r, place),
           ~At(r, "idle"), place \in ItemPlaces => job[r].at \in ItemPlaces,
           place \in OutOfRag => job[r].at \in OutOfRag \cup Removers,
           place \notin Removers \cup Senders \cup {"doc made"}
    PROVE  LET new == [job[r] EXCEPT !.at = place]
           IN  /\ Becomes(r, new) /\ Known(new)
               /\ new.at = place /\ new.item = job[r].item /\ new.row = job[r].row
               /\ new.project = job[r].project
<1> DEFINE new == [job[r] EXCEPT !.at = place]
<1>1. job \in [Requests -> JobStates] /\ Known(job[r]) BY Typed, Knows
<1>2. /\ new.at = place /\ new.item = job[r].item /\ new.row = job[r].row
      /\ new.project = job[r].project /\ new.rag = job[r].rag /\ new \in JobStates
      BY <1>1 DEF JobStates
<1>3. Becomes(r, new) BY <1>1 DEF GoTo, Becomes
<1> HIDE DEF new
<1>4. JobOK(new)
  <2>1. JobOK(job[r]) BY <1>1 DEF Known
  <2>2. new.project \in Projects BY <1>2, <2>1 DEF JobOK, At
  <2>3. place \in ItemPlaces => new.item \in Items BY <1>2, <2>1 DEF JobOK
  <2>4. place \in OutOfRag => new.row \in Rows BY <1>2, <2>1 DEF JobOK
  <2>5. QED BY <1>2, <2>2, <2>3, <2>4 DEF JobOK, Senders
<1>5. Known(new) BY <1>1, <1>2, <1>4 DEF Known
<1>6. QED BY <1>2, <1>3, <1>5 DEF new

\* The record a request begins with.
Opening(place, what) ==
    [at |-> place, project |-> what.project, item |-> what.item, row |-> what.row,
     rag |-> what.rag, file |-> what.file]

LEMMA OfProjectIs ==
    ASSUME NEW p \in Projects,
           NEW place \in {"project made", "dropping project", "uploading", "sending"}
    PROVE  LET new == Opening(place, OfProject(p))
           IN  /\ new \in JobStates /\ JobOK(new) /\ new.at = place
               /\ new.project = p /\ new.item = None /\ new.rag = None
<1> DEFINE new == Opening(place, OfProject(p))
<1>1. new = [at |-> place, project |-> p, item |-> None, row |-> None, rag |-> None,
             file |-> None]
      BY DEF Opening, OfProject, Idle
<1> HIDE DEF new
<1>2. new \in JobStates BY <1>1 DEF JobStates, Places
<1>3. JobOK(new) BY <1>1 DEF JobOK, ItemPlaces, OutOfRag, Removers, Senders
<1>4. new.at = place /\ new.project = p /\ new.item = None /\ new.rag = None BY <1>1
<1>5. QED BY <1>2, <1>3, <1>4 DEF new

LEMMA OfItemIs ==
    ASSUME PortalInv, NEW i \in items, NEW place \in {"node", "dropping item"}
    PROVE  LET new == Opening(place, OfItem(i))
           IN  Known(new) /\ new.at = place /\ new.item = i
<1> DEFINE new == Opening(place, OfItem(i))
<1>1. new = [at |-> place, project |-> owner[i], item |-> i, row |-> None, rag |-> None,
             file |-> None]
      BY DEF Opening, OfItem, Idle
<1> HIDE DEF new
<1>2. owner[i] \in projects /\ owner[i] \in Projects /\ i \in Items /\ {owner[i], i} \subseteq used
      BY Typed
<1>3. new \in JobStates BY <1>1, <1>2 DEF JobStates, Places
<1>4. JobOK(new) BY <1>1, <1>2 DEF JobOK, OutOfRag, Removers, Senders
<1>5. /\ new.at = place /\ new.item = i
      /\ {new.project, new.item, new.rag} \subseteq used \cup {None}
      BY <1>1, <1>2
<1>6. QED BY <1>3, <1>4, <1>5 DEF Known, new

LEMMA OfRowIs ==
    ASSUME PortalInv, NEW k \in Rows, docs[k] # None, NEW place \in Removers
    PROVE  LET new == Opening(place, OfRow(k))
           IN  /\ Known(new) /\ new.at = place /\ new.item = None
               /\ new.row = k /\ new.rag = docs[k].rag
<1> DEFINE new == Opening(place, OfRow(k))
<1>1. new = [at |-> place, project |-> docs[k].project, item |-> None, row |-> k,
             rag |-> docs[k].rag, file |-> None]
      BY DEF Opening, OfRow, Idle
<1> HIDE DEF new
<1>2. /\ docs[k].project \in projects /\ docs[k].project \in Projects
      /\ docs[k].rag \in RagIds /\ {docs[k].project, docs[k].rag} \subseteq used
      BY Typed
<1>3. new \in JobStates BY <1>1, <1>2 DEF JobStates, Places, Removers
<1>4. JobOK(new) BY <1>1, <1>2 DEF JobOK, ItemPlaces, Removers
<1>5. QED BY <1>1, <1>2, <1>3, <1>4 DEF Known, new

LEMMA BeginIs ==
    ASSUME NEW r \in Requests, NEW place, NEW what, Begin(r, place, what)
    PROVE  job[r].at = "idle" /\ Becomes(r, Opening(place, what))
BY DEF Begin, At, Becomes, Opening

-----------------------------------------------------------------------------
(* Steps that leave one of the two halves alone.                           *)

ItemHalf == <<projects, owner, items, disk, emptied>>
Settling == {"extracted", "item gone", "project gone"}

LEMMA ItemHalfStays ==
    ASSUME PortalInv, NEW r \in Requests, NEW new, Becomes(r, new), Fits(new), TypeOK',
           used \subseteq used', UNCHANGED ItemHalf,
           new.at \notin Settling, new.item \in {None, job[r].item} \cup items
    PROVE  ItemsOK' /\ FilesBehindRows'
BY ItemStepKeeps DEF ItemHalf, Settling

LEMMA DocHalfStays ==
    ASSUME PortalInv, NEW r \in Requests, NEW new, Becomes(r, new), Fits(new),
           used \subseteq used', UNCHANGED <<docs, rag, halfway>>,
           job[r].at \notin OutOfRag, new.at \notin Removers \cup Senders
    PROVE  RagOK' /\ RagBehindRows'
BY DocStepKeeps

\* A step that changes neither.
LEMMA PlainKeeps ==
    ASSUME PortalInv, NEW r \in Requests, NEW new, Becomes(r, new), Known(new),
           UNCHANGED <<ItemHalf, docs, rag, halfway, used, aborts>>,
           count' \in [Projects -> Int], roots' \subseteq Projects,
           copies' \subseteq [project : Projects, row : Rows, file : Files],
           job[r].at \notin OutOfRag,
           new.at \notin Settling \cup Removers \cup Senders,
           new.item \in {None, job[r].item} \cup items
    PROVE  PortalInv'
<1>1. Fits(new) BY KnownFits
<1>2. job' \in [Requests -> JobStates] /\ JobsOK' /\ UsedOK'
      BY <1>1, Typed, JobStepKeeps DEF ItemHalf
<1>3. TypeOK' BY <1>2, Typed DEF TypeOK, ItemHalf
<1>4. ItemsOK' /\ FilesBehindRows' BY <1>1, <1>3, ItemHalfStays
<1>5. RagOK' /\ RagBehindRows' BY <1>1, DocHalfStays
<1>6. QED BY <1>2, <1>3, <1>4, <1>5 DEF PortalInv
-----------------------------------------------------------------------------
(* Projects.                                                               *)

LEMMA CreateRowKeeps ==
    ASSUME PortalInv, NEW r \in Requests, CreateRow(r)
    PROVE  PortalInv'
<1>1. PICK p \in Projects \ used :
         /\ projects' = projects \cup {p}
         /\ used' = used \cup {p}
         /\ Begin(r, "project made", OfProject(p))
         /\ UNCHANGED <<owner, items, count, docs, storage, rag, history>>
      BY DEF CreateRow
<1> DEFINE new == Opening("project made", OfProject(p))
<1>2. /\ Becomes(r, new) /\ new \in JobStates /\ JobOK(new) /\ new.at = "project made"
      /\ new.project = p /\ new.item = None /\ new.rag = None
      BY <1>1, BeginIs, OfProjectIs
<1> HIDE DEF new
<1>3. Fits(new) BY <1>1, <1>2 DEF Fits
<1>4. job' \in [Requests -> JobStates] /\ JobsOK' /\ UsedOK'
      BY <1>1, <1>2, <1>3, Typed, JobStepKeeps
<1>5. TypeOK' BY <1>1, <1>4, Typed DEF TypeOK, storage, history
<1>6. ItemsOK' /\ FilesBehindRows'
      BY <1>1, <1>2, <1>3, <1>5, ItemStepKeeps DEF storage, history
<1>7. job[r].at = "idle" BY <1>1 DEF Begin, At
<1>8. RagOK' /\ RagBehindRows'
      BY <1>1, <1>2, <1>3, <1>7, DocHalfStays DEF history, OutOfRag, Removers, Senders
<1>9. QED BY <1>4, <1>5, <1>6, <1>8 DEF PortalInv

LEMMA CreateRootKeeps ==
    ASSUME PortalInv, NEW r \in Requests, CreateRoot(r)
    PROVE  PortalInv'
<1>1. job[r].at = "project made" /\ End(r) BY DEF CreateRoot, At
<1>2. Mine(r) \in Projects BY <1>1, Knows DEF Known, JobOK, Mine
<1>3. roots' \subseteq Projects BY <1>2, Typed DEF CreateRoot, WithRoot
<1>4. UNCHANGED <<ItemHalf, docs, rag, halfway, used, aborts, count, copies>>
      BY DEF CreateRoot, ItemHalf, rows, history
<1>5. QED BY <1>1, <1>3, <1>4, EndIs, Typed, PlainKeeps
          DEF OutOfRag, Settling, Removers, Senders

\* The lookups of a project.
LEMMA FindsProject ==
    ASSUME PortalInv, NEW r \in Requests, NEW p \in projects,
           NEW place \in {"dropping project", "uploading", "sending"},
           Begin(r, place, OfProject(p)),
           UNCHANGED <<rows, owner, storage, rag, used, history>>
    PROVE  PortalInv'
<1>1. p \in Projects /\ p \in used BY Typed
<1> DEFINE new == Opening(place, OfProject(p))
<1>2. /\ Becomes(r, new) /\ new \in JobStates /\ JobOK(new) /\ new.at = place
      /\ new.project = p /\ new.item = None /\ new.rag = None
  <2>1. place \in {"project made", "dropping project", "uploading", "sending"} OBVIOUS
  <2>2. Becomes(r, new) BY BeginIs
  <2>3. QED BY <1>1, <2>1, <2>2, OfProjectIs
<1> HIDE DEF new
<1>3. Known(new) BY <1>1, <1>2 DEF Known
<1>4. job[r].at = "idle" BY DEF Begin, At
<1>5. UNCHANGED <<ItemHalf, docs, rag, halfway, used, aborts, count, copies, roots>>
      BY DEF ItemHalf, rows, storage, history
<1>6. QED BY <1>2, <1>3, <1>4, <1>5, Typed, PlainKeeps
          DEF OutOfRag, Settling, Removers, Senders

LEMMA DropProjectRowKeeps ==
    ASSUME PortalInv, NEW r \in Requests, DropProjectRow(r)
    PROVE  PortalInv'
<1>1. job[r].at = "dropping project" BY DEF DropProjectRow, At
<1>2. PICK new : /\ Becomes(r, new) /\ Known(new)
                 /\ new.at \in {"idle", "project gone"} /\ new.item \in {None, job[r].item}
                 /\ new.at = "project gone" => new.project = Mine(r)
  <2>1. CASE Exists(r)
    <3>1. GoTo(r, "project gone") BY <2>1 DEF DropProjectRow
    <3>2. "project gone" \in Places BY DEF Places
    <3> DEFINE to == [job[r] EXCEPT !.at = "project gone"]
    <3>3. /\ Becomes(r, to) /\ Known(to)
          /\ to.at = "project gone" /\ to.item = job[r].item /\ to.project = job[r].project
          BY <1>1, <3>1, <3>2, GoToIs DEF At, ItemPlaces, OutOfRag, Removers, Senders
    <3> HIDE DEF to
    <3>4. QED BY <3>3 DEF Mine
  <2>2. CASE ~Exists(r)
    <3>1. End(r) BY <2>2 DEF DropProjectRow
    <3>2. QED BY <3>1, EndIs
  <2>3. QED BY <2>1, <2>2
<1>3. /\ projects' = projects \ {Mine(r)} /\ items' = items \ ItemsOf(Mine(r))
      /\ \A k \in Rows : docs'[k] = IF docs[k] # None /\ docs[k].project = Mine(r)
                                    THEN None ELSE docs[k]
      /\ docs' \in [Rows -> [project : Projects, rag : RagIds] \cup {None}]
      /\ UNCHANGED <<count, owner, roots, disk, copies, rag, used, emptied, halfway, aborts>>
      BY Typed DEF DropProjectRow, storage, history
<1>4. Fits(new) BY <1>2, <1>3, KnownFits
<1>5. job' \in [Requests -> JobStates] /\ JobsOK' /\ UsedOK'
      BY <1>2, <1>3, <1>4, Typed, JobStepKeeps
<1>6. TypeOK'
  <2>1. \A i \in items' : owner'[i] \in projects' BY <1>3, Typed DEF ItemsOf
  <2>2. \A k \in Rows : docs'[k] # None => docs'[k].project \in projects' BY <1>3, Typed
  <2>3. QED BY <1>3, <1>5, <2>1, <2>2, Typed DEF TypeOK
<1>7. ItemsOK' /\ FilesBehindRows' BY <1>2, <1>3, <1>4, <1>6, ItemStepKeeps
<1>8. RagOK' /\ RagBehindRows'
      BY <1>1, <1>2, <1>3, <1>4, DocStepKeeps DEF OutOfRag, Removers, Senders
<1>9. QED BY <1>5, <1>6, <1>7, <1>8 DEF PortalInv

LEMMA DropProjectRootKeeps ==
    ASSUME PortalInv, NEW r \in Requests, DropProjectRoot(r)
    PROVE  PortalInv'
<1>1. /\ job[r].at = "project gone" /\ End(r)
      /\ roots' = roots \ {Mine(r)} /\ disk' = {i \in disk : owner[i] # Mine(r)}
      /\ copies' = {c \in copies : c.project # Mine(r)}
      /\ UNCHANGED <<projects, items, count, docs, owner, rag, used, emptied, halfway, aborts>>
      BY DEF DropProjectRoot, At, rows, history
<1>2. /\ Becomes(r, Idle) /\ Known(Idle) /\ Idle.at = "idle" /\ Idle.item = None
      BY <1>1, EndIs
<1>3. Fits(Idle) BY <1>1, <1>2, KnownFits
<1>4. job' \in [Requests -> JobStates] /\ JobsOK' /\ UsedOK'
      BY <1>1, <1>2, <1>3, Typed, JobStepKeeps
<1>5. TypeOK' BY <1>1, <1>4, Typed DEF TypeOK
<1>6. Mine(r) \notin projects BY <1>1 DEF PortalInv, ItemsOK, At, Exists
<1>7. ItemsOK' /\ FilesBehindRows' BY <1>1, <1>2, <1>3, <1>5, <1>6, ItemStepKeeps
<1>8. RagOK' /\ RagBehindRows'
      BY <1>1, <1>2, <1>3, DocHalfStays DEF OutOfRag, Removers, Senders
<1>9. QED BY <1>4, <1>5, <1>7, <1>8 DEF PortalInv
-----------------------------------------------------------------------------
(* Items.                                                                  *)

LEMMA ExtractKeeps ==
    ASSUME PortalInv, NEW r \in Requests, Extract(r)
    PROVE  PortalInv'
<1>1. PICK i \in Items \ used :
         /\ used' = used \cup {i}
         /\ owner' = [owner EXCEPT ![i] = Mine(r)]
         /\ \/ /\ \/ disk' = disk \cup {i} /\ emptied' = emptied
                  \/ disk' = disk /\ emptied' = emptied \cup {i}
               /\ job' = [job EXCEPT ![r].at = "extracted", ![r].item = i]
            \/ /\ disk' \in {disk, disk \cup {i}}
               /\ End(r)
               /\ UNCHANGED emptied
      BY DEF Extract
<1>2. /\ job[r].at = "uploading" /\ roots' = roots \cup {Mine(r)}
      /\ UNCHANGED <<projects, items, count, docs, copies, rag, halfway, aborts>>
      BY DEF Extract, At, WithRoot, rows
<1>3. Known(job[r]) /\ job \in [Requests -> JobStates] BY Knows, Typed
<1>4. Mine(r) \in Projects BY <1>2, <1>3 DEF Known, JobOK, Mine
<1> DEFINE made == [job[r] EXCEPT !.at = "extracted", !.item = i]
<1>5. /\ made.at = "extracted" /\ made.item = i /\ made.project = Mine(r)
      /\ made.rag = job[r].rag /\ made \in JobStates
      BY <1>3 DEF JobStates, Mine, Known, Places
<1>6. job' = [job EXCEPT ![r].at = "extracted", ![r].item = i] => Becomes(r, made)
      BY <1>3 DEF Becomes
<1> HIDE DEF made
<1>7. JobOK(made) BY <1>4, <1>5 DEF JobOK, OutOfRag, Removers, Senders
<1>8. Fits(made) BY <1>1, <1>3, <1>5, <1>7 DEF Fits, Known, Mine
<1>9. PICK new : /\ Becomes(r, new) /\ Fits(new)
                 /\ \/ new = Idle
                    \/ new = made /\ i \in disk' \cup emptied'
  <2>1. CASE End(r) BY <1>1, <2>1, EndIs, KnownFits
  <2>2. CASE ~End(r) BY <1>1, <1>6, <1>8, <2>2
  <2>3. QED BY <2>1, <2>2
<1>10. new.at # "extracted" => new.item = None
       BY <1>5, <1>9 DEF Idle
<1>11. new.at = "extracted" => new.item = i /\ i \in disk' \cup emptied' /\ new.project = Mine(r)
       BY <1>5, <1>9 DEF Idle
<1>12. new.at \in {"idle", "extracted"} BY <1>5, <1>9 DEF Idle
<1>13. job' \in [Requests -> JobStates] /\ JobsOK' /\ UsedOK'
       BY <1>1, <1>2, <1>9, Typed, JobStepKeeps
<1>14. \A j \in Items \cap used : owner'[j] = owner[j] BY <1>1, Typed
<1>15. TypeOK'
  <2>1. \A j \in items' : owner'[j] \in projects' BY <1>2, <1>14, Typed
  <2>2. owner' \in [Items -> Projects \cup {None}] BY <1>1, <1>4, Typed
  <2>3. disk' \subseteq Items /\ emptied' \subseteq Items
    <3>1. disk \subseteq Items /\ emptied \subseteq Items BY Typed
    <3>2. QED BY <1>1, <3>1
  <2>4. QED BY <1>2, <1>4, <1>13, <2>1, <2>2, <2>3, Typed DEF TypeOK
<1>16. owner'[i] = Mine(r) BY <1>1, Typed
<1>17. ItemsOK' /\ FilesBehindRows'
  <2>1. emptied \subseteq emptied' \cup disk' /\ disk \ disk' = {} BY <1>1
  <2>2. QED
        BY <1>1, <1>2, <1>9, <1>10, <1>11, <1>12, <1>14, <1>15, <1>16, <2>1, ItemStepKeeps
<1>18. RagOK' /\ RagBehindRows'
       BY <1>1, <1>2, <1>9, <1>12, DocHalfStays DEF OutOfRag, Removers, Senders
<1>19. QED BY <1>13, <1>15, <1>17, <1>18 DEF PortalInv

LEMMA CreateItemKeeps ==
    ASSUME PortalInv, NEW r \in Requests, CreateItem(r)
    PROVE  PortalInv'
<1>1. /\ job[r].at = "extracted"
      /\ UNCHANGED <<projects, count, docs, owner, roots, disk, copies, rag, used,
                     emptied, halfway, aborts>>
      BY DEF CreateItem, At, storage, history
<1>2. CASE ~Exists(r)
  <2>1. End(r) /\ items' = items BY <1>2 DEF CreateItem
  <2>2. UNCHANGED <<ItemHalf, docs, rag, halfway, used, aborts>> BY <1>1, <2>1 DEF ItemHalf
  <2>3. QED BY <1>1, <2>1, <2>2, EndIs, Typed, PlainKeeps
            DEF OutOfRag, Settling, Removers, Senders
<1>3. CASE Exists(r)
  <2> DEFINE new == [job[r] EXCEPT !.at = "item made"]
  <2>1. GoTo(r, "item made") /\ items' = items \cup {job[r].item} BY <1>3 DEF CreateItem
  <2>2. "item made" \in Places BY DEF Places
  <2>3. /\ Becomes(r, new) /\ Known(new) /\ new.at = "item made" /\ new.item = job[r].item
        BY <1>1, <2>1, <2>2, GoToIs DEF At, ItemPlaces, OutOfRag, Removers, Senders
  <2> HIDE DEF new
  <2>4. Fits(new) BY <1>1, <2>3, KnownFits
  <2>5. /\ job[r].item \in Items /\ job[r].item \in used
        /\ owner[job[r].item] \in projects
    <3>1. job[r].item \in Items /\ job[r].item \in used \cup {None}
          BY <1>1, Knows DEF Known, JobOK, ItemPlaces
    <3>2. owner[job[r].item] = Mine(r) BY <1>1 DEF PortalInv, ItemsOK, At
    <3>3. QED BY <1>3, <3>1, <3>2, PortalAssumption DEF Exists
  <2>6. job' \in [Requests -> JobStates] /\ JobsOK' /\ UsedOK'
        BY <1>1, <2>1, <2>3, <2>4, <2>5, Typed, JobStepKeeps
  <2>7. TypeOK'
    <3>1. \A i \in items' : owner'[i] \in projects' BY <1>1, <2>1, <2>5, Typed
    <3>2. QED BY <1>1, <2>1, <2>5, <2>6, <3>1, Typed DEF TypeOK
  <2>8. ItemsOK' /\ FilesBehindRows'
        BY <1>1, <1>3, <2>1, <2>3, <2>4, <2>7, ItemStepKeeps DEF At
  <2>9. RagOK' /\ RagBehindRows'
        BY <1>1, <2>3, <2>4, DocHalfStays DEF OutOfRag, Removers, Senders
  <2>10. QED BY <2>6, <2>7, <2>8, <2>9 DEF PortalInv
<1>4. QED BY <1>2, <1>3

\* A step of an upload that changes at most the counter.
LEMMA GoesOn ==
    ASSUME PortalInv, NEW r \in Requests, NEW place \in {"counted", "manifest"},
           job[r].at \in {"item made", "counted", "files gone"},
           End(r) \/ GoTo(r, place), count' \in [Projects -> Int],
           UNCHANGED <<projects, items, docs, owner, storage, rag, used, history>>
    PROVE  PortalInv'
<1>1. PICK new : /\ Becomes(r, new) /\ Known(new) /\ new.item \in {None, job[r].item}
                 /\ new.at \in {"idle", place}
  <2>1. CASE End(r) BY <2>1, EndIs
  <2>2. CASE GoTo(r, place)
    <3> DEFINE to == [job[r] EXCEPT !.at = place]
    <3>1. place \in Places BY DEF Places
    <3>2. Becomes(r, to) /\ Known(to) /\ to.at = place /\ to.item = job[r].item
          BY <2>2, <3>1, GoToIs DEF At, ItemPlaces, OutOfRag, Removers, Senders
    <3> HIDE DEF to
    <3>3. QED BY <3>2
  <2>3. QED BY <2>1, <2>2
<1>2. UNCHANGED <<ItemHalf, docs, rag, halfway, used, aborts, copies, roots>>
      BY DEF ItemHalf, storage, history
<1>3. QED BY <1>1, <1>2, Typed, PlainKeeps DEF OutOfRag, Settling, Removers, Senders

LEMMA CountItemKeeps ==
    ASSUME PortalInv, NEW r \in Requests, CountItem(r)
    PROVE  PortalInv'
<1>1. count' \in [Projects -> Int]
  <2>1. CASE Exists(r)
    <3>1. Mine(r) \in Projects /\ count[Mine(r)] \in Int BY <2>1, Typed DEF Exists
    <3>2. count' = [count EXCEPT ![Mine(r)] = @ + 1] BY <2>1 DEF CountItem
    <3>3. count[Mine(r)] + 1 \in Int BY <3>1
    <3>4. QED BY <3>2, <3>3, Typed
  <2>2. CASE ~Exists(r) BY <2>2, Typed DEF CountItem
  <2>3. QED BY <2>1, <2>2
<1>2. QED BY <1>1, GoesOn DEF CountItem, At

LEMMA ManifestFindKeeps ==
    ASSUME PortalInv, NEW r \in Requests, ManifestFind(r)
    PROVE  PortalInv'
BY Typed, GoesOn DEF ManifestFind, At, rows

LEMMA UncountItemKeeps ==
    ASSUME PortalInv, NEW r \in Requests, UncountItem(r)
    PROVE  PortalInv'
<1>1. count' \in [Projects -> Int]
  <2>1. CASE Exists(r)
    <3>1. Mine(r) \in Projects /\ count[Mine(r)] \in Int BY <2>1, Typed DEF Exists
    <3>2. count' = [count EXCEPT ![Mine(r)] = @ - 1] BY <2>1 DEF UncountItem
    <3>3. count[Mine(r)] - 1 \in Int BY <3>1
    <3>4. QED BY <3>2, <3>3, Typed
  <2>2. CASE ~Exists(r) BY <2>2, Typed DEF UncountItem
  <2>3. QED BY <2>1, <2>2
<1>2. QED BY <1>1, GoesOn DEF UncountItem, At

\* The lookups of an item.
LEMMA FindsItem ==
    ASSUME PortalInv, NEW r \in Requests, NEW i \in items, NEW place \in {"node", "dropping item"},
           Begin(r, place, OfItem(i)),
           UNCHANGED <<rows, owner, storage, rag, used, history>>
    PROVE  PortalInv'
<1> DEFINE new == Opening(place, OfItem(i))
<1>1. Becomes(r, new) /\ job[r].at = "idle" BY BeginIs
<1>2. Known(new) /\ new.at = place /\ new.item = i BY OfItemIs
<1> HIDE DEF new
<1>3. UNCHANGED <<ItemHalf, docs, rag, halfway, used, aborts, count, copies, roots>>
      BY DEF ItemHalf, rows, storage, history
<1>4. QED BY <1>1, <1>2, <1>3, Typed, PlainKeeps
          DEF OutOfRag, Settling, Removers, Senders

\* A node is made or deleted.
LEMMA NodeKeeps ==
    ASSUME PortalInv, NEW r \in Requests, MakeNode(r) \/ DeleteNode(r)
    PROVE  PortalInv'
<1>1. /\ job[r].at \in {"manifest", "node"} /\ End(r)
      /\ UNCHANGED <<projects, items, count, docs, owner, copies, rag, used, halfway, aborts>>
      BY DEF MakeNode, DeleteNode, At, rows
<1>2. Mine(r) \in Projects /\ job[r].item \in Items
      BY <1>1, Knows DEF Known, JobOK, ItemPlaces, Mine
<1>3. /\ roots' \subseteq Projects /\ disk' \subseteq Items /\ emptied' \subseteq Items
      /\ emptied \subseteq emptied' \cup disk' /\ disk \ disk' \subseteq emptied'
  <2>1. CASE MakeNode(r) BY <1>2, <2>1, Typed DEF MakeNode, WithRoot
  <2>2. CASE DeleteNode(r)
    <3>1. roots' = roots BY <2>2 DEF DeleteNode
    <3>2. CASE UNCHANGED <<disk, emptied>> BY <3>1, <3>2, Typed
    <3>3. CASE ~UNCHANGED <<disk, emptied>>
      <4>1. PICK name \in NewNames(Mine(r)) :
               /\ disk' = (disk \ {job[r].item}) \cup ({name} \ {None})
               /\ emptied' = (emptied \cup {job[r].item}) \ {name}
            BY <2>2, <3>3 DEF DeleteNode
      <4>2. name = None \/ name \in Items \ disk BY DEF NewNames
      <4>3. None \notin Items BY PortalAssumption
      <4>4. disk \subseteq Items /\ emptied \subseteq Items /\ roots \subseteq Projects
            BY Typed
      <4>5. name # job[r].item \/ job[r].item \notin disk BY <1>2, <4>2, <4>3
      <4>6. QED BY <1>2, <3>1, <4>1, <4>2, <4>3, <4>4, <4>5
    <3>4. QED BY <3>2, <3>3
  <2>3. QED BY <2>1, <2>2
<1>4. /\ Becomes(r, Idle) /\ Known(Idle) /\ Idle.at = "idle" /\ Idle.item = None
      BY <1>1, EndIs
<1>5. Fits(Idle) BY <1>1, <1>4, KnownFits
<1>6. job' \in [Requests -> JobStates] /\ JobsOK' /\ UsedOK'
      BY <1>1, <1>4, <1>5, Typed, JobStepKeeps
<1>7. TypeOK' BY <1>1, <1>3, <1>6, Typed DEF TypeOK
<1>8. ItemsOK' /\ FilesBehindRows' BY <1>1, <1>3, <1>4, <1>5, <1>7, ItemStepKeeps
<1>9. RagOK' /\ RagBehindRows'
      BY <1>1, <1>4, <1>5, DocHalfStays DEF OutOfRag, Removers, Senders
<1>10. QED BY <1>6, <1>7, <1>8, <1>9 DEF PortalInv

LEMMA DropItemRowKeeps ==
    ASSUME PortalInv, NEW r \in Requests, DropItemRow(r)
    PROVE  PortalInv'
<1>1. /\ job[r].at = "dropping item" /\ items' = items \ {job[r].item}
      /\ UNCHANGED <<projects, count, docs, owner, roots, disk, copies, rag, used,
                     emptied, halfway, aborts>>
      BY DEF DropItemRow, At, storage, history
<1>2. PICK new : /\ Becomes(r, new) /\ Known(new)
                 /\ new.at \in {"idle", "item gone"} /\ new.item \in {None, job[r].item}
                 /\ new.at = "item gone" => new.item = job[r].item
  <2>1. CASE End(r) BY <2>1, EndIs
  <2>2. CASE GoTo(r, "item gone")
    <3> DEFINE to == [job[r] EXCEPT !.at = "item gone"]
    <3>1. "item gone" \in Places BY DEF Places
    <3>2. Becomes(r, to) /\ Known(to) /\ to.at = "item gone" /\ to.item = job[r].item
          BY <1>1, <2>2, <3>1, GoToIs DEF At, ItemPlaces, OutOfRag, Removers, Senders
    <3> HIDE DEF to
    <3>3. QED BY <3>2
  <2>3. QED BY <2>1, <2>2 DEF DropItemRow
<1>3. Fits(new) BY <1>1, <1>2, KnownFits
<1>4. job' \in [Requests -> JobStates] /\ JobsOK' /\ UsedOK'
      BY <1>1, <1>2, <1>3, Typed, JobStepKeeps
<1>5. TypeOK' BY <1>1, <1>4, Typed DEF TypeOK
<1>6. ItemsOK' /\ FilesBehindRows' BY <1>1, <1>2, <1>3, <1>5, ItemStepKeeps
<1>7. RagOK' /\ RagBehindRows'
      BY <1>1, <1>2, <1>3, DocHalfStays DEF OutOfRag, Removers, Senders
<1>8. QED BY <1>4, <1>5, <1>6, <1>7 DEF PortalInv

LEMMA DropItemFilesKeeps ==
    ASSUME PortalInv, NEW r \in Requests, DropItemFiles(r)
    PROVE  PortalInv'
<1> DEFINE new == [job[r] EXCEPT !.at = "files gone"]
<1>1. /\ job[r].at = "item gone" /\ GoTo(r, "files gone") /\ disk' = disk \ {job[r].item}
      /\ UNCHANGED <<projects, items, count, docs, owner, roots, copies, rag, used,
                     emptied, halfway, aborts>>
      BY DEF DropItemFiles, At, rows, history
<1>2. "files gone" \in Places BY DEF Places
<1>3. Becomes(r, new) /\ Known(new) /\ new.at = "files gone" /\ new.item = job[r].item
      BY <1>1, <1>2, GoToIs DEF At, ItemPlaces, OutOfRag, Removers, Senders
<1> HIDE DEF new
<1>4. Fits(new) BY <1>1, <1>3, KnownFits
<1>5. job' \in [Requests -> JobStates] /\ JobsOK' /\ UsedOK'
      BY <1>1, <1>3, <1>4, Typed, JobStepKeeps
<1>6. TypeOK' BY <1>1, <1>5, Typed DEF TypeOK
<1>7. ItemsOK' /\ FilesBehindRows' BY <1>1, <1>3, <1>4, <1>6, ItemStepKeeps DEF At
<1>8. RagOK' /\ RagBehindRows'
      BY <1>1, <1>3, <1>4, DocHalfStays DEF OutOfRag, Removers, Senders
<1>9. QED BY <1>5, <1>6, <1>7, <1>8 DEF PortalInv

-----------------------------------------------------------------------------
(* Knowledge documents.                                                    *)

LEMMA SendToRagKeeps ==
    ASSUME PortalInv, NEW r \in Requests, SendToRag(r)
    PROVE  PortalInv'
<1>1. /\ job[r].at = "sending"
      /\ UNCHANGED <<projects, items, count, docs, owner, roots, disk, copies,
                     emptied, halfway, aborts>>
      BY DEF SendToRag, At, rows, storage, history
<1>2. CASE End(r) /\ UNCHANGED <<rag, used>>
  <2>1. UNCHANGED <<ItemHalf, docs, rag, halfway, used, aborts>> BY <1>1, <1>2 DEF ItemHalf
  <2>2. QED BY <1>1, <1>2, <2>1, EndIs, Typed, PlainKeeps
            DEF OutOfRag, Settling, Removers, Senders
<1>3. ASSUME NEW f \in Files, NEW g \in RagIds, RagAccepts(f, g),
             \/ job' = [job EXCEPT ![r].at = "sent", ![r].rag = g, ![r].file = f]
             \/ End(r)
      PROVE  PortalInv'
  <2> DEFINE sent == [job[r] EXCEPT !.at = "sent", !.rag = g, !.file = f]
  <2>1. Known(job[r]) /\ job \in [Requests -> JobStates] BY Knows, Typed
  <2>2. /\ sent.at = "sent" /\ sent.rag = g /\ sent.file = f /\ sent.item = job[r].item
        /\ sent.project = job[r].project /\ sent \in JobStates
        BY <2>1 DEF JobStates, Known, Places
  <2>3. job' = [job EXCEPT ![r].at = "sent", ![r].rag = g, ![r].file = f] => Becomes(r, sent)
        BY <2>1 DEF Becomes
  <2> HIDE DEF sent
  <2>4. /\ g \notin used /\ rag' = [rag EXCEPT ![g] = f] /\ used' = used \cup {g}
        BY <1>3 DEF RagAccepts
  <2>5. JobOK(sent) BY <1>1, <2>1, <2>2 DEF JobOK, Known, ItemPlaces, OutOfRag, Removers
  <2>6. Fits(sent) BY <2>1, <2>2, <2>4, <2>5 DEF Fits, Known
  <2>7. PICK new \in {Idle, sent} : Becomes(r, new) /\ Fits(new)
    <3>1. CASE End(r) BY <2>4, <3>1, EndIs, KnownFits
    <3>2. CASE ~End(r) BY <1>3, <2>3, <2>6, <3>2
    <3>3. QED BY <3>1, <3>2
  <2>8. /\ new.item \in {None, job[r].item} /\ new.at \in {"idle", "sent"}
        /\ new.at = "sent" => new.rag = g
        BY <2>2, <2>7 DEF Idle
  <2>9. job' \in [Requests -> JobStates] /\ JobsOK' /\ UsedOK'
        BY <1>1, <2>4, <2>7, Typed, JobStepKeeps
  <2>10. /\ rag' \in [RagIds -> Files \cup {None}] /\ rag'[g] # None
         /\ \A h \in RagIds : rag[h] # None => rag'[h] # None
         BY <2>4, Typed, PortalAssumption
  <2>11. TypeOK' BY <1>1, <2>9, <2>10, Typed DEF TypeOK
  <2>12. ItemsOK' /\ FilesBehindRows'
         BY <1>1, <2>4, <2>7, <2>8, <2>11, ItemHalfStays DEF ItemHalf, Settling
  <2>13. RagOK' /\ RagBehindRows'
         BY <1>1, <2>4, <2>7, <2>8, <2>10, DocStepKeeps DEF OutOfRag, Removers, Senders
  <2>14. QED BY <2>9, <2>11, <2>12, <2>13 DEF PortalInv
<1>4. QED BY <1>2, <1>3 DEF SendToRag
LEMMA CreateDocKeeps ==
    ASSUME PortalInv, NEW r \in Requests, CreateDoc(r)
    PROVE  PortalInv'
<1>1. /\ job[r].at = "sent"
      /\ UNCHANGED <<projects, items, count, owner, roots, disk, copies, rag,
                     emptied, halfway, aborts>>
      BY DEF CreateDoc, At, storage, history
<1>2. CASE ~Exists(r)
  <2>1. End(r) /\ UNCHANGED <<used, docs>> BY <1>2 DEF CreateDoc
  <2>2. UNCHANGED <<ItemHalf, docs, rag, halfway, used, aborts>> BY <1>1, <2>1 DEF ItemHalf
  <2>3. QED BY <1>1, <2>1, <2>2, EndIs, Typed, PlainKeeps
            DEF OutOfRag, Settling, Removers, Senders
<1>3. CASE Exists(r)
  <2>1. PICK k \in Rows \ used :
           /\ used' = used \cup {k}
           /\ docs' = [docs EXCEPT ![k] = [project |-> Mine(r), rag |-> job[r].rag]]
           /\ job' = [job EXCEPT ![r].at = "doc made", ![r].row = k]
        BY <1>3 DEF CreateDoc
  <2> DEFINE new == [job[r] EXCEPT !.at = "doc made", !.row = k]
  <2>2. Known(job[r]) /\ job \in [Requests -> JobStates] BY Knows, Typed
  <2>3. /\ new.at = "doc made" /\ new.row = k /\ new.rag = job[r].rag /\ new.item = job[r].item
        /\ new.project = job[r].project /\ new.file = job[r].file /\ new \in JobStates
        BY <2>2 DEF JobStates, Known, Places
  <2>4. Becomes(r, new) BY <2>1, <2>2 DEF Becomes
  <2> HIDE DEF new
  <2>5. JobOK(new)
        BY <1>1, <2>2, <2>3 DEF JobOK, Known, ItemPlaces, Removers, Senders
  <2>6. Fits(new) BY <2>1, <2>2, <2>3, <2>5 DEF Fits, Known
  <2>7. /\ job[r].rag \in RagIds /\ job[r].rag \in used /\ Mine(r) \in projects
        /\ Mine(r) \in Projects
    <3>1. job[r].rag \in RagIds /\ job[r].rag \in used \cup {None}
          BY <1>1, <2>2 DEF Known, JobOK, Senders
    <3>2. QED BY <1>3, <3>1, Typed, PortalAssumption DEF Exists
  <2>8. /\ docs' \in [Rows -> [project : Projects, rag : RagIds] \cup {None}]
        /\ docs'[k].rag = job[r].rag /\ docs'[k].project = Mine(r)
        /\ \A l \in Rows \ {k} : docs'[l] = docs[l]
        BY <2>1, <2>7, Typed
  <2>9. job' \in [Requests -> JobStates] /\ JobsOK' /\ UsedOK'
    <3>1. \A l \in Rows : docs'[l] # None => docs'[l].rag \in used' BY <2>1, <2>7, <2>8, Typed
    <3>2. QED BY <1>1, <2>1, <2>4, <2>6, <3>1, Typed, JobStepKeeps
  <2>10. TypeOK'
    <3>1. \A l \in Rows : docs'[l] # None => docs'[l].project \in projects'
          BY <1>1, <2>7, <2>8, Typed
    <3>2. QED BY <1>1, <2>8, <2>9, <3>1, Typed DEF TypeOK
  <2>11. ItemsOK' /\ FilesBehindRows'
         BY <1>1, <2>1, <2>3, <2>4, <2>6, <2>10, ItemHalfStays DEF ItemHalf, Settling
  <2>12. RagOK' /\ RagBehindRows'
         BY <1>1, <2>3, <2>4, <2>8, PointKeeps DEF At, OutOfRag, Removers, Senders
  <2>13. QED BY <2>9, <2>10, <2>11, <2>12 DEF PortalInv
<1>4. QED BY <1>2, <1>3

LEMMA SaveCopyKeeps ==
    ASSUME PortalInv, NEW r \in Requests, SaveCopy(r)
    PROVE  PortalInv'
<1>1. job[r].at = "doc made" /\ End(r) BY DEF SaveCopy, At
<1>2. Mine(r) \in Projects /\ job[r].row \in Rows /\ job[r].file \in Files
      BY <1>1, Knows DEF Known, JobOK, Mine
<1>3. roots' \subseteq Projects /\ copies' \subseteq [project : Projects, row : Rows, file : Files]
  <2> DEFINE copy == [project |-> Mine(r), row |-> job[r].row, file |-> job[r].file]
  <2>1. copy \in [project : Projects, row : Rows, file : Files] BY <1>2
  <2>2. \/ roots' = roots \cup {Mine(r)} /\ copies' = copies \cup {copy}
        \/ UNCHANGED <<copies, roots>>
        BY DEF SaveCopy, WithRoot
  <2> HIDE DEF copy
  <2>3. QED BY <1>2, <2>1, <2>2, Typed
<1>4. UNCHANGED <<ItemHalf, docs, rag, halfway, used, aborts, count>>
      BY DEF SaveCopy, ItemHalf, rows, history
<1>5. QED BY <1>1, <1>3, <1>4, EndIs, Typed, PlainKeeps
          DEF OutOfRag, Settling, Removers, Senders

\* A step that changes documents of the RAG service, rows, or what is half way.
LEMMA DocMoves ==
    ASSUME PortalInv, NEW r \in Requests, NEW new, Becomes(r, new), Known(new),
           UNCHANGED <<ItemHalf, count, roots, copies>>,
           used \subseteq used', RagOK', RagBehindRows',
           docs' \in [Rows -> [project : Projects, rag : RagIds] \cup {None}],
           \A k \in Rows : docs'[k] # None =>
              docs'[k].project \in projects /\ docs'[k].rag \in used,
           rag' \in [RagIds -> Files \cup {None}], halfway' \subseteq Rows,
           aborts' \in 0 .. MaxAborts,
           new.at \notin Settling, new.item \in {None, job[r].item}
    PROVE  PortalInv'
<1>1. Fits(new) BY KnownFits
<1>2. job' \in [Requests -> JobStates] /\ JobsOK' /\ UsedOK'
  <2>1. projects' \cup items' \subseteq used' BY Typed DEF ItemHalf
  <2>2. QED BY <1>1, <2>1, JobStepKeeps
<1>3. TypeOK' BY <1>2, Typed DEF TypeOK, ItemHalf
<1>4. ItemsOK' /\ FilesBehindRows' BY <1>1, <1>3, ItemHalfStays
<1>5. QED BY <1>2, <1>3, <1>4 DEF PortalInv

\* The lookups of a document.
LEMMA FindsDoc ==
    ASSUME PortalInv, NEW r \in Requests, NEW k \in Rows, docs[k] # None,
           NEW place \in Removers, Begin(r, place, OfRow(k)),
           UNCHANGED <<rows, owner, storage, rag, used, history>>
    PROVE  PortalInv'
<1> DEFINE new == Opening(place, OfRow(k))
<1>1. Becomes(r, new) /\ job[r].at = "idle" BY BeginIs
<1>2. /\ Known(new) /\ new.at = place /\ new.item = None /\ new.row = k
      /\ new.rag = docs[k].rag
      BY OfRowIs
<1> HIDE DEF new
<1>3. UNCHANGED <<ItemHalf, docs, rag, halfway, used, aborts, count, copies, roots>>
      BY DEF ItemHalf, rows, storage, history
<1>4. Fits(new) BY <1>2, <1>3, KnownFits
<1>5. RagOK' /\ RagBehindRows'
      BY <1>1, <1>2, <1>3, <1>4, DocStepKeeps DEF OutOfRag, Removers, Senders
<1>6. QED BY <1>1, <1>2, <1>3, <1>5, Typed, DocMoves DEF Settling, Removers

\* A document is taken out of the RAG service, or is not.
LEMMA TakesOut ==
    ASSUME PortalInv, NEW r \in Requests, NEW place \in {"doc out of rag", "waited"},
           job[r].at \in Removers, RagDelete(job[r].rag), GoTo(r, place),
           UNCHANGED <<rows, owner, storage, used, history>>
    PROVE  PortalInv'
<1> DEFINE new == [job[r] EXCEPT !.at = place]
<1>1. place \in Places BY DEF Places, OutOfRag
<1>2. /\ Becomes(r, new) /\ Known(new) /\ new.at = place /\ new.item = job[r].item
      /\ new.row = job[r].row
      BY <1>1, GoToIs DEF At, ItemPlaces, OutOfRag, Removers, Senders
<1> HIDE DEF new
<1>3. UNCHANGED <<ItemHalf, docs, halfway, used, aborts, count, copies, roots>>
      BY DEF ItemHalf, rows, storage, history
<1>4. /\ rag' \in [RagIds -> Files \cup {None}]
      /\ \A g \in RagIds : rag[g] # None /\ rag'[g] = None => g = job[r].rag
      BY Typed DEF RagDelete
<1>5. Fits(new) BY <1>2, <1>3, KnownFits
<1>6. RagOK' /\ RagBehindRows'
      BY <1>2, <1>3, <1>4, <1>5, DocStepKeeps DEF OutOfRag, Removers, Senders
<1>7. QED BY <1>2, <1>3, <1>4, <1>6, Typed, DocMoves DEF Settling

LEMMA DropDocRowKeeps ==
    ASSUME PortalInv, NEW r \in Requests, DropDocRow(r)
    PROVE  PortalInv'
<1>1. /\ job[r].at = "doc out of rag" /\ End(r) /\ docs' = [docs EXCEPT ![job[r].row] = None]
      /\ UNCHANGED <<ItemHalf, count, roots, copies, rag, used, halfway, aborts>>
      BY DEF DropDocRow, At, ItemHalf, storage, history
<1>2. job[r].row \in Rows BY <1>1, Knows DEF Known, JobOK, OutOfRag
<1>3. /\ docs' \in [Rows -> [project : Projects, rag : RagIds] \cup {None}]
      /\ docs'[job[r].row] = None /\ \A k \in Rows : docs'[k] \in {docs[k], None}
      BY <1>1, <1>2, Typed
<1>4. /\ Becomes(r, Idle) /\ Known(Idle) /\ Idle.at = "idle" /\ Idle.item = None
      BY <1>1, EndIs
<1>5. Fits(Idle) BY <1>1, <1>4, KnownFits
<1>6. RagOK' /\ RagBehindRows'
      BY <1>1, <1>3, <1>4, <1>5, DocStepKeeps DEF Removers, Senders
<1>7. \A k \in Rows : docs'[k] # None => docs'[k].project \in projects /\ docs'[k].rag \in used
      BY <1>3, Typed
<1>8. QED BY <1>1, <1>3, <1>4, <1>6, <1>7, Typed, DocMoves DEF Settling

LEMMA ReindexSendKeeps ==
    ASSUME PortalInv, NEW r \in Requests, ReindexSend(r)
    PROVE  PortalInv'
<1>1. /\ job[r].at = "waited"
      /\ UNCHANGED <<projects, items, count, docs, owner, roots, disk, copies, emptied, aborts>>
      BY DEF ReindexSend, At, rows, storage
<1>2. Known(job[r]) /\ job \in [Requests -> JobStates] /\ job[r].row \in Rows
      BY <1>1, Knows, Typed DEF Known, JobOK, OutOfRag
<1>3. CASE End(r) /\ halfway' = halfway \cup {job[r].row} /\ UNCHANGED <<rag, used>>
  <2>1. /\ Becomes(r, Idle) /\ Known(Idle) /\ Idle.at = "idle" /\ Idle.item = None
        BY <1>3, EndIs
  <2>2. Fits(Idle) BY <1>3, <2>1, KnownFits
  <2>3. RagOK' /\ RagBehindRows'
        BY <1>1, <1>3, <2>1, <2>2, DocStepKeeps DEF Removers, Senders
  <2>4. UNCHANGED <<ItemHalf, count, roots, copies>> BY <1>1 DEF ItemHalf
  <2>5. QED BY <1>1, <1>2, <1>3, <2>1, <2>3, <2>4, Typed, DocMoves DEF Settling
<1>4. ASSUME NEW f \in Files, NEW g \in RagIds, RagAccepts(f, g),
             \/ /\ job' = [job EXCEPT ![r].at = "resent", ![r].rag = g]
                /\ UNCHANGED halfway
             \/ End(r) /\ halfway' = halfway \cup {job[r].row}
      PROVE  PortalInv'
  <2> DEFINE sent == [job[r] EXCEPT !.at = "resent", !.rag = g]
  <2>1. /\ sent.at = "resent" /\ sent.rag = g /\ sent.row = job[r].row /\ sent.item = job[r].item
        /\ sent.project = job[r].project /\ sent \in JobStates
        BY <1>2 DEF JobStates, Known, Places, OutOfRag
  <2>2. job' = [job EXCEPT ![r].at = "resent", ![r].rag = g] => Becomes(r, sent)
        BY <1>2 DEF Becomes
  <2> HIDE DEF sent
  <2>3. /\ g \notin used /\ rag' = [rag EXCEPT ![g] = f] /\ used' = used \cup {g}
        BY <1>4 DEF RagAccepts
  <2>4. JobOK(sent) BY <1>1, <1>2, <2>1 DEF JobOK, Known, ItemPlaces
  <2>5. Fits(sent) BY <1>2, <2>1, <2>3, <2>4 DEF Fits, Known
  <2>6. PICK new : /\ Becomes(r, new) /\ Fits(new)
                   /\ \/ new = Idle /\ halfway' = halfway \cup {job[r].row}
                      \/ new = sent /\ halfway' = halfway
    <3>1. CASE End(r) /\ halfway' = halfway \cup {job[r].row}
          BY <2>3, <3>1, EndIs, KnownFits
    <3>2. CASE /\ job' = [job EXCEPT ![r].at = "resent", ![r].rag = g]
               /\ UNCHANGED halfway
          BY <2>2, <2>5, <3>2
    <3>3. QED BY <1>4, <3>1, <3>2
  <2>7. /\ new.item \in {None, job[r].item} /\ new.at \in {"idle", "resent"}
        /\ new.at = "resent" => new.rag = g
        /\ \/ new.at = "resent" /\ new.row = job[r].row
           \/ job[r].row \in halfway'
        /\ halfway \subseteq halfway' /\ halfway' \subseteq Rows
        BY <1>2, <2>1, <2>6, Typed DEF Idle
  <2>8. job' \in [Requests -> JobStates] /\ JobsOK' /\ UsedOK'
        BY <1>1, <2>3, <2>6, Typed, JobStepKeeps
  <2>9. /\ rag' \in [RagIds -> Files \cup {None}] /\ rag'[g] # None
        /\ \A h \in RagIds : rag[h] # None => rag'[h] # None
        BY <2>3, Typed, PortalAssumption
  <2>10. TypeOK' BY <1>1, <2>7, <2>8, <2>9, Typed DEF TypeOK
  <2>11. ItemsOK' /\ FilesBehindRows'
         BY <1>1, <2>3, <2>6, <2>7, <2>10, ItemHalfStays DEF ItemHalf, Settling
  <2>12. RagOK' /\ RagBehindRows'
         BY <1>1, <2>3, <2>6, <2>7, <2>9, DocStepKeeps DEF OutOfRag, Removers, Senders
  <2>13. QED BY <2>8, <2>10, <2>11, <2>12 DEF PortalInv
<1>5. QED
  <2>1. ASSUME NEW c \in copies, NEW g \in RagIds, RagAccepts(c.file, g),
               \/ /\ job' = [job EXCEPT ![r].at = "resent", ![r].rag = g]
                  /\ UNCHANGED halfway
               \/ End(r) /\ halfway' = halfway \cup {job[r].row}
        PROVE  PortalInv'
    <3>1. c.file \in Files BY Typed
    <3>2. QED BY <1>4, <2>1, <3>1
  <2>2. QED BY <1>3, <2>1 DEF ReindexSend

LEMMA RepointKeeps ==
    ASSUME PortalInv, NEW r \in Requests, Repoint(r)
    PROVE  PortalInv'
<1>1. /\ job[r].at = "resent" /\ End(r) /\ halfway' = halfway \ {job[r].row}
      /\ docs' = [k \in Rows |-> IF k = job[r].row /\ docs[k] # None
                                 THEN [docs[k] EXCEPT !.rag = job[r].rag] ELSE docs[k]]
      /\ UNCHANGED <<ItemHalf, count, roots, copies, rag, used, aborts>>
      BY DEF Repoint, At, ItemHalf, storage
<1>2. /\ job[r].row \in Rows /\ job[r].rag \in RagIds /\ job[r].rag \in used
  <2>1. job[r].row \in Rows /\ job[r].rag \in RagIds /\ job[r].rag \in used \cup {None}
        BY <1>1, Knows DEF Known, JobOK, OutOfRag, Senders
  <2>2. QED BY <2>1, PortalAssumption
<1>3. /\ docs' \in [Rows -> [project : Projects, rag : RagIds] \cup {None}]
      /\ docs'[job[r].row].rag = job[r].rag \/ docs'[job[r].row] = None
      /\ \A k \in Rows \ {job[r].row} : docs'[k] = docs[k]
      /\ \A k \in Rows : docs'[k] # None => docs[k] # None /\ docs'[k].project = docs[k].project
      BY <1>1, <1>2, Typed
<1>4. /\ Becomes(r, Idle) /\ Known(Idle) /\ Idle.at = "idle" /\ Idle.item = None
      BY <1>1, EndIs
<1>5. RagOK' /\ RagBehindRows'
      BY <1>1, <1>2, <1>3, <1>4, PointKeeps DEF OutOfRag, Removers, Senders
<1>6. \A k \in Rows : docs'[k] # None => docs'[k].project \in projects /\ docs'[k].rag \in used
      BY <1>2, <1>3, Typed
<1>7. QED BY <1>1, <1>3, <1>4, <1>5, <1>6, Typed, DocMoves DEF Settling

LEMMA AbortKeeps ==
    ASSUME PortalInv, NEW r \in Requests, Abort(r)
    PROVE  PortalInv'
<1>1. /\ End(r) /\ aborts < MaxAborts /\ aborts' = aborts + 1
      /\ halfway' = IF job[r].at \in OutOfRag THEN halfway \cup {job[r].row} ELSE halfway
      /\ UNCHANGED <<ItemHalf, count, docs, roots, copies, rag, used>>
      BY DEF Abort, ItemHalf, rows, storage
<1>2. job[r].at \in OutOfRag => job[r].row \in Rows BY Knows DEF Known, JobOK
<1>3. /\ Becomes(r, Idle) /\ Known(Idle) /\ Idle.at = "idle" /\ Idle.item = None
      BY <1>1, EndIs
<1>4. Fits(Idle) BY <1>1, <1>3, KnownFits
<1>5. /\ halfway \subseteq halfway' /\ halfway' \subseteq Rows
      /\ job[r].at \in OutOfRag => job[r].row \in halfway'
      BY <1>1, <1>2, Typed
<1>6. RagOK' /\ RagBehindRows'
      BY <1>1, <1>3, <1>4, <1>5, DocStepKeeps DEF Removers, Senders
<1>7. aborts' \in 0 .. MaxAborts BY <1>1, Typed, PortalAssumption
<1>8. QED BY <1>1, <1>3, <1>5, <1>6, <1>7, Typed, DocMoves DEF Settling

-----------------------------------------------------------------------------
(* The theorems.                                                           *)

LEMMA PortalBegins == Init => PortalInv
<1> SUFFICES ASSUME Init PROVE PortalInv OBVIOUS
<1>1. /\ projects = {} /\ items = {} /\ disk = {} /\ \A k \in Rows : docs[k] = None
      /\ \A r \in Requests : job[r] = Idle
      BY DEF Init
<1>2. Idle \in JobStates /\ Idle.at = "idle" /\ JobOK(Idle)
      /\ Idle.project = None /\ Idle.item = None /\ Idle.rag = None
      BY DEF Idle, JobStates, Places, JobOK, ItemPlaces, OutOfRag, Removers, Senders
<1>3. TypeOK BY <1>1, <1>2, PortalAssumption DEF Init, TypeOK
<1>4. JobsOK /\ UsedOK BY <1>1, <1>2 DEF JobsOK, UsedOK
<1>5. ItemsOK /\ RagOK BY <1>1, <1>2 DEF ItemsOK, RagOK, At, Removers, Senders
<1>6. FilesBehindRows /\ RagBehindRows BY <1>1 DEF FilesBehindRows, RagBehindRows
<1>7. QED BY <1>3, <1>4, <1>5, <1>6 DEF PortalInv

LEMMA PortalSteps == PortalInv /\ [Next]_vars => PortalInv'
<1> SUFFICES ASSUME PortalInv, [Next]_vars PROVE PortalInv' OBVIOUS
<1>1. ASSUME NEW r \in Requests, ProjectStep(r) PROVE PortalInv'
  <2>1. CASE DropProjectFind(r) BY <2>1, FindsProject DEF DropProjectFind
  <2>2. QED BY <1>1, <2>1, CreateRowKeeps, CreateRootKeeps, DropProjectRowKeeps,
               DropProjectRootKeeps DEF ProjectStep
<1>2. ASSUME NEW r \in Requests, ItemStep(r) PROVE PortalInv'
  <2>1. CASE UploadFind(r) BY <2>1, FindsProject DEF UploadFind
  <2>2. CASE NodeFind(r) BY <2>2, FindsItem DEF NodeFind
  <2>3. CASE DropItemFind(r) BY <2>3, FindsItem DEF DropItemFind
  <2>4. QED BY <1>2, <2>1, <2>2, <2>3, ExtractKeeps, CreateItemKeeps, CountItemKeeps,
               ManifestFindKeeps, NodeKeeps, DropItemRowKeeps, DropItemFilesKeeps,
               UncountItemKeeps DEF ItemStep
<1>3. ASSUME NEW r \in Requests, DocStep(r) PROVE PortalInv'
  <2>1. CASE SendFind(r) BY <2>1, FindsProject DEF SendFind
  <2>2. CASE DropDocFind(r)
    <3>1. "dropping doc" \in Removers BY DEF Removers
    <3>2. QED BY <2>2, <3>1, FindsDoc DEF DropDocFind
  <2>3. CASE ReindexFind(r)
    <3>1. "reindexing" \in Removers BY DEF Removers
    <3>2. QED BY <2>3, <3>1, FindsDoc DEF ReindexFind
  <2>4. CASE DropDocRag(r) BY <2>4, TakesOut DEF DropDocRag, At, Removers
  <2>5. CASE ReindexDelete(r) BY <2>5, TakesOut DEF ReindexDelete, At, Removers
  <2>6. QED BY <1>3, <2>1, <2>2, <2>3, <2>4, <2>5, SendToRagKeeps, CreateDocKeeps, SaveCopyKeeps,
               DropDocRowKeeps, ReindexSendKeeps, RepointKeeps DEF DocStep
<1>4. CASE UNCHANGED vars
  <2>1. TypeOK' /\ JobsOK' /\ UsedOK' /\ FilesBehindRows' /\ RagBehindRows'
        BY <1>4 DEF vars, PortalInv, TypeOK, JobsOK, UsedOK, FilesBehindRows,
                    RagBehindRows
  <2>2. ItemsOK' BY <1>4 DEF vars, PortalInv, ItemsOK, At, Mine, Exists
  <2>3. RagOK' BY <1>4 DEF vars, PortalInv, RagOK
  <2>4. QED BY <2>1, <2>2, <2>3 DEF PortalInv
<1>5. ASSUME NEW r \in Requests, Abort(r) PROVE PortalInv' BY <1>5, AbortKeeps
<1>6. CASE Next
  <2>1. PICK r \in Requests : ProjectStep(r) \/ ItemStep(r) \/ DocStep(r) \/ Abort(r)
        BY <1>6, Zenon DEF Next
  <2>2. QED BY <2>1, <1>1, <1>2, <1>3, <1>5, Zenon
<1>7. QED BY <1>4, <1>6, Zenon

\* The conjuncts of PortalInv hold whatever requests run side by side, and
\* wherever an awaited call raises or the process stops.
THEOREM PortalInvariant == Spec => []PortalInv
BY PortalBegins, PortalSteps, PTL DEF Spec

\* A listed item has its directory, for any number of uploads, deletions of
\* items and of projects, and edits at the same time (project.controller.ts).
THEOREM FilesStayBehindRows == Spec => []FilesBehindRows
<1>1. PortalInv => FilesBehindRows BY DEF PortalInv
<1>2. QED BY <1>1, PortalInvariant, PTL

\* A knowledge document points at one the RAG service has unless a removal or a
\* reindex of it is on its way or stopped half way, for any number of them at
\* the same time, two of the same document included (knowledge.controller.ts).
THEOREM RagStaysBehindRows == Spec => []RagBehindRows
<1>1. PortalInv => RagBehindRows BY DEF PortalInv
<1>2. QED BY <1>1, PortalInvariant, PTL
=============================================================================
