------------------------------ MODULE MCRetrieval ------------------------------
(***************************************************************************)
(* What a query searches, for TLC: GraphRetriever (two models of one       *)
(* dimension and a third of another), QueryPipeline, whose graph leg it    *)
(* is, and CollectionMigration, which says what stands in the collection   *)
(* the dense leg opens.  In QueryPipeline the indexes rest, and the three  *)
(* share no variable: each is explored from an initial state of the others.*)
(***************************************************************************)
EXTENDS GraphRetriever, QueryPipeline, CollectionMigration, TLC

CONSTANTS m512, n512, m1024, p1, p2, p3, p4, k1

TwoDimensions == {m512, m1024}
DimOf == [m \in Models |-> IF m = m1024 THEN 1024 ELSE 512]

\* p1 and p2 are chunks of one section; p4 is a summary.
Parents3 == (p1 :> "A") @@ (p2 :> "A") @@ (p3 :> "B") @@ (p4 :> "S")
TwoSources == (p1 :> "x.pdf") @@ (p2 :> "x.pdf") @@ (p3 :> "y.pdf") @@ (p4 :> "y.pdf")

Everywhere(docs) == [asked \in {"q", "r"} |-> IF asked = "q" THEN docs ELSE {p3}]
Index ==
    [dense |-> Everywhere({p1}), native |-> Everywhere({p1, p3}),
     bm25 |-> Everywhere({p1, p3}), graph |-> Everywhere({p3}),
     ppr |-> Everywhere({p2}), raptor |-> Everywhere({p4}), visual |-> Everywhere({})]

NoFilter == [kind |-> "none", admits |-> Passages, sources |-> {}]
OfX == [kind |-> "source_set", admits |-> {p1, p2}, sources |-> {"x.pdf"}]
\* source == " x.pdf", which Milvus compares as it stands and the parser strips.
Padded == [kind |-> "source_set", admits |-> {}, sources |-> {"x.pdf"}]
\* source == "x.pdf" and page == 1
Expression == [kind |-> "milvus_expression", admits |-> {p1}, sources |-> {}]
\* source == "x.pdf" or source == "y.pdf", which is read as one odd source.
Either == [kind |-> "source_set", admits |-> Passages, sources |-> {"x or y"}]
Invalid == [kind |-> "invalid", admits |-> {}, sources |-> {}]

Asking(asked, filter, type, action) ==
    [query |-> asked, filter |-> filter, type |-> type, action |-> action]

FewAsks ==
    {Asking("q", NoFilter, "none", "none"), Asking("q", Expression, "none", "none"),
     Asking("q", Expression, "multi_hop", "none"), Asking("q", OfX, "multi_hop", "none"),
     Asking("r", OfX, "exact", "enable_raptor"), Asking("q", OfX, "semantic", "none"),
     Asking("q", Padded, "multi_hop", "none"),
     Asking("q", Either, "global_summary", "none"),
     Asking("q", Invalid, "comparison", "none")}

Full == Legs \union {"native", "heads", "reranker", "comparison", "ppr", "raptor"}
FewSettings == {Full, Full \ {"native"}, Full \ {"heads", "graph"}, Full \ {"dense", "ppr"}}
FewOutages == {{}, {"encoder"}, {"milvus", "bm25", "raptor"}}

\* Two embedding models of one schema, and the second with sparse vectors.
OldModel == [source |-> "old", dim |-> 512, sparse |-> FALSE]
ThreeEmbeddings == {OldModel, [OldModel EXCEPT !.source = "new"],
                    [OldModel EXCEPT !.source = "new", !.sparse = TRUE]}

NotSwapped == model = m512
NotAsked == PipelineInit /\ setting = Full
FirstNamed == CorpusInit /\ server.name = k1

GraphMoves == NotAsked /\ FirstNamed /\ Next /\ UNCHANGED <<pipelineVars, corpusVars>>
PipelineMoves == Init /\ NotSwapped /\ FirstNamed /\ PipelineNext /\ UNCHANGED <<vars, corpusVars>>
CorpusMoves == Init /\ NotSwapped /\ NotAsked /\ CorpusNext /\ UNCHANGED <<vars, pipelineVars>>

RetrievalInit == Init /\ PipelineInit /\ FirstNamed
RetrievalSpec ==
    RetrievalInit
    /\ [][GraphMoves \/ PipelineMoves \/ CorpusMoves]_<<vars, pipelineVars, corpusVars>>
=============================================================================
