------------------------ MODULE MCDocumentIngestion ------------------------
(* Instances of DocumentIngestion for TLC. *)
EXTENDS DocumentIngestion, TLC

CONSTANTS n1, n2, p1    \* p1: a path that _secure_filename turns into n1

\* Every name is its own sanitised form.
CleanNames == [n \in {n1, n2} |-> n]

\* Two spellings of one name.
PathNames == (p1 :> n1) @@ (n1 :> n1)

AllFaults == Operations
NoFaults == {}
IndexFaults == {"parse", "milvusAdd", "milvusDelete"}

Symmetry == Permutations(Docs) \union Permutations(Hashes)
=============================================================================
