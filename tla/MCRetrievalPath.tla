--------------------------- MODULE MCRetrievalPath ---------------------------
(* Instances of RetrievalPath for TLC. *)
EXTENDS RetrievalPath, TLC

CONSTANTS n1, n2

CleanNames == [n \in {n1, n2} |-> n]
NoFaults == {}
\* Every operation but the one whose failure skips the bump behind it.
BumpingFaults == Operations \ {"bm25Add"}
NativeReadFaults == {"dense", "rank"}
LegacyReadFaults == {"hydrate", "rank"}

Symmetry == Permutations(Docs) \union Permutations(Hashes) \union Permutations(RawNames)
ReaderSymmetry == Permutations(Readers)
=============================================================================
