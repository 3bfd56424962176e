SPECIFICATION RetrievalSpec
CONSTANTS
  m512 = m512
  n512 = n512
  m1024 = m1024
  Sources = {s1, s2}
  Models <- TwoDimensions
  Dim <- DimOf
  Writers = {w1, w2}
  Queries = {q1, q2}
  MaxWrites = 2
  MaxQueries = 2
  MaxReloads = 1
  MaxSwaps = 1
  MaxFails = 1
  None = None
  p1 = p1
  p2 = p2
  p3 = p3
  p4 = p4
  Calls = {c1, c2}
  Asks <- FewAsks
  Settings <- FewSettings
  Outages <- FewOutages
  Finds <- Index
  ParentOf <- Parents3
  SourceOf <- TwoSources
  Final = 1
  Reservoir = 2
  MaxRaises = 1
  Uploads = {u1, u2}
  Markdowns = {u2}
  Sections = {1, 2}
  k1 = k1
  Collections = {k1, k2}
  Embeddings <- ThreeEmbeddings
  FirstModel <- OldModel
  MaxCommands = 1
  MaxRestarts = 1
  MaxOutages = 1
  Gone = Gone
INVARIANTS
  MatrixIsFresh
  CachedIsCurrent
  FilterHolds
  EvidenceIsOwn
  OneLegIsEnough
  VectorsMatch
  VerifiedIsWhole
PROPERTIES OthersUntouched
CHECK_DEADLOCK FALSE
