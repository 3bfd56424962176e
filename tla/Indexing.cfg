SPECIFICATION IndexingSpec
CONSTANTS
  Sources = {s1, s2}
  Hashes = {h1, h2}
  Renders = {r1, r2}
  Gens = {g1, g2}
  Workers = {w1, w2}
  MaxFaults = 1
  None = None
  Torn = Torn
  Files <- EveryFile
  LargeFrom = 2
  NoParent = NoParent
SYMMETRY Symmetry
INVARIANTS
  ActiveHasPages
  SectionsFollowHeadings
  TextIsKept
  ChunksCoverSections
  LateSpansAreOwn
PROPERTIES
  StoresAreCatalogues
CHECK_DEADLOCK FALSE
