SPECIFICATION Spec
CONSTANTS
  None = None
  Tasks = {t1, t2}
  Docs = {1, 2}
  Contents <- OneLong
  Options <- ChunkAndContext
  SourceLine = 2
SYMMETRY TaskSymmetry
INVARIANTS
  ChunksCoverText
  EntriesOfOneCall
  ContextWithinBudget
