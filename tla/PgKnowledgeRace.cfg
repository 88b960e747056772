SPECIFICATION Spec
CONSTANTS
  None = None
  short = short
  long = long
  Tasks = {t1, t2}
  Docs = {1, 2}
  Contents <- TwoContents
  Parts <- OneOrTwoParts
  MaxParts = 2
  Dims = {n1, n2}
SYMMETRY Symmetry
INVARIANTS
  DuplicatesReported
