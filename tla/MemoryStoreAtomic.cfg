SPECIFICATION Spec
CONSTANTS
  None = None
  Callers = {c1, c2, c3}
  Ids = {id1, id2}
  Transcripts = {empty, h1}
  Empty = empty
  Metadata = {m1}
SYMMETRY CallerSymmetry
PROPERTY Atomic
