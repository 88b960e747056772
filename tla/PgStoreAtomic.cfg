SPECIFICATION Spec
CONSTANTS
  None = None
  m1 = m1
  m2 = m2
  Callers = {c1, c2, c3}
  Ids = {id1}
  Messages = {m1, m2}
  Transcripts <- SomeTranscripts
  Metadata = {d1}
  DefaultMetadata = d0
  PoolSize = 2
  MaxMessages = 2
SYMMETRY CallerSymmetry
INVARIANT NeverStuck
PROPERTY Atomic
