SPECIFICATION FairSpec
CONSTANTS
  None = None
  Tasks = {k1, k2}
  Streams = {st1}
  MaxDeltas = 1
  MaxCommands = 2
INVARIANTS
  TypeOK
  ClosedNotPersisted
  PersistedUnbroken
PROPERTIES
  CallsReturn
  CloseReleases
