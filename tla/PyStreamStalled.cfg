SPECIFICATION StalledSpec
CONSTANTS
  None = None
  Tasks = {k1}
  Streams = {st1}
  MaxDeltas = 1
  MaxCommands = 1
PROPERTY CloseReleases
