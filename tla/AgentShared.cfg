SPECIFICATION Spec
CONSTANTS
  s1 = s1
  None = None
  Agents = {a1, a2}
  Sessions = {s1}
  Turns = {t1, t2, t3}
  MaxCalls = 1
  MaxToolRounds = 1
  MayCall = {"ask", "stream"}
  MayBind <- SharedBinding
SYMMETRY TurnSymmetry
INVARIANTS
  StoredTranscriptsComplete
  FailedTurnsLeaveNoTrace
  StoredTurnsDistinct
  AskedTurnsVetted
  ClearedReturnsByRaceOnly
