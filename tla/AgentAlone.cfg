SPECIFICATION Spec
CONSTANTS
  s1 = s1
  None = None
  Agents = {a1}
  Sessions = {s1, s2}
  Turns = {t1, t2, t3}
  MaxCalls = 2
  MaxToolRounds = 1
  MayCall = {"ask", "json", "stream"}
  MayBind <- AnyBinding
SYMMETRY TurnSymmetry
INVARIANTS
  RequestsWellPaired
  SessionIsolation
  NoAnsweredTurnLost
  JsonModeLeaksOnlyByDrop
PROPERTY StreamRollsBack
