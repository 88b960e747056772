SPECIFICATION Spec
CONSTANTS
  s1 = s1
  None = None
  Agents = {a1, a2}
  Sessions = {s1}
  Turns = {t1, t2}
  MaxCalls = 1
  MaxToolRounds = 1
  MayCall = {"ask", "json", "stream"}
  MayBind <- SharedBinding
SYMMETRY TurnSymmetry
INVARIANT NoAnsweredTurnLost
