SPECIFICATION Spec
CONSTANTS
  None = None
  Members = {a1, a2}
  Stranger = stranger
  MaxHandoffRounds = 2
  Pipelines <- OneRedacts
  MaxChunks = 1
SYMMETRY MemberSymmetry
INVARIANTS
  AskedAsReported
  AnswerAsReported
  EventsComplete
  PrivateStaysIn
  
  BlockedIsNotUsed
  GroundedOrFallback
  RoutingEnds
