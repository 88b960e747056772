SPECIFICATION CallsSpec
CONSTANTS
  Texts = {d1, d2}
  MaxLines = 4
  MaxFrame = 4
  Names = {look_up, summarize}
  Impls = {f, g}
  Strict = {g}
  None = None
CHECK_DEADLOCK FALSE
INVARIANTS
  DecodedInOrder
  AnswerWhole
  ReturnedIsRead
  CalledAsOffered
  ShadowedOnlyUnchecked
