\* Five pieces and any more, three of which fit the buffer, and a patience of three ticks.
SPECIFICATION HttpFairSpec
CONSTANTS
  BufferPieces = 3
  Budget = 3
  MaxPieces = 5
INVARIANT AnswerIsRead
PROPERTY EndsInTime
