SPECIFICATION Spec
CONSTANTS
  Shapes <- MixedShapes
  MaxChunks = 3
  MaxPieces = 2
  Faults = {"model"}
INVARIANT EveryAnswerIsSent
\* The turn is over.
CHECK_DEADLOCK FALSE
