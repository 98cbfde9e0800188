SPECIFICATION FairSpec
CONSTANTS
  Shapes <- MixedShapes
  MaxChunks = 4
  MaxPieces = 2
  Faults = {"tts", "orchestrator", "mixed", "model"}
INVARIANTS TypeOK SpokenInOrder TextIsKept MarkerEndsAudio StreamedAnswerIsSent
PROPERTY TurnCompletes
\* The turn is over.
CHECK_DEADLOCK FALSE
