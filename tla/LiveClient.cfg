SPECIFICATION FairSpec
CONSTANTS
  MaxUtterances = 3
  MaxCalls = 2
  MaxQuiets = 2
INVARIANTS TypeOK TurnsAreSerial RecordingIsEnded
PROPERTY CallerIsHeardAgain
\* The caller may say nothing more.
CHECK_DEADLOCK FALSE
