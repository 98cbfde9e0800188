SPECIFICATION FairSpec
CONSTANTS
  c1 = c1
  c2 = c2
  Calls <- TwoCalls
  NumKeys = 2
INVARIANT FindsAKey
PROPERTY EveryCallSettles
\* The calls are used up.
CHECK_DEADLOCK FALSE
