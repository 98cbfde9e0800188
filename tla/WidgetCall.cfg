SPECIFICATION Spec
CONSTANTS
  c1 = c1
  c2 = c2
  Calls <- TwoCalls
  None = None
  MaxHangups = 1
INVARIANTS TypeOK QuietAfterCall NoConversationLeft
SYMMETRY AnyCall
\* Both calls are over and the page has hung up.
CHECK_DEADLOCK FALSE
