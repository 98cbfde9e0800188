SPECIFICATION Spec
CONSTANTS
  h1 = h1
  h2 = h2
  Handlers <- OneHandler
  MaxActions = 1
  MaxUtterances = 3
  Sayings <- TwoSayings
  Speculation = FALSE
  Operator = {}
  Faults = {}
PROPERTY CancelledStaysCancelled
\* The caller may stop talking.
CHECK_DEADLOCK FALSE
