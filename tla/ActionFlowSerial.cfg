SPECIFICATION Spec
CONSTANTS
  h1 = h1
  h2 = h2
  Handlers <- OneHandler
  MaxActions = 3
  MaxUtterances = 4
  Sayings <- Utterance
  Speculation = FALSE
  Operator = {"confirm"}
  Faults = {"storeError", "create", "storeLost", "fallback"}
INVARIANTS TypeOK AtMostOnce OnlyNewestPending FormsAgree
PROPERTIES SettledIsFinal KeepsContract
\* The caller may stop talking.
CHECK_DEADLOCK FALSE
