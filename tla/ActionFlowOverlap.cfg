SPECIFICATION FairSpec
CONSTANTS
  h1 = h1
  h2 = h2
  Handlers <- TwoHandlers
  MaxActions = 1
  MaxUtterances = 2
  Sayings <- TwoSayings
  Speculation = TRUE
  Operator = {"confirm", "patch"}
  Faults = {"unreachable", "storeError", "create", "storeLost", "fallback", "update", "executor"}
INVARIANTS PlainAtMostOnce HonestSuccess
PROPERTIES MutationHasConsent EveryTurnEnds
\* The caller may stop talking.
CHECK_DEADLOCK FALSE
