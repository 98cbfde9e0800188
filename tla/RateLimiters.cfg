SPECIFICATION Spec
CONSTANTS
  client = client
  Keys <- OneKey
  Window = 3
  MaxRequests = 2
  MaxCalls = 2
  MaxTime = 8
  MaxCount = 4
INVARIANTS TypeOK FixedBurst SlidingLimit RefusedForCause
\* The clock stops.
CHECK_DEADLOCK FALSE
