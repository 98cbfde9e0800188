SPECIFICATION Spec
CONSTANTS
  r1 = r1
  r2 = r2
  r3 = r3
  Requests <- ThreeRequests
  Seed = Seed
  None = None
INVARIANTS TypeOK CreatedIsOnRecord OneEchoPal
PROPERTIES NoUpdateLost
SYMMETRY AnyRequest
\* Every request has been answered.
CHECK_DEADLOCK FALSE
