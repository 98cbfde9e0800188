SPECIFICATION Spec
CONSTANTS
  k1 = k1
  k2 = k2
  Connections <- TwoConnections
  MaxMessages = 2
  Kinds = {"final", "text", "end"}
  Faults = {"refused", "lost"}
  Erasure = TRUE
SYMMETRY AnyConnection
INVARIANTS
  TypeOK ErasedStaysErased OrderlyIndices ClosedSessionIsOver
\* The callers may hang up.
CHECK_DEADLOCK FALSE
