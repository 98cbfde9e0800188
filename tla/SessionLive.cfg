SPECIFICATION FairSpec
CONSTANTS
  k1 = k1
  k2 = k2
  Connections <- OneConnection
  MaxMessages = 2
  Kinds = {"chunk", "final", "text", "end"}
  Faults = {"refused", "lost"}
  Erasure = FALSE
INVARIANT AudioIsKept
PROPERTY MessagesFinish
\* The caller may hang up.
CHECK_DEADLOCK FALSE
