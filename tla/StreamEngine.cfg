SPECIFICATION Spec
CONSTANTS
  MaxInputs = 3
  MaxConversations = 2
INVARIANTS
  TypeOK
  CacheIsSuffix
  EndReleases
CHECK_DEADLOCK FALSE
