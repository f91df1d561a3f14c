SPECIFICATION Spec
CONSTANTS
  Required <- TwoTypes
  CacheTTL = 2
  Request = {"resync", "status"}
INVARIANTS
  TypeOK
  ReadyBodyIsFresh
