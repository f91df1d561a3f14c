SPECIFICATION FairSpec
CONSTANTS
  Deployments <- MCDeployments
  N = 2
  MaxMissed = 2
INVARIANTS
  TypeOK
  BridgesMissedPolls
  HealthyStaysFresh
  TokenUnlessInternal
PROPERTIES
  Recovers
