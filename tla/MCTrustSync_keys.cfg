SPECIFICATION Spec
CONSTANTS
  Order <- TwoTypes
  Territory = {"LV", "EE"}
  MaxSnap = 2
  TerritoriesOf <- MCTerritories
  CacheTTL = 3
  KeyTTL = 3
  Faults <- NoKeyLost
INVARIANTS
  Authoritative
  EveryEntryAgrees
  Complete
  ReadyIsPublished
PROPERTIES
  RefinesAnchorCache
