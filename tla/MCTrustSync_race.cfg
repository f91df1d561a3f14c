SPECIFICATION Spec
CONSTANTS
  Order <- OneType
  Territory = {"LV", "EE"}
  MaxSnap = 2
  TerritoriesOf <- MCTerritories
  CacheTTL = 2
  KeyTTL = 2
  Faults = {"slow"}
PROPERTY
  WithdrawalTakesEffect
