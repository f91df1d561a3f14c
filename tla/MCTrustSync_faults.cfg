SPECIFICATION Spec
CONSTANTS
  Order <- OneType
  Territory = {"LV", "EE"}
  MaxSnap = 3
  TerritoriesOf <- MCTerritories
  CacheTTL = 3
  KeyTTL = 2
  Faults <- EveryFault
INVARIANTS
  TypeOK
  ConfirmedContent
  OneSnapshot
  HorizonsAgree
  GoneAtMostAFractionEarly
