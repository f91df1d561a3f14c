SPECIFICATION Spec
CONSTANTS
  Territory = {"LV", "EE"}
  MaxVer = 3
  TerritoriesOf <- MCTerritories
  Interval = 5
  PollTime = 2
  StartTime = 1
INVARIANTS
  TypeOK
  RecordAgesOut
  GaugesNotAhead
  GaugesFollow
  BridgesOneMiss
