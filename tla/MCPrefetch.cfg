SPECIFICATION Spec
CONSTANTS
  Uri = {"a", "b", "c"}
  TopN = 2
  Keep = 2
  Interval = 2
  DefaultTTL = 4
  MinTTL = 1
  MaxTTL = 5
  Claims <- MCClaims
  NoClaim = NoClaim
  Second = 4
  Modulus = 128
  PassTime = 3
  Faults = {"error"}
INVARIANTS
  TypeOK
  StaysWarm
  GoneSoonAfterExp
PROPERTIES
  HitSurvives
