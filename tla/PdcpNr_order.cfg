SPECIFICATION Spec
CONSTANTS
  SnMod = 8
  CountMod = 16
  QueueCap = 1
  AirCap = 2
  Configs <- MCConfigs
INVARIANTS TypeOK CountRecovered WaitingIsTimed
PROPERTIES ImplementsOrder HeldIsDelivered
CHECK_DEADLOCK FALSE
