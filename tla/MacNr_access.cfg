CONSTANTS
  preambleTransMax = 2
  SrConfigs <- SmallSrConfigs
  MaxStarts = 3
  QueueCap = 3
SPECIFICATION Spec
INVARIANTS TypeOK Supervised
PROPERTIES Ends SrServed
CHECK_DEADLOCK FALSE
