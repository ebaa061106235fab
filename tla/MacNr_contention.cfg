CONSTANTS
  preambleTransMax = 2
  SrConfigs <- SmallSrConfigs
  MaxStarts = 1
  QueueCap = 2
SPECIFICATION Spec
INVARIANT WinnerOnly
CHECK_DEADLOCK FALSE
