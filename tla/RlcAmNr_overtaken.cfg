CONSTANTS
  ModNr = 6
  SduBytes = 2
  PollPdu = 2
  PollByte = 0
  NoSN = NoSN
  NoPdu = NoPdu
  NSdus = 3
  StartSN = {5}
  Links <- OvertakingLinks
  t_status_prohibit = FALSE
  ReportCap = 2
  RetxCap = 2
SPECIFICATION Spec
INVARIANT ConfirmedIsDelivered
CHECK_DEADLOCK FALSE
