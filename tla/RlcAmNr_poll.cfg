CONSTANTS
  ModNr = 6
  SduBytes = 4
  PollPdu = 2
  PollByte = 0
  NoSN = NoSN
  NoPdu = NoPdu
  NSdus = 1
  StartSN = {5}
  Links <- SegmentLinks
  t_status_prohibit = FALSE
  ReportCap = 1
  RetxCap = 2
SPECIFICATION Spec
PROPERTY PollRecovers
CHECK_DEADLOCK FALSE
