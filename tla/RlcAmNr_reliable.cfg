CONSTANTS
  ModNr = 6
  SduBytes = 4
  PollPdu = 2
  PollByte = 0
  NoSN = NoSN
  NoPdu = NoPdu
  NSdus = 3
  StartSN = {5}
  Links <- MCLinks
  t_status_prohibit = TRUE
  ReportCap = 1
  RetxCap = 2
SPECIFICATION Spec
INVARIANTS TypeOK WindowsAgree ReceiverAsserts
PROPERTIES ImplementsReliable AllConfirmed
CHECK_DEADLOCK FALSE
