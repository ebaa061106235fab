CONSTANTS
  NofUsrp = 1
  NofPoints = 2
  Valid = {1, 2}
  Airs = {{2}}
  NofTrials = 2
  SlotsPerSf = 2
  Rntis = {1, 2}
  Rars <- SmallRars
  ZerocopyMayFail = TRUE
  RxMayFail = FALSE
SPECIFICATION Spec
INVARIANT Msg2HasSib1
CHECK_DEADLOCK FALSE
