CONSTANTS
  NofUsrp = 2
  NofPoints = 4
  Valid = {1, 3}
  Airs <- NoneOrTwo
  NofTrials = 2
  SlotsPerSf = 1
  Rntis = {1, 2}
  Rars <- SmallRars
  ZerocopyMayFail = TRUE
  RxMayFail = TRUE
SPECIFICATION FairSpec
INVARIANTS TypeOK RasterExhaustive StagesOnCell JoinsAll
PROPERTIES SearchEnds
CHECK_DEADLOCK FALSE
