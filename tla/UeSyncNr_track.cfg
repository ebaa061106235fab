CONSTANTS
  SfnMod = 24
  SfLen = 14
  SsbLen = 4
  LFirst <- CaseA
  Beams = {1, 2}
  CellPeriodMs = 20
  PeriodMs = 20
  SeesRxFailure = {TRUE, FALSE}
  CastKeepsSign = TRUE
  Losses = {0, 1, 14}
  MaxDisturb = 1
  InitAir <- FirstFrame
  NoTail = NoTail
SPECIFICATION FairSpec
INVARIANTS TypeOK AlignedInTrack
PROPERTIES OutcomeConsecutive KeepsTrack Recovers
