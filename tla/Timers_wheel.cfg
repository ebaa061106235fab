SPECIFICATION Spec
CONSTANTS
  Timers = {t1, t2, t3}
  WheelSize = 2
  TicMod = 4
  Durations = {0}
  NoTimer = NoTimer
SYMMETRY TimerSymmetry
INVARIANTS TypeOK WheelHoldsRunning
PROPERTIES ImplementsCountdown
