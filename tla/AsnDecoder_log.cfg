CONSTANTS
  Producers = {r1, r2}
  Nodes = {n1, n2, n3}
  NULL = NULL
  PushBound = 2
  Freed <- OneLibrary
  MayTerminate = TRUE
SPECIFICATION FairSpec
INVARIANTS TypeOK ListSound
PROPERTIES KeepsPromise AllWritten
CHECK_DEADLOCK FALSE
