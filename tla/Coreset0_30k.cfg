CONSTANTS
  SsbScs = {1}
  CommonScs = {0, 1}
  Entries <- AllEntries
SPECIFICATION CoresetSpec
INVARIANTS CoresetTypeOK OccasionSearched WholeEntriesRight
CHECK_DEADLOCK FALSE
