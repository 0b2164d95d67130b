SPECIFICATION FairSpec
CONSTANTS
  MaxCrashes = 3
  BinaryStable = FALSE
  BadConfig = TRUE
INVARIANTS TypeOK Supervised OneChild OutlivesOnlyStartedAfterKill
PROPERTY StaysUp
CHECK_DEADLOCK FALSE
