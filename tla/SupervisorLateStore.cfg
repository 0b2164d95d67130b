SPECIFICATION FairSpec
CONSTANTS
  MaxCrashes = 2
  BinaryStable = TRUE
  BadConfig = FALSE
PROPERTY RestartsAlways
CHECK_DEADLOCK FALSE
