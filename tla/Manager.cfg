SPECIFICATION FairSpec
CONSTANTS
  Scripts = {s1, s2, s3}
  Intervals = {"positive", "zero", "unparsable"}
INVARIANTS TypeOK StoppedIsQuiet
PROPERTIES StopEnds KeepsRunning
CHECK_DEADLOCK FALSE
