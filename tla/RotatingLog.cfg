SPECIFICATION Spec
CONSTANTS
  Levels = {info, error}
  Info = info
  Unknown = unknown
  Settings <- SomeSettings
  DefaultSize = 4
  MaxBackups = 1
  MaxLines = 3
  MaxRestarts = 2
INVARIANTS TypeOK OwnFilesKeepAll LatestKept SizeBound LevelInOrder
CHECK_DEADLOCK FALSE
