SPECIFICATION FairSpec
CONSTANTS
  Files = {f1, f2}
  Contents = {c1, c2}
  Errors = {e1}
  NotExist = notexist
  Absent = absent
  DirFails = TRUE
  MaxChanges = 4
INVARIANTS TypeOK ReportsAreTrue LogAddsUp ErrorIsLastWord
PROPERTY CatchesUp
