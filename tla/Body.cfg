SPECIFICATION Spec
CONSTANTS
  Bodies = 3
  Items = 3
  MaxRequests = 2
INVARIANTS TypeOK WholeUnlessShared SuffixAtWorst NothingStale NoneDropped
CHECK_DEADLOCK FALSE
