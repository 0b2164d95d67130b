SPECIFICATION Spec
CONSTANTS
  Hosts = {h1, h2}
  Batches = {b1, b2}
  BatchLen = 2
  BatchPublish = FALSE
  LoadBalance = TRUE
  MaxRetries = 1
  Guaranteed = FALSE
  Redirects = FALSE
  Failover = failover
  NoHost = nohost
  NoBatch = nobatch
SYMMETRY Symmetry
INVARIANTS
  TypeOK OneOwner AckedSettled NoDuplicateWithoutDoubt InOrder RetryBudget DropNeedsAttempt
PROPERTY KeepsPromise
CHECK_DEADLOCK FALSE
