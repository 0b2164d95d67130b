SPECIFICATION Spec
CONSTANTS
  Hosts = {h1, h2}
  Batches = {b1, b2}
  BatchLen = 2
  BatchPublish = TRUE
  LoadBalance = FALSE
  MaxRetries = 1
  Guaranteed = TRUE
  Redirects = FALSE
  Failover = failover
  NoHost = nohost
  NoBatch = nobatch
SYMMETRY Symmetry
INVARIANT AckedSettled
CHECK_DEADLOCK FALSE
