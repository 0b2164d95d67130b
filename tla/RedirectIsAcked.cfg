SPECIFICATION Spec
CONSTANTS
  Hosts = {h1, h2}
  Batches = {b1}
  BatchLen = 1
  BatchPublish = FALSE
  LoadBalance = TRUE
  MaxRetries <- Forever
  Guaranteed = TRUE
  Redirects = TRUE
  Failover = failover
  NoHost = nohost
  NoBatch = nobatch
SYMMETRY Symmetry
INVARIANT AckedSettled
CHECK_DEADLOCK FALSE
