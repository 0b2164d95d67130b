SPECIFICATION FilebeatSpec
CONSTANTS
  Hosts = {h1, h2}
  LastBatch = 2
  Batches <- Numbers
  BatchLen = 2
  BatchPublish = TRUE
  LoadBalance = FALSE
  MaxRetries = 1
  Guaranteed = TRUE
  Redirects = FALSE
  Failover = failover
  NoHost = nohost
  NoBatch = nobatch
  MaxCrashes = 1
INVARIANT NotRetried
CHECK_DEADLOCK FALSE
