SPECIFICATION FilebeatFairSpec
CONSTANTS
  Hosts = {h1, h2}
  LastBatch = 2
  Batches <- Numbers
  BatchLen = 2
  BatchPublish = TRUE
  LoadBalance = FALSE
  MaxRetries <- Forever
  Guaranteed = TRUE
  Redirects = TRUE
  Failover = failover
  NoHost = nohost
  NoBatch = nobatch
  MaxCrashes = 2
INVARIANTS AckedAccounted RegistryTrails DuplicatesExplained
PROPERTY AllRecorded
CHECK_DEADLOCK FALSE
