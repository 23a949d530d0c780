CONSTANTS
  elasticsearch = elasticsearch
  opensearch = opensearch
  a = a
  c = c
  x = x
  Clusters <- MCClusters
  DialectOf <- MCDialectOf
  AnyDialect = AnyDialect
  Versions <- MCVersions
  Statuses = {"pass", "fail", "error"}
  Expiries = {0}
  NoExpiry = NoExpiry
  NoWaiver = NoWaiver
  Formats = {"json", "sarif", "legacySARIF", "summary"}
  FailOn = 3
  MaxDay = 1
  MaxEdits = 1
SYMMETRY Swap
SPECIFICATION Spec
INVARIANT ActiveWaiversNotHarvested
