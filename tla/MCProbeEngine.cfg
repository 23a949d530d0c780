CONSTANTS
  es = es
  os = os
  nodes = nodes
  health = health
  ilm = ilm
  audit = audit
  empty = empty
  good = good
  bad = bad
  Catalog <- MCCatalog
  Probes <- MCProbes
  NoProbe <- empty
  Dialects <- MCDialects
  Wired <- MCWired
  Data <- MCData
  Outcome <- MCOutcome
  Concurrencies = {0, 1, 2}
SPECIFICATION Spec
INVARIANTS TypeOK InFlightBounded CacheIsSafe FetchedAtMostOnce PrefetchIsExact
PROPERTIES CancelStopsRequests ScanTerminates ImplementsRuleScan
