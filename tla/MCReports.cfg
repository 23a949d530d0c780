CONSTANTS
  es = es
  os = os
  r1 = r1
  r2 = r2
  elasticsearch = elasticsearch
  opensearch = opensearch
  none = none
  Fleets <- MCFleets
  DialectOf <- MCDialectOf
  Catalog <- MCCatalog
  SeverityOf <- MCSeverityOf
  FailOn = 3
  NoDialect = none
SPECIFICATION Spec
INVARIANTS FormatsAgreeWithGate OneVerdictPerRow ReportIsComplete BaselineRoundTrip ExplainFindsTheRow
