SPECIFICATION Spec
CONSTANTS
  r1 = r1
  r2 = r2
  s1 = s1
  s2 = s2
  s3 = s3
  n1 = n1
  n2 = n2
  Repos <- MCRepos
  Ids <- MCIds
  MaxTime = 3
  Slo = 0
  GapLimit = 1
  Ends = {"SUCCESS", "FAILED"}
  SnapshotChanges = 2
  Templates <- MCTemplates
  Patterns <- MCPatterns
  Covers <- MCCovers
  Length <- MCLength
  PatternSets <- MCPatternSets
  Dynamics = {"", "true", "strict"}
  DriftChanges = 1
  Nodes <- MCNodes
  RoleSets <- MCRoleSets
  DataTiers <- MCTiers
  Preferences <- MCPreferences
  Indices <- MCIndices
  System <- MCSystem
  TierChanges = 2
SYMMETRY MCSymmetry
INVARIANTS DispatchIsExact GapIsLongestSilence RecencyRulesAgree RepeatScanAgrees VerdictHeldOnce
PROPERTY FreshIndexIsClean
