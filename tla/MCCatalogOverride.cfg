CONSTANTS
  a = a
  b = b
  c = c
  typo = typo
  perf = perf
  safety = safety
  none = none
  noProfile = noProfile
  Releases <- MCReleases
  Custom <- MCCustom
  NoId <- none
  Profiles <- MCProfiles
  NoProfile <- noProfile
  Filters <- MCFilters
  UnderRules <- MCUnderRules
SPECIFICATION SpecGate
INVARIANT OverridesApplyOrWarn
