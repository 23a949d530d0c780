SPECIFICATION LoadSpec
CONSTANTS
  Defaults = 2
  Contents <- MCContents
  NoId = ""
  Aliases <- MCAliases
  MaxSaves = 1
INVARIANTS PresentFileIsUsed EveryEntryInForce
