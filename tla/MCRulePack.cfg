SPECIFICATION Spec
CONSTANTS
  v1 = v1
  v2 = v2
  broken = broken
  extra = extra
  Files = {2, 3, 4}
  Lower = {2, 3}
  Nested = {5}
  Root = 1
  Holds <- MCHolds
  Contents <- MCContents
  Unparsable <- MCUnparsable
  MaxEdits = 2
SYMMETRY MCSymmetry
INVARIANTS LoadedAsListed VerifiesExactlyWhole
