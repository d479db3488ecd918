SPECIFICATION Spec
CONSTANTS
  Installed <- MCInstalled
  MaxChanges = 2
  MaxVersion = 1
INVARIANTS
  RanPinned
  OnlyRuntimeDiffers
PROPERTIES
  ResultsEarned
  VerificationEnds
