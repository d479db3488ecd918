SPECIFICATION CorpusSpec
CONSTANTS
  f1 = f1
  f2 = f2
  Fetchers <- Two
  Chunks = 2
  MaxBytes = 2
  MaxChanges = 1
  MaxFaults = 1
  MaxBreaks = 2
  MaxDisturbs = 1
  Found <- MCFound
SYMMETRY Interchangeable
INVARIANTS
  CacheUsable
PROPERTIES
  ReturnsVerified
  EntriesStay
  CopyRetained
  DirectoryOwned
