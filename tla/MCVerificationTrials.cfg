CONSTANTS
  Warmups = 1
  Measurements = 2
  Recipes <- MCRecipes
  Pairs <- MCPairs
  Identities = {"a", "b"}
  NoIdentity = "unknown"
SPECIFICATION Spec
INVARIANTS
  FailClosed
  PassMeansCriteria
  TrialsSound
