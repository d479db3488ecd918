SPECIFICATION ServingSpec
CONSTANTS
  Requests = 3
  Concurrency = 2
  Warmups = 1
  Trials = 1
  MaxTokens = 2
INVARIANTS
  EveryRequestCounted
  TrialsContained
PROPERTIES
  FailureCloses
