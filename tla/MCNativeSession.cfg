SPECIFICATION Spec
CONSTANTS
  Adapters <- MCAdapters
  MaxRequests = 2
  MaxCalls = 2
  MaxEdits = 2
  MaxFaults = 1
INVARIANTS
  PinnedThroughout
  TemplateHonest
  EngineOwned
