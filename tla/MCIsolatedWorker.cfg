SPECIFICATION SpecIsolated
CONSTANTS
  Names <- Directory
  MaxFaults = 1
  Outcomes <- TwoRecords
  Policies = {"FAIL"}
  Deferred = TRUE
  InterruptPoints = {"run"}
  MaxInterrupts = 1
  ParentPoints <- Everywhere
  MaxStops = 2
INVARIANTS
  Accepted
  EvidenceRetained
PROPERTIES
  SupervisorKeepsBundle
  SupervisionEnds
