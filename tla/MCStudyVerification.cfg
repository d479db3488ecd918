SPECIFICATION Spec
CONSTANTS
  Names <- Directory
  MaxFaults = 2
  Outcomes <- AnyRecord
  Policies <- AnyPolicy
  Deferred = FALSE
  InterruptPoints <- Anywhere
  MaxInterrupts = 2
INVARIANTS
  VerdictEarned
  RecordsRetained
PROPERTIES
  KeepsBundle
