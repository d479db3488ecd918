SPECIFICATION Spec
CONSTANTS
  Reference = "auto"
  Candidate = "fp8_e4m3"
  PromptCount = 2
  MaxAxes = 2
INVARIANTS
  OneEngineResident
