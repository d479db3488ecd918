SPECIFICATION Spec
CONSTANTS
  RunHosts <- MCHosts
  Probes <- MCProbes
  DecodeDepths <- MCDecode
  StressDepths <- MCStress
  DecodeRuns <- MCDecodeRuns
  StressRuns <- MCStressRuns
  PplDeltas <- MCDeltas
  Samples = {"ok", "hot"}
  MaxRows = 1
  MaxFaults = 1
  MaxSignals = 1
INVARIANTS
  StatusAgrees
  CleanSummary
PROPERTIES
  NoRowLost
  Ends
