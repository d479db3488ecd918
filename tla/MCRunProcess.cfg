SPECIFICATION Spec
CONSTANTS
  Streams <- MergedPipe
  QueueCap = 1
  MaxOutput = 1
  MaxWritten = 2
  Descendants = {"member", "detached"}
  InterruptPoints <- InsideTry
INVARIANTS
  CleanedUp
  CompleteOutput
  OwnVerdict
PROPERTIES
  Termination
