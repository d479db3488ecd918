SPECIFICATION Spec
CONSTANTS
  Checks <- OneCheck
  Overridable <- OneCheck
  Captures <- TwoKinds
  Qualifiable <- TokenIds
  Values = {"plain", "opaque"}
  InterruptPoints <- Guarded
INVARIANTS
  RecordHonest
  LaunchGuarded
  SessionReleased
PROPERTIES
  KeepsContract
