SPECIFICATION Spec
CONSTANTS
  v1 = v1
  v2 = v2
  v3 = v3
  Versions = {v1, v2, v3}
  NoVersion = NoVersion
  Target = v2
  Inputs <- MCInputs
  Probes = {"p1", "p2"}
  ManualPcts = {0, 100}
  StartRoutings <- MCStartRoutings
  EvalInterval = 1
  RoutingAttempts = 2
  RestoreAttempts = 2
  NoJump = NoJump
  OtherCalls <- MCOtherCalls
  MaxPause = 1
PROPERTIES
  PausedStageStays
CHECK_DEADLOCK FALSE
