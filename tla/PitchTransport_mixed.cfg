SPECIFICATION Spec
CONSTANTS
  Devices = {"pointer", "gamepad"}
  Samples <- Deflections
  DragSamples <- Drags
  VanillaPitches <- Level
  PitchMin = 0
  PitchMax = 2
  TravelMax = 2
INVARIANTS TypeOK OneTurnPerUpdate SilentOutsideRpg
PROPERTIES MouseIsBank
CHECK_DEADLOCK FALSE
