SPECIFICATION Spec
CONSTANTS
  Devices = {"pointer"}
  Samples <- Deflections
  DragSamples <- Drags
  VanillaPitches <- Level
  PitchMin = 0
  PitchMax = 2
  TravelMax = 2
INVARIANTS PitchStopsOnLift
CHECK_DEADLOCK FALSE
