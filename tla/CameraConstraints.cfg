SPECIFICATION Spec
CONSTANTS
  c1 = c1
  c2 = c2
  Cameras <- CameraObjects
  NoCamera = NoCamera
  ArmMax = 5
  SaneMax = 4
  Shortest = 1
  Margin = 2
  FallbackStep = 1
  Probes = 2
  Tolerance = 1
  Resolved <- Doubling
  ClearFrames = 1
  Releases = {1}
  Obstacles <- Walls
  Floors <- Rooms
  Readings <- Answers
  Protections = {{"obstacles", "floor"}, {"obstacles"}}
SYMMETRY EitherCamera
INVARIANTS TypeOK ArmIsSafe SearchResolves
PROPERTIES SweepSettles ReleaseIsEarned
CHECK_DEADLOCK FALSE
