SPECIFICATION FairSpec
CONSTANTS
  c1 = c1
  c2 = c2
  Threads = {"main"}
  Cameras = {c1}
  NoCamera = NoCamera
  NativeValues <- IdleOrMoved
  Samples <- Uneven
  TravelMax = 4
  FrameCap = 2
  MaxVisits = 1
PROPERTIES BacklogDrains CameraStopsUnlessOverdrawn
CHECK_DEADLOCK FALSE
