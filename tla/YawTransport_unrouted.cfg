SPECIFICATION Spec
CONSTANTS
  c1 = c1
  c2 = c2
  Threads = {"input", "remover"}
  Cameras = {c1, c2}
  NoCamera = NoCamera
  NativeValues <- IdleOrMoved
  Samples <- OneWay
  TravelMax = 1
  FrameCap = 1
  MaxVisits = 2
INVARIANTS ChannelReturned
PROPERTIES DebitOnlyWhatTurned
CHECK_DEADLOCK FALSE
