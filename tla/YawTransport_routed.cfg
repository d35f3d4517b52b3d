SPECIFICATION Spec
CONSTANTS
  c1 = c1
  c2 = c2
  Threads = {"main", "input", "remover"}
  Cameras = {c1}
  NoCamera = NoCamera
  NativeValues <- AllNative
  Samples <- OneWay
  TravelMax = 2
  FrameCap = 1
  MaxVisits = 1
INVARIANTS TypeOK LedgerBalance NothingTurnedTwice
CHECK_DEADLOCK FALSE
