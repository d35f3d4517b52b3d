SPECIFICATION Spec
CONSTANTS
  Files <- ShortFiles
  Garbage = Garbage
  ImageLists <- SomeImages
  CameraPatterns <- TwoPatterns
  GuardPattern <- Guard
  OnlyVerified = {"polling"}
  NoText = NoText
  GuardOffset = 4
  CbzW8 <- CbzEncodings
  Definitions = {"default", "controller"}
  Authored <- SomeRanges
INVARIANTS TypeOK LoadedAsWritten PatchedAsLocated BoundsStayARange
CHECK_DEADLOCK FALSE
