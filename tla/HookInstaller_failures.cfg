SPECIFICATION Spec
CONSTANTS
  Plan <- CameraHooks
  Place <- Backwards
  PagesOf <- Layout
  Failures = {"map", "unprotect", "reprotect"}
  FailuresMax = 2
INVARIANTS TypeOK CodeHandedBack CallsFindTheirWay
CHECK_DEADLOCK FALSE
