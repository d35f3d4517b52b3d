SPECIFICATION Spec
CONSTANTS
  Disturbances = {"unsampled", "late", "unplugged", "oversize"}
  QueueMax = 4
INVARIANTS TypeOK TrackedFollowsGame DeferredIsLive
PROPERTIES ZoomNeverToggles ClickStillToggles
CHECK_DEADLOCK FALSE
