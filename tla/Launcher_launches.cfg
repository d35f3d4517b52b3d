SPECIFICATION Spec
CONSTANTS
  Shared = {"rotate"}
  WasdOnly = {"forward"}
  Choices = {"own"}
  Disturbances = {"crash", "unsaved", "overlap", "unsynchronized", "unreadProfile", "unreadRecord"}
  Launches = 3
INVARIANTS TypeOK BindingsOnRecord BackupIsUntouched PreferenceHandedBack
PROPERTIES LaunchIsIdempotent LaunchIsOneStep
CHECK_DEADLOCK FALSE
