SPECIFICATION FairSpec
CONSTANT Versions = 2
INVARIANTS TypeOK StatusIsTruth QuietAfterShutdown BoundsHandedBack
PROPERTIES VerdictReported ShutdownCompletes
CHECK_DEADLOCK FALSE
