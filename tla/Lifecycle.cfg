SPECIFICATION Spec
INVARIANTS TypeOK NoStaleTimeout NothingOutstanding IrqBacked
PROPERTIES RequestFree TransfersEnd ShutdownReleases
\* both programs end
CHECK_DEADLOCK FALSE
