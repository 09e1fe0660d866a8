SPECIFICATION Spec
CONSTANTS
  TimeoutMs = 2
  GraceMs = 2
  HeartbeatMs = 1
  CompactionTimeoutMs = 1
  MaxTime = 9
  MaxAttempts = 1
  MaxPauses = 0
PROPERTY ReleasedOnlyIfIgnored
CHECK_DEADLOCK FALSE
