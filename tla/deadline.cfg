SPECIFICATION Spec
CONSTANTS
  TimeoutMs = 3
  GraceMs = 2
  HeartbeatMs = 1
  CompactionTimeoutMs = 2
  MaxTime = 11
  MaxAttempts = 2
  MaxPauses = 1
INVARIANTS TypeOK HungRunEvicted RunBudgetKept
PROPERTY WorkingRunKept
CHECK_DEADLOCK FALSE
