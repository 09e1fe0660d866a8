SPECIFICATION Spec
CONSTANTS
  cronNested = cronNested
  hookDispatch = hookDispatch
  main = main
  cronHooks = cronHooks
  other = other
  NoGroup = NoGroup
  Lane <- GroupedLanes
  GroupEligible = {cronNested, hookDispatch}
  Group = {cronHooks}
  Widths = {1}
  Publications <- GatewayPublications
  InitialWidth <- TwoWide
  Priorities <- ForegroundToo
  MaxEntries = 3
  MaxGeneration = 1
CHECK_DEADLOCK FALSE
INVARIANTS TypeOK NoLostWakeup SlotsAreCurrentTasks NoOvertaking PublishedBudgetHolds
PROPERTIES BudgetKept NoSiblingOvertaken
