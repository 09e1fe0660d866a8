SPECIFICATION FairSpec
CONSTANTS
  cronNested = cronNested
  hookDispatch = hookDispatch
  main = main
  cronHooks = cronHooks
  other = other
  NoGroup = NoGroup
  Lane <- AllLanes
  GroupEligible <- AllLanes
  Group = {cronHooks, other}
  Widths = {}
  Publications <- ThreeLanePublications
  InitialWidth <- TwoWide
  Priorities <- NormalOnly
  MaxEntries = 2
  MaxGeneration = 1
CHECK_DEADLOCK FALSE
INVARIANTS RegistryConsistent ReservationFilled
PROPERTIES QueuedIsServed
