SPECIFICATION Spec
CONSTANTS
  InitialCapacity = 2
  MaxEntries = 8
INVARIANTS TypeOK NothingRetained
PROPERTY IsPriorityQueue
