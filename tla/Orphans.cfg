CONSTANTS
  NSteps = 1
  LogLimit = 1
  MaxPrint = 0
  Tasks <- OrphanTasks
SPECIFICATION Spec
INVARIANTS
  NoOrphans
