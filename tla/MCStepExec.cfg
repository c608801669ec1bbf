CONSTANTS
  NSteps = 2
  LogLimit = 1
  MaxPrint = 3
  Tasks <- MCTasks
SPECIFICATION Spec
INVARIANTS
  SuccessIsReal
  TimeoutHonest
  OutputsExact
  DisposeSettlesAll
PROPERTIES
  ReportedOnce
  TimeoutEndsStep
  HangUpStopsShell
