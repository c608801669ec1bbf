CONSTANTS
  NSteps = 1
  LogLimit = 1
  MaxPrint = 0
  Tasks <- WedgedTasks
SPECIFICATION Spec
PROPERTIES
  DriverTimeoutSuffices
