CONSTANTS
  NSteps = 1
  NIns = 1
  NOuts = 2
  Jobs <- MCJobs
SPECIFICATION Spec
INVARIANTS
  StoresOnlyGoodBuilds
