CONSTANTS
  NSteps = 2
  NIns = 1
  NOuts = 2
  Jobs <- MCJobs
SPECIFICATION Spec
INVARIANTS
  IfIsEvaluated
