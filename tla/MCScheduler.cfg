CONSTANTS
  NTasks = 4
  Plans <- MCPlans
SPECIFICATION Spec
INVARIANTS
  StartsAfterNeeds
  CascadeExact
  NoBarrier
  NobodyForgotten
PROPERTIES
  ImplementsTaskGraph
  Terminates
