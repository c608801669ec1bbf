CONSTANTS
  NTasks = 4
  x = x
  y = y
  f1 = f1
  f2 = f2
  app = app
  tool = tool
  Name = {x, y}
  File = {f1, f2}
  NoName = NoName
  Flows <- MCFlows
  Drive = {app, tool}
  Publishings <- MCPublishings
  NRels = 4
  Fold <- MCFold
  Unfit <- MCUnfit
  MaxEntries = 2
  MaxFileBytes = 2
  MaxBytes = 3
  Trees <- MCTrees
  Settings <- MCSettings
SPECIFICATION FilesSpec
INVARIANTS
  GetsLastMade
  RecordMatchesStaged
  ForksExplained
  RecordedIsSeeded
  DryRunsLeaveNothing
  ResolvedIsWhole
  CutBetweenFiles
  WritesOnlyAllowed
  NothingLeftBehind
PROPERTIES
  PrepareReturns
  DisposeReturns
  
