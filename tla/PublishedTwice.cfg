CONSTANTS
  NTasks = 4
  x = x
  y = y
  f1 = f1
  f2 = f2
  app = app
  tool = tool
  Name = {x, y}
  File = {f1, f2}
  NoName = NoName
  Flows <- Publishers
  Drive = {app, tool}
  Publishings <- InEarnest
SPECIFICATION PublishSpec
INVARIANTS
  RecordBindsLink
