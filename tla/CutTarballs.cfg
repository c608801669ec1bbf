CONSTANTS
  NJobs = 4
  Target = {linux, win}
  Host = linux
  Nowhere = Nowhere
  Inherited = Inherited
  Artifact = {"app", "app-win", "app-{{target}}"}
  Template = {"app-{{target}}"}
  BeginsLike <- MCBeginsLike
  Files <- MCFiles
  Workflows <- MCAllWorkflows
  Commands <- MCCommands
  Image = {base, node}
  Url = {p, q}
  Bytes = {x, y}
  Lockfiles <- MCLockfiles
  MaxRuns = 2
SPECIFICATION SchemaSpec
INVARIANTS
  TarballsVerified
