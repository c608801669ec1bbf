CONSTANTS
  NRels = 4
  Fold <- MCFold
  Unfit <- MCUnfit
  MaxEntries = 2
  MaxFileBytes = 2
  MaxBytes = 3
  Trees <- MCTrees
  Settings <- MCSettings
SPECIFICATION CallSpec
INVARIANTS
  OnlyIntoFresh
