SPECIFICATION Spec
CONSTANTS
  Batches <- TwoThenOne
  RunHistoryCap = 1
  Tables <- MixedTables
  PageSize = 2
  MaxBytes = 3
  MaxFaults = 0
INVARIANT PagesAreContiguous
CHECK_DEADLOCK FALSE
