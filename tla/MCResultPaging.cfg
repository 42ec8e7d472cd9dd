SPECIFICATION Spec
CONSTANTS
  Batches <- TwoThenOne
  RunHistoryCap = 1
  Tables <- MixedTables
  PageSize = 2
  MaxBytes = 3
  MaxFaults = 1
INVARIANTS TypeOK FetchingHasFlight RowsAccounted CompleteUnlessTold CursorsHeld
CHECK_DEADLOCK FALSE
