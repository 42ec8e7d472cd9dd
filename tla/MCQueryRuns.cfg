SPECIFICATION Spec
CONSTANTS
  t1 = t1
  t2 = t2
  Tab = {t1, t2}
  NoTab = NoTab
  MaxRuns = 3
  MaxStatements = 2
  Document = {2}
  RunHistoryCap = 2
SYMMETRY Symmetric
INVARIANTS ForcedWasApproved ExecutedInOrder NothingAfterFailure SpinnerHasFlight RunningMeansInFlight SelectedIsShown
PROPERTY ResultsAreFinal
