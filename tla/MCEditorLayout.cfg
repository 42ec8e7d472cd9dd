SPECIFICATION Spec
CONSTANTS
  t1 = t1
  t2 = t2
  Tab = {t1, t2}
  NoTab = NoTab
  MaxGroups = 3
SYMMETRY Symmetric
INVARIANTS TreeIsSound OpenIffShown TreeFollowsSource
PROPERTIES LossNeedsConsent ViewSurvivesClose ImplementsPanes
