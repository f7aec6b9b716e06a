SPECIFICATION Spec
CONSTANTS
  NFamilies = 2
  Workers = {w1, w2}
  Born <- MCBorn
  Reports = {"match", "differ", "absent"}
  None = None
  Scenarios <- MCScenarios
  MaxSource = 2
  MaxFetches = 3
  MaxEvents = 2
  w1 = w1
  w2 = w2
SYMMETRY Interchangeable
CHECK_DEADLOCK FALSE
INVARIANTS TypeOK BlankRowsAreMarked UnwarnedIsCurrent InSyncWasSettled
PROPERTIES OverlaysNeverGoBack AmbiguousStoreIsNotAdopted
