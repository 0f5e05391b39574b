SPECIFICATION Spec
CONSTANTS
  MaxJobs = 2
  MaxTabs = 2
  MaxSets = 1
  Kinds <- Plain
  BareSwitch = FALSE
INVARIANTS
  ClosedTabRunsNothing
  ResultsInOrder
  SpinnerMeansRunning
PROPERTIES
  ClosedTabStartsNothing
  KeepsTheBoard
  JobsEnd
