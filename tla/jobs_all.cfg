SPECIFICATION Spec
CONSTANTS
  MaxJobs = 2
  MaxTabs = 2
  MaxSets = 2
  Kinds <- Everything
  BareSwitch = TRUE
INVARIANTS
  ResultsStayHome
