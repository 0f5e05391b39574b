SPECIFICATION Spec
CONSTANTS
  Tabs = {1, 2}
  Targets <- AllTargets
  MaxJobs = 2
  MaxSteps = 3
  Quirks = {"pool wait", "database", "palette", "last tab", "reconnect", "close others", "lag"}
INVARIANTS
  OnlyAskedIsCommitted
  RolledBackStaysBack
  NothingLostUnasked
  RunsWhereFirstShown
PROPERTIES
  SessionsEnd
