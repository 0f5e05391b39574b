SPECIFICATION Spec
CONSTANTS
  MaxJobs = 3
  Engines <- EveryEngine
  Quirks <- NoQuirk
  StatementTimeout = TRUE
INVARIANTS
  FlagTellsTheTruth
PROPERTIES
  KeepsThePromise
