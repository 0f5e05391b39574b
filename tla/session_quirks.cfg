SPECIFICATION Spec
CONSTANTS
  MaxJobs = 3
  Engines <- EveryEngine
  Quirks <- EveryQuirk
  StatementTimeout = TRUE
INVARIANTS
  OpenTxIsTracked
  AnswersInOrder
PROPERTIES
  EveryJobAnswered
