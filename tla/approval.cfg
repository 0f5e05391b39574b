SPECIFICATION QueueSpec
CONSTANTS
  MaxCalls = 1
  Batches <- EveryBatch
  Elicits <- AnyClient
INVARIANTS
  RiskyNeedsConsent
  DeniedNeverRuns
PROPERTIES
  CallsEnd
  DialogEmpties
