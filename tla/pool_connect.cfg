SPECIFICATION Spec
CONSTANTS
  Callers = {1, 2}
  MaxAttempts = 2
  MaxSteps = 1
  MaxFaults = 1
  Quirks <- AllQuirks
INVARIANTS
  NoTunnelIsLost
  NewAttemptsStand
  StaysOff
  ServedPoolsWork
PROPERTY
  PendingEnds
