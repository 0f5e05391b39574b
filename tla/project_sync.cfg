SPECIFICATION Spec
CONSTANTS
  Devices = {1, 2}
  MaxProjects = 2
  MaxName = 2
  MaxSteps = 4
  MaxFaults = 2
INVARIANTS
  NewestIsKept
PROPERTIES
  OnlyRenamesClash
  EditsArrive
  DeletionsArrive
CHECK_DEADLOCK FALSE
