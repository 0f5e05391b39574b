SPECIFICATION Spec
CONSTANTS
  UndoLimit = 2
  Values = {3}
  Saves = {1}
  FirstRows <- TwoRows
  MaxRows = 3
  MaxEdits = 3
INVARIANTS
  PositionsStayHome
  UndoRestores
  QueueExplainsGrid
  LoadedIsStored
  PoolIsClean
PROPERTIES
  AllOrNothing
CHECK_DEADLOCK FALSE
