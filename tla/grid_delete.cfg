SPECIFICATION Spec
CONSTANTS
  UndoLimit = 2
  Values = {1, 3}
  Saves = {1}
  FirstRows <- OneRow
  MaxRows = 2
  MaxEdits = 3
INVARIANTS
  SavedIsShown
CHECK_DEADLOCK FALSE
