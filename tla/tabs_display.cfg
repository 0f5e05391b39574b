SPECIFICATION Spec
CONSTANTS
  MaxTabs = 3
  MaxResults = 2
INVARIANTS
  StripIsOrdered
  DisplayStaysHome
